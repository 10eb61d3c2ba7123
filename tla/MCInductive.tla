------------------------------- MODULE MCInductive -------------------------------
(* Blocks over naturals, lists, vectors and a few propositions, right and wrong, each *)
(* with recursors that are right or differ in one thing.                              *)
EXTENDS Inductive

Nm(s) == Name(<<s>>)
Of(t, s) == Name(<<t, s>>)
C(s) == Const(Nm(s))
b(i) == BVar(i)
A1(f, x) == App(f, x)
A2(f, x, y) == App(App(f, x), y)
N == C("Nat")
zero == Const(Of("Nat", "zero"))
succ == Const(Of("Nat", "succ"))
Prop == Sort(0)
Type == Sort(1)
List(t) == A1(C("List"), t)
Fn(t) == A1(C("Fn"), t)
Vec(t, n) == A2(C("Vec"), t, n)

Axiom(n, t) == (n :> [kind |-> "axiom", type |-> t])
Kind(n, t, np, all, ctors) ==
  (Nm(n) :> [kind |-> "induct", name |-> Nm(n), type |-> t, nparams |-> np, ctors |-> [i \in DOMAIN ctors |-> Of(n, ctors[i])],
             all |-> [i \in DOMAIN all |-> Nm(all[i])]])
Ctor(n, c, t) == (Of(n, c) :> [kind |-> "ctor", type |-> t])
MCDeclared ==
  Kind("Nat", Type, 0, <<"Nat">>, <<"zero", "succ">>) @@ Ctor("Nat", "zero", N) @@ Ctor("Nat", "succ", Pi(N, N)) @@
  Kind("List", Pi(Type, Type), 1, <<"List">>, <<"nil", "cons">>) @@ Ctor("List", "nil", Pi(Type, List(b(0)))) @@
  Ctor("List", "cons", Pi(Type, Pi(b(0), Pi(List(b(1)), List(b(2)))))) @@
  Kind("Vec", Pi(Type, Pi(N, Type)), 1, <<"Vec">>, <<"nil", "cons">>) @@ Ctor("Vec", "nil", Pi(Type, Vec(b(0), zero))) @@
  Ctor("Vec", "cons", Pi(Type, Pi(N, Pi(b(1), Pi(Vec(b(2), b(1)), Vec(b(3), A1(succ, b(2)))))))) @@
  Kind("Fn", Pi(Type, Type), 1, <<"Fn">>, <<"mk">>) @@ Ctor("Fn", "mk", Pi(Type, Pi(Pi(b(0), N), Fn(b(1))))) @@
  \* Sig A B: pairs of an A and an element of B of it
  Kind("Sig", Pi(Type, Pi(Pi(b(0), Type), Type)), 2, <<"Sig">>, <<"mk">>) @@
  Ctor("Sig", "mk", Pi(Type, Pi(Pi(b(0), Type), Pi(b(1), Pi(A1(b(1), b(0)), A2(C("Sig"), b(3), b(2))))))) @@
  \* declared together, the second without the first
  Kind("Hull", Pi(Type, Type), 1, <<"Hull", "Leaf">>, <<"mk">>) @@ Ctor("Hull", "mk", Pi(Type, Pi(A1(C("Leaf"), b(0)), A1(C("Hull"), b(1))))) @@
  Kind("Leaf", Pi(Type, Type), 1, <<"Hull", "Leaf">>, <<"mk", "step">>) @@ Ctor("Leaf", "mk", Pi(Type, Pi(b(0), A1(C("Leaf"), b(1))))) @@
  Ctor("Leaf", "step", Pi(Type, Pi(A1(C("Leaf"), b(0)), A1(C("Leaf"), b(1))))) @@
  Kind("Some", Pi(Type, Prop), 1, <<"Some">>, <<"mk">>) @@ Ctor("Some", "mk", Pi(Type, Pi(b(0), A1(C("Some"), b(1))))) @@
  Kind("And", Pi(Prop, Pi(Prop, Prop)), 2, <<"And">>, <<"mk">>) @@
  Ctor("And", "mk", Pi(Prop, Pi(Prop, Pi(b(1), Pi(b(1), A2(C("And"), b(3), b(2))))))) @@
  Axiom(Nm("True"), Prop) @@ Axiom(Nm("Fam"), Pi(Type, Pi(N, Type)))

Types(n, t, np, ctors) ==
  [name |-> Nm(n), type |-> t, nparams |-> np, unsafe |-> FALSE, all |-> <<Nm(n)>>,
   ctors |-> [i \in DOMAIN ctors |-> [name |-> Of(n, ToString(i)), type |-> ctors[i], nfields |-> num_pis(ctors[i]) - np]]]
Block(n, t, np, ctors) == [types |-> <<Types(n, t, np, ctors)>>, nparams |-> np, unsafe |-> FALSE]
Mutual(t, ctorsA, ctorsB) ==
  LET all == <<Nm("A"), Nm("B")>>
  IN [types |-> <<[Types("A", Type, 0, ctorsA) EXCEPT !.all = all], [Types("B", t, 0, ctorsB) EXCEPT !.all = all]>>,
      nparams |-> 0, unsafe |-> FALSE]
Plain(t, ctors) == Block("T", t, 0, ctors)
Param(t, ctors) == Block("T", Pi(Type, t), 1, ctors)
T == C("T")
T1(x) == A1(T, x)
Unsafe(d) == [d EXCEPT !.unsafe = TRUE, !.types[1].unsafe = TRUE]

Positive ==
  { Plain(Type, <<T, Pi(T, T)>>),
    Param(Type, <<Pi(Type, T1(b(0))), Pi(Type, Pi(b(0), Pi(T1(b(1)), T1(b(2)))))>>),
    Param(Pi(N, Type), <<Pi(Type, A2(T, b(0), zero)), Pi(Type, Pi(N, Pi(b(1), Pi(A2(T, b(2), b(1)), A2(T, b(3), A1(succ, b(2)))))))>>),
    Mutual(Type, <<Pi(C("B"), C("A"))>>, <<Pi(C("A"), C("B")), C("B")>>),
    \* trees with infinitely many branches
    Block("T", Pi(Type, Pi(Pi(b(0), Type), Type)), 2,
      <<Pi(Type, Pi(Pi(b(0), Type), Pi(b(1), Pi(Pi(A1(b(1), b(0)), A2(T, b(3), b(2))), A2(T, b(3), b(2))))))>>),
    Plain(Type, <<>>), Plain(Type, <<T>>), Unsafe(Plain(Type, <<Pi(Pi(T, N), T)>>)) }
Nested ==
  { Param(Type, <<Pi(Type, Pi(b(0), Pi(List(T1(b(1))), T1(b(2)))))>>),
    Plain(Type, <<Pi(List(List(T)), Pi(List(T), T))>>),
    Plain(Type, <<Pi(Pi(N, List(T)), T)>>),
    Plain(Type, <<Pi(Vec(T, zero), T), Pi(N, Pi(Vec(T, b(0)), T))>>),
    Plain(Type, <<Pi(A2(C("Sig"), N, Lam(N, T)), T)>>),
    Plain(Type, <<Pi(A1(C("Leaf"), T), T)>>),
    Param(Type, <<Pi(Type, Pi(List(A1(C("Hull"), T1(b(0)))), T1(b(1))))>>),
    Mutual(Type, <<Pi(List(C("B")), C("A"))>>, <<Pi(List(C("A")), Pi(List(C("B")), C("B")))>>) }
\* Propositions with elements that are determined by their types ...
Subsingletons ==
  { Block("T", Pi(Type, Pi(b(0), Pi(b(1), Prop))), 2, <<Pi(Type, Pi(b(0), App(A2(T, b(1), b(0)), b(0))))>>),
    \* accessible elements of a relation
    Block("T", Pi(Type, Pi(Pi(b(0), Pi(b(1), Prop)), Pi(b(1), Prop))), 2,
      <<Pi(Type, Pi(Pi(b(0), Pi(b(1), Prop)), Pi(b(1),
          Pi(Pi(b(2), Pi(A2(b(2), b(0), b(1)), App(A2(T, b(4), b(3)), b(1)))), App(A2(T, b(3), b(2)), b(1))))))>>),
    Plain(Prop, <<>>), Plain(Prop, <<Pi(C("True"), Pi(T, T))>>) }
\* ... and with elements that are not, or not as far as the rules for them tell.
Disjunctive ==
  { Block("T", Pi(Prop, Pi(Prop, Prop)), 2, <<Pi(Prop, Pi(Prop, Pi(b(1), A2(T, b(2), b(1))))), Pi(Prop, Pi(Prop, Pi(b(0), A2(T, b(2), b(1)))))>>),
    Block("T", Pi(Type, Pi(Pi(b(0), Prop), Prop)), 2, <<Pi(Type, Pi(Pi(b(0), Prop), Pi(b(1), Pi(A1(b(1), b(0)), A2(T, b(3), b(2))))))>>),
    Plain(Prop, <<Pi(Type, T)>>), Plain(Prop, <<Pi(A2(C("And"), T, C("True")), T)>>) }
Wrong ==
  { Plain(Type, <<Pi(Pi(T, N), T)>>), Plain(Type, <<Pi(Pi(Pi(N, T), N), T)>>), Plain(Type, <<Pi(Fn(T), T)>>),
    Plain(Type, <<Pi(List(Fn(T)), T)>>), Unsafe(Plain(Type, <<Pi(N, Pi(List(A2(C("Fam"), T, b(0))), T))>>)),
    Plain(Type, <<Pi(List(A2(C("Fam"), T, zero)), T)>>), Plain(Type, <<Pi(A1(C("Some"), T), T)>>),
    Plain(Type, <<Pi(Type, T)>>), Plain(Type, <<Pi(T, N)>>), Plain(N, <<>>), Plain(Type, <<Pi(C("True"), T)>>),
    Param(Type, <<Pi(Type, Pi(T1(List(b(0))), T1(b(1))))>>), Param(Type, <<Pi(Type, T1(N))>>), Param(Type, <<Pi(Prop, T1(N))>>),
    Param(Type, <<T1(N)>>), Plain(Pi(Type, Type), <<T1(T1(N))>>), Mutual(Prop, <<Pi(C("B"), C("A"))>>, <<C("B")>>), Mutual(Type, <<C("B")>>, <<C("A")>>),
    Block("Nat", Type, 0, <<>>), [Plain(Type, <<T>>) EXCEPT !.unsafe = TRUE], [Plain(Type, <<T>>) EXCEPT !.nparams = 1],
    [Plain(Type, <<T, T>>) EXCEPT !.types[1].ctors[2].name = Of("T", "1")],
    [Plain(Type, <<Pi(T, T)>>) EXCEPT !.types[1].ctors[1].nfields = 0],
    [Mutual(Type, <<>>, <<>>) EXCEPT !.types[1].all = <<Nm("A")>>] }

Exporting(d, e) == [types |-> d.types, nparams |-> d.nparams, unsafe |-> d.unsafe, export |-> e]
Eliminating == Positive \cup Nested \cup Subsingletons
MCBlocks ==
  {Exporting(d, e) : d \in Eliminating \cup Disjunctive, e \in {"right", "type", "k", "rule", "missing", "renamed", "extra"}}
    \cup {Exporting(d, "elim") : d \in Disjunctive} \cup {Exporting(d, "right") : d \in Wrong}

\* Recursors into Prop alone of types that eliminate into every universe.
WeakExports == {Exporting(d, "elim") : d \in Eliminating}
==================================================================================
