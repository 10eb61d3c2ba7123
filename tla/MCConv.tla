---------------------------------- MODULE MCConv ----------------------------------
(* Naturals, a structure, a unit type, propositions and a K-like family, and sessions *)
(* in which probes run out, proofs are skipped and steps are remembered.              *)
EXTENDS Conv, Binding

V == INSTANCE Values

LitNat(n) == V!LitNat(n)
Proj(s_, i, e) == V!Proj(s_, i, e)
C(c) == Const(c)
b(i) == BVar(i)
A2(f, x, y) == App(App(f, x), y)
A3(f, x, y, z) == App(A2(f, x, y), z)
Fun(t, u) == Pi(t, u)
N == C("Nat")
Type == Sort(1)
Axiom(t) == [kind |-> "axiom", type |-> t]
Def(t, v, h, n) == [kind |-> "def", type |-> t, value |-> v, hint |-> h, height |-> n, op |-> "none"]
Induct(t, ctors, np, ni, r) == [kind |-> "induct", type |-> t, ctors |-> ctors, nparams |-> np, nindices |-> ni, is_rec |-> r]
Ctor(t, i, np, nf) == [kind |-> "ctor", type |-> t, induct |-> i, nparams |-> np, nfields |-> nf]
Succ(x) == App(C("succ"), x)

\* natrec : (M : N -> Type) -> M 0 -> ((n : N) -> M n -> M (succ n)) -> (n : N) -> M n
natrecType == Pi(Fun(N, Type), Pi(App(b(0), C("zero")),
  Pi(Pi(N, Pi(App(b(2), b(0)), App(b(3), Succ(b(1))))), Pi(N, App(b(3), b(0))))))
Binders3(e) == Lam(Fun(N, Type), Lam(App(b(0), C("zero")),
  Lam(Pi(N, Pi(App(b(2), b(0)), App(b(3), Succ(b(1))))), e)))
ByCases(zero, succ, n) == App(A3(C("natrec"), Lam(N, N), zero, Lam(N, Lam(N, succ))), n)
\* Erec : (a : N) -> (M : (c : N) -> E a c -> Type) -> M a (refl a) -> (c : N) -> (h : E a c) -> M c h
MotiveE == Pi(N, Pi(A2(C("E"), b(1), b(0)), Type))
ErecType == Pi(N, Pi(MotiveE, Pi(A2(b(0), b(1), App(C("refl"), b(1))),
  Pi(N, Pi(A2(C("E"), b(3), b(0)), A2(b(3), b(1), b(0)))))))
Cast(a, c, h, v) == App(App(A3(C("Erec"), a, Lam(N, Lam(A2(C("E"), a, b(0)), N)), v), c), h)

one == Succ(C("zero"))
MCConsts ==
  [Nat |-> Induct(Type, <<"zero", "succ">>, 0, 0, TRUE), zero |-> Ctor(N, "Nat", 0, 0), succ |-> Ctor(Fun(N, N), "Nat", 0, 1),
   natrec |-> [kind |-> "rec", type |-> natrecType, nparams |-> 0, nbefore |-> 3, major_idx |-> 3, k |-> FALSE, induct |-> "Nat",
     rules |-> [zero |-> [nfields |-> 0, rhs |-> Binders3(b(1))],
                succ |-> [nfields |-> 1, rhs |-> Binders3(Lam(N, A2(b(1), b(0), App(A3(C("natrec"), b(3), b(2), b(1)), b(0)))))]]],
   E |-> Induct(Pi(N, Fun(N, Sort(0))), <<"refl">>, 1, 1, FALSE), refl |-> Ctor(Pi(N, A2(C("E"), b(0), b(0))), "E", 1, 0),
   Erec |-> [kind |-> "rec", type |-> ErecType, nparams |-> 1, nbefore |-> 3, major_idx |-> 4, k |-> TRUE, induct |-> "E",
     rules |-> [refl |-> [nfields |-> 0, rhs |-> Lam(N, Lam(MotiveE, Lam(A2(b(0), b(1), App(C("refl"), b(1))), b(0))))]]],
   S |-> Induct(Type, <<"mk">>, 0, 0, FALSE), mk |-> Ctor(Fun(N, Fun(N, C("S"))), "S", 0, 2), s |-> Axiom(C("S")),
   R |-> Induct(Type, <<"mkR">>, 0, 0, FALSE), mkR |-> Ctor(Fun(Fun(N, N), C("R")), "R", 0, 1), r |-> Axiom(C("R")),
   U |-> Induct(Type, <<"star">>, 0, 0, FALSE), star |-> Ctor(C("U"), "U", 0, 0), u |-> Axiom(C("U")), w |-> Axiom(C("U")),
   P |-> Axiom(Fun(N, Sort(0))), p |-> Axiom(App(C("P"), C("two"))), q |-> Axiom(App(C("P"), C("two"))),
   h |-> Axiom(A2(C("E"), C("two"), A2(C("add"), one, one))), wrong |-> Axiom(A2(C("E"), one, C("two"))),
   f |-> Axiom(Pi(N, Fun(App(C("P"), b(0)), N))), F |-> Axiom(Fun(N, N)), m |-> Axiom(N),
   T |-> Axiom(Fun(N, Type)), TS |-> Axiom(Fun(C("S"), Type)), TU |-> Axiom(Fun(C("U"), Type)),
   TF |-> Axiom(Fun(Fun(N, N), Type)), TP |-> Axiom(Fun(App(C("P"), C("two")), Type)),
   two |-> Def(N, Succ(one), "regular", 1),
   add |-> [Def(Fun(N, Fun(N, N)), Lam(N, Lam(N, ByCases(b(1), Succ(b(0)), b(0)))), "regular", 1) EXCEPT !.op = "add"],
   g |-> Def(Fun(N, N), Lam(N, Succ(b(0))), "regular", 1),
   dbl |-> Def(Fun(N, N), Lam(N, A2(C("add"), b(0), b(0))), "regular", 2),
   idn |-> Def(Fun(N, N), Lam(N, b(0)), "abbrev", 0),
   cst |-> Def(Fun(N, N), Lam(N, C("two")), "regular", 2),
   lem |-> Def(App(C("P"), C("two")), C("p"), "opaque", 0)]

\* "T a = T c": the identity on T a, declared to go to T c.
Says(fam, a, c) == [type |-> Fun(App(C(fam), a), App(C(fam), c)), value |-> Lam(App(C(fam), a), b(0)), verdict |-> "accepted"]
Denies(fam, a, c) == [Says(fam, a, c) EXCEPT !.verdict = "rejected"]
G(x) == App(C("g"), x)
Add(x, y) == A2(C("add"), x, y)
Snd(e) == Proj("S", 1, e)
CastH == Cast(C("two"), Add(one, one), C("h"), C("m"))

Call_r(x) == App(Proj("R", 0, C("r")), x)
Cases(zero) == ByCases(zero, b(0), C("m"))
Long == Add(one, C("two"))
Short == Succ(C("two"))

Lazily == { Says("T", G(Long), G(Short)), Says("T", Succ(Long), G(Short)), Says("T", G(G(Long)), G(G(Short))),
            Says("T", Cases(G(Long)), Cases(G(Short))), Denies("T", G(Long), C("two")) }
KLike == { Says("T", G(CastH), G(C("m"))), Says("T", CastH, C("m")), Denies("T", Cast(one, C("two"), C("wrong"), C("m")), C("m")),
           Says("T", App(C("cst"), C("m")), App(C("idn"), C("two"))) }
Proofs == { Says("T", A2(C("f"), C("two"), C("p")), A2(C("f"), LitNat(2), C("q"))), Denies("T", A2(C("f"), C("two"), C("p")), C("m")),
            Says("TP", C("lem"), C("q")) }
Structures == { Says("TS", C("s"), A2(C("mk"), Proj("S", 0, C("s")), Snd(C("s")))),
                Denies("TS", C("s"), A2(C("mk"), C("m"), Snd(C("s")))), Denies("T", Snd(C("s")), Proj("S", 0, C("s"))),
                Says("T", Call_r(C("two")), Call_r(LitNat(2))), Says("TU", C("u"), C("w")) }
Functions == { Says("TF", C("F"), Lam(N, App(C("F"), b(0)))), Denies("TF", C("F"), Lam(N, b(0))),
               Says("TF", C("dbl"), Lam(N, Add(b(0), b(0)))), Says("T", App(C("dbl"), C("two")), LitNat(4)),
               Denies("T", App(C("cst"), one), one) }
MCScripts == UNION {{<<e, e2>> : e, e2 \in group} : group \in {Lazily, KLike, Proofs, Structures, Functions}}
MCUnsigned == {{}, DOMAIN MCConsts}
-------------------------------------------------------------------------------
(* Conversion uses the functions of Values.                                    *)

Apply(x, a) == LET v == V!Apply(x, a) IN v
InstPi(d, x, a) == LET v == V!InstPi(d, x, a) IN v
LamDom(x) == LET v == V!LamDom(x) IN v
Whnf(d, x) == LET v == V!Whnf(d, x) IN v
StepIn(d, x) == LET v == V!Step(d, x) IN v
ValueType(d, x) == LET v == V!ValueType(d, x) IN v
ConstType(c) == LET v == V!ConstType(c) IN v
IsPropType(d, t) == LET v == V!IsPropType(d, t) IN v
OfUnitType(d, x) == LET v == V!HasUnitType(d, x) IN v
TelescopeOf(n, t) == LET v == V!Telescope(n, t) IN v
K_Asks(d, x) == LET v == V!AsksK(d, x) IN v
K_Type(d, x) == LET v == V!KType(d, x) IN v
K_Ctor(rec, t) == LET v == V!KCtor(rec, t) IN v
K_Major(d, x, fits) == LET v == V!KMajor(d, x, fits) IN v
Iota(d, x, a) == LET v == V!IotaWith(d, x, a) IN v
CheckConst(c) == LET v == V!CheckConst(c) IN v
Equal(d, x, y) == LET v == V!DefEq(d, x, y) IN v
IsClean(x) == LET v == V!Clean(x) IN v
===================================================================================
