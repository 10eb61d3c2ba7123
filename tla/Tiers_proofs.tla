----------------------------- MODULE Tiers_proofs -----------------------------
(***************************************************************************)
(* Theorems about Tiers, for every number of declarations and of terms.    *)
(***************************************************************************)
EXTENDS Tiers, NaturalOrder, FiniteSetTheorems

\* A hypothesis: with --keep-going, no declaration fails after a rule was derived for it.
\* Where one does, TLC finds NoHandleAcrossReclaim violated (TiersTrim.cfg).
RulesSurvive == KeepGoing => ~RuledFailure

Nodes == Leaves \cup {Lit(n) : n \in Nat} \cup {App(f, x) : f, x \in Nat}
SavedNodes == Leaves \cup {Lit(v) : v \in Lits} \cup {App(f, x) : f, x \in Nat}

TypeOK ==
  /\ pc \in {"load", "check", "end", "restore", "over"}
  /\ nodes \in Seq(Nodes) /\ lits \in Seq(Lits)
  /\ frozen \in BOOLEAN /\ wm \in Nat /\ wmLit \in Nat
  /\ at \in 1..(NDecls + 1)
  /\ exported \in [Consts -> Nat] /\ env \in [Consts -> Nat]
  /\ state \in [Consts -> 0..4] /\ rule \in [Consts -> Nat]
  /\ deriving \in Seq(Consts) /\ pending \in SUBSET Consts
  /\ saved.nodes \in Seq(SavedNodes) /\ out \in Seq(Nat)

\* A node is made of what was in the table before it.
IsLeaf(nd) == (\E n \in Atoms : nd = Const(n)) \/ (\E n \in FVars : nd = FVar(n))
IsLit(nd) == \E n \in DOMAIN lits : nd = Lit(n)
IsApp(nd, bound) == \E f, x \in 1..bound : nd = App(f, x)
IsNode(nd, bound) == IsLeaf(nd) \/ IsLit(nd) \/ IsApp(nd, bound)
Built == \A g \in DOMAIN nodes : IsNode(nodes[g], g - 1)

\* No node and no literal is in the table twice.
Distinct ==
  /\ \A g, h \in DOMAIN nodes : nodes[g] = nodes[h] => g = h
  /\ \A m, n \in DOMAIN lits : lits[m] = lits[n] => m = n

\* The permanent tier is what is below the watermark, or everything while it is being
\* filled.  It has no free variable and does not need the temporary one.
Top == IF frozen THEN wm ELSE Len(nodes)
TopLit == IF frozen THEN wmLit ELSE Len(lits)
Tiered ==
  /\ wm <= Len(nodes) /\ wmLit <= Len(lits)
  /\ perm = 1..Top /\ temp = (Top + 1)..Len(nodes)
  /\ \A g \in 1..Top : nodes[g].k # "fvar"
  /\ \A g \in 1..Top : nodes[g].k = "lit" => nodes[g].a \in 1..TopLit
  /\ \A g \in 1..wm : nodes[g].k = "lit" => nodes[g].a \in 1..wmLit
  /\ frozen <=> pc \in {"check", "end", "over"}

\* What the environment holds is below the watermark.
Environment ==
  /\ pc = "load" => at = 1
  /\ pc \in {"check", "end", "restore"} => at \in Consts
  /\ \A c \in Consts : env[c] # 0 <=> c < at \/ (c = at /\ pc \in {"end", "restore"})
  /\ StandardQuot => \A c \in Consts : env[c] <= wm
  /\ pc # "load" => \A c \in Consts : exported[c] \in 1..wm
  /\ pc # "load" /\ StandardQuot => \A c \in Quots : Tree[exported[c]] = BuiltIn

\* What the slots hold: a permanent rule, or one of this declaration.
Ruled ==
  /\ pending = {c \in Consts : state[c] = 2}
  /\ \A c \in Consts : state[c] # 0 => env[c] # 0
  /\ \A c \in Consts : state[c] = 1 <=> \E j \in DOMAIN deriving : deriving[j] = c
  /\ \A j, n \in DOMAIN deriving : deriving[j] = deriving[n] => j = n
  /\ deriving # <<>> => pc = "check"
  /\ \A c \in Consts : state[c] = 3 => rule[c] \in 1..wm
  /\ \A c \in pending : pc # "restore" => rule[c] \in DOMAIN nodes /\ ~has_fvar(rule[c])

\* The rules being promoted: children come first, and what was rebuilt is the same term.
IsSaved(nd, bound) ==
  \/ \E n \in Atoms : nd = Const(n)
  \/ \E v \in Lits : nd = Lit(v)
  \/ IsApp(nd, bound)
Promoted ==
  /\ pc # "restore" => saved = NoSaved /\ out = <<>>
  /\ Len(out) <= Len(saved.nodes)
  /\ \A n \in DOMAIN saved.nodes : IsSaved(saved.nodes[n], n - 1)
  /\ pc = "restore" => \A c \in pending : saved.roots[c] \in DOMAIN saved.nodes
  /\ \A n \in 1..Len(out) : out[n] \in DOMAIN nodes /\ Tree[out[n]] = SavedTree[n]

IInv == TypeOK /\ Built /\ Distinct /\ Tiered /\ Environment /\ Ruled /\ Promoted

-------------------------------------------------------------------------------
(* Terms.                                                                    *)

LEMMA Tuples ==
  /\ \A a, b, c, d : <<a, b>> = <<c, d>> => a = c /\ b = d
  /\ \A a, b, c, d, e, f : <<a, b, c>> = <<d, e, f>> => a = d /\ b = e /\ c = f
<1>1. ASSUME NEW a, NEW b, NEW c, NEW d, <<a, b>> = <<c, d>>
      PROVE  a = c /\ b = d
  BY <1>1
<1>2. ASSUME NEW a, NEW b, NEW c, NEW d, NEW e, NEW f, <<a, b, c>> = <<d, e, f>>
      PROVE  a = d /\ b = e /\ c = f
  BY <1>2
<1> QED BY <1>1, <1>2

\* What the kind of a node says.
LEMMA Kinds ==
  ASSUME NEW nd, NEW bound \in Nat
  PROVE  /\ IsLeaf(nd) => nd.k \in {"const", "fvar"}
         /\ IsLit(nd) => nd.k = "lit" /\ nd.a \in DOMAIN lits /\ nd = Lit(nd.a)
         /\ IsApp(nd, bound) => /\ nd.k = "app" /\ nd = App(nd.a, nd.b)
                                /\ nd.a \in 1..bound /\ nd.b \in 1..bound
         /\ (\E n \in Atoms : nd = Const(n)) => nd.k = "const" /\ nd = Const(nd.a)
         /\ (\E n \in FVars : nd = FVar(n)) => nd.k = "fvar" /\ nd = FVar(nd.a)
<1>1. IsLeaf(nd) => nd.k \in {"const", "fvar"}
  BY DEF IsLeaf, Const, FVar
<1>2. IsLit(nd) => nd.k = "lit" /\ nd.a \in DOMAIN lits /\ nd = Lit(nd.a)
  BY DEF IsLit, Lit
<1>3. IsApp(nd, bound) => /\ nd.k = "app" /\ nd = App(nd.a, nd.b)
                          /\ nd.a \in 1..bound /\ nd.b \in 1..bound
  BY DEF IsApp, App
<1> QED BY <1>1, <1>2, <1>3 DEF Const, FVar

\* The term of a node, from those of its children.
TermOf(f, g) ==
  LET nd == nodes[g]
      Child(x) == IF x < g THEN f[x] ELSE Junk
  IN CASE nd.k = "app" -> <<"app", Child(nd.a), Child(nd.b)>>
       [] nd.k = "lit" -> IF nd.a \in DOMAIN lits THEN <<"lit", lits[nd.a]>> ELSE Junk
       [] OTHER -> <<nd.k, nd.a>>

LEMMA TermOfBelow ==
  ASSUME Built, NEW g \in DOMAIN nodes, g \in Nat, NEW e, NEW f, \A m \in 1..(g - 1) : e[m] = f[m]
  PROVE  TermOf(e, g) = TermOf(f, g)
<1>1. (IsNode(nodes[g], g - 1) /\ g - 1 \in Nat) \/ g = 0
  BY DEF Built
<1>2. nodes[g].k = "app" => nodes[g].a \in 1..(g - 1) /\ nodes[g].b \in 1..(g - 1)
  BY <1>1, Kinds DEF IsNode, Built, IsApp
<1> QED BY <1>2 DEF TermOf

\* The definition of Tree is a recursion that ends.
LEMMA TreeDef ==
  ASSUME TypeOK, Built
  PROVE  DOMAIN Tree = DOMAIN nodes /\ \A g \in DOMAIN nodes : Tree[g] = TermOf(Tree, g)
<1> DEFINE T == {n \in Nat : n <= Len(nodes) => \E f : f = [m \in 1..n |-> TermOf(f, m)]}
<1>0. Len(nodes) \in Nat /\ DOMAIN nodes = 1..Len(nodes)
  BY DEF TypeOK
<1>1. 0 \in T
  <2>1. [m \in 1..0 |-> 0] = [m \in 1..0 |-> TermOf([m1 \in 1..0 |-> 0], m)]
    OBVIOUS
  <2> QED BY <2>1
<1>2. ASSUME NEW n \in T
      PROVE  n + 1 \in T
  <2> SUFFICES ASSUME n + 1 <= Len(nodes)
               PROVE  \E f : f = [m \in 1..(n + 1) |-> TermOf(f, m)]
    OBVIOUS
  <2>1. PICK f : f = [m \in 1..n |-> TermOf(f, m)]
    BY <1>0
  <2> DEFINE g == [m \in 1..(n + 1) |-> TermOf(f, m)]
  <2>2. ASSUME NEW m \in 1..n
        PROVE  f[m] = g[m]
    <3>1. m \in 1..(n + 1)
      OBVIOUS
    <3>2. [mm \in 1..n |-> TermOf(f, mm)][m] = TermOf(f, m)
      OBVIOUS
    <3>3. g[m] = TermOf(f, m)
      BY <3>1
    <3> HIDE DEF g
    <3> QED BY <2>1, <3>2, <3>3, Zenon
  <2>3. ASSUME NEW m \in 1..(n + 1)
        PROVE  TermOf(f, m) = TermOf(g, m)
    <3>1. m \in DOMAIN nodes /\ m \in Nat /\ \A j \in 1..(m - 1) : j \in 1..n
      BY <1>0
    <3> HIDE DEF g
    <3> QED BY <2>2, <3>1, TermOfBelow
  <2>4. g = [m \in 1..(n + 1) |-> TermOf(g, m)]
    BY <2>3
  <2> QED BY <2>4
<1>3. Len(nodes) \in T
  <2>1. T = Nat
    <3>1. T \in SUBSET Nat
      OBVIOUS
    <3> HIDE DEF T
    <3> QED BY <1>1, <1>2, <3>1, Induction
  <2> HIDE DEF T
  <2> QED BY <1>0, <2>1
<1>4. \E f : f = [m \in DOMAIN nodes |-> TermOf(f, m)]
  BY <1>0, <1>3
<1>5. Tree = [m \in DOMAIN nodes |-> TermOf(Tree, m)]
  BY <1>4 DEF Tree, TermOf
<1> QED BY <1>5

\* The nodes by their kinds.
LEMMA NodeKinds ==
  ASSUME TypeOK, Built, NEW g \in DOMAIN nodes
  PROVE  /\ g \in Nat \ {0} /\ g \in 1..Len(nodes)
         /\ nodes[g].k \in {"const", "fvar", "lit", "app"}
         /\ nodes[g].k = "const" => nodes[g] = Const(nodes[g].a)
         /\ nodes[g].k = "fvar" => nodes[g] = FVar(nodes[g].a)
         /\ nodes[g].k = "lit" => nodes[g].a \in DOMAIN lits /\ nodes[g] = Lit(nodes[g].a)
         /\ nodes[g].k = "app" => /\ nodes[g] = App(nodes[g].a, nodes[g].b)
                                  /\ nodes[g].a \in 1..(g - 1) /\ nodes[g].b \in 1..(g - 1)
                                  /\ nodes[g].a \in DOMAIN nodes /\ nodes[g].b \in DOMAIN nodes
<1>1. g \in Nat \ {0} /\ g - 1 \in Nat /\ g \in 1..Len(nodes) /\ DOMAIN nodes = 1..Len(nodes)
      /\ Len(nodes) \in Nat
  BY DEF TypeOK
<1>2. IsNode(nodes[g], g - 1)
  BY DEF Built
<1>3. IsLeaf(nodes[g]) => (\E n \in Atoms : nodes[g] = Const(n)) \/ (\E n \in FVars : nodes[g] = FVar(n))
  BY DEF IsLeaf
<1>4. nodes[g].a \in 1..(g - 1) => nodes[g].a \in DOMAIN nodes
  BY <1>1
<1>5. nodes[g].b \in 1..(g - 1) => nodes[g].b \in DOMAIN nodes
  BY <1>1
<1> QED BY <1>1, <1>2, <1>3, <1>4, <1>5, Kinds DEF IsNode

\* The term of a node by its kind.
LEMMA TreeFacts ==
  ASSUME TypeOK, Built, NEW g \in DOMAIN nodes
  PROVE  /\ nodes[g].k = "app" => Tree[g] = <<"app", Tree[nodes[g].a], Tree[nodes[g].b]>>
         /\ nodes[g].k = "lit" => Tree[g] = <<"lit", lits[nodes[g].a]>>
         /\ nodes[g].k \in {"const", "fvar"} => Tree[g] = <<nodes[g].k, nodes[g].a>>
<1>1. Tree[g] = TermOf(Tree, g)
  BY TreeDef
<1>2. CASE nodes[g].k = "app"
  <2>1. nodes[g].a \in 1..(g - 1) /\ nodes[g].b \in 1..(g - 1) /\ g \in Nat
    BY <1>2, NodeKinds
  <2>2. nodes[g].a < g /\ nodes[g].b < g
    BY <2>1
  <2>3. TermOf(Tree, g) = <<"app", Tree[nodes[g].a], Tree[nodes[g].b]>>
    BY <1>2, <2>2, Zenon DEF TermOf
  <2> QED BY <1>1, <1>2, <2>3
<1>3. CASE nodes[g].k = "lit"
  <2>1. nodes[g].a \in DOMAIN lits /\ nodes[g].k # "app"
    BY <1>3, NodeKinds
  <2>2. TermOf(Tree, g) = <<"lit", lits[nodes[g].a]>>
    BY <1>3, <2>1 DEF TermOf
  <2> QED BY <1>1, <1>3, <2>2
<1>4. CASE nodes[g].k \in {"const", "fvar"}
  <2>1. nodes[g].k # "app" /\ nodes[g].k # "lit"
    BY <1>4
  <2>2. TermOf(Tree, g) = <<nodes[g].k, nodes[g].a>>
    BY <2>1 DEF TermOf
  <2> QED BY <1>1, <1>4, <2>1, <2>2
<1> QED BY <1>2, <1>3, <1>4

\* Different handles stand for different terms: equal terms of least handle would be
\* equal nodes.
LEMMA TreeInjective ==
  ASSUME TypeOK, Built, Distinct
  PROVE  \A g, h \in DOMAIN nodes : Tree[g] = Tree[h] => g = h
<1> DEFINE T == {g \in DOMAIN nodes : \E h \in DOMAIN nodes : Tree[g] = Tree[h] /\ g # h}
<1> SUFFICES ASSUME T # {} PROVE FALSE
  OBVIOUS
<1>1. PICK g \in T : \A m \in T : g <= m
  <2>1. T \in SUBSET Nat
    BY NodeKinds
  <2> HIDE DEF T
  <2> QED BY <2>1, Least
<1>2. PICK h \in DOMAIN nodes : Tree[g] = Tree[h] /\ g # h
  OBVIOUS
<1>3. g \in DOMAIN nodes /\ g \in Nat
  BY NodeKinds
<1>4. \A m \in 1..(g - 1), n \in DOMAIN nodes : m \in DOMAIN nodes /\ Tree[m] = Tree[n] => m = n
  BY <1>1, <1>3
<1> HIDE DEF T
<1>5. /\ nodes[g].k \in {"const", "fvar", "lit", "app"}
      /\ nodes[h].k \in {"const", "fvar", "lit", "app"}
  BY <1>2, <1>3, NodeKinds
<1>6. nodes[g].k = nodes[h].k
  <2>1. Tree[g][1] = nodes[g].k
    BY <1>3, <1>5, TreeFacts
  <2>2. Tree[h][1] = nodes[h].k
    BY <1>2, <1>5, TreeFacts
  <2> QED BY <1>2, <2>1, <2>2
<1>7. CASE nodes[g].k \in {"const", "fvar"}
  <2>1. nodes[g].a = nodes[h].a
    BY <1>2, <1>3, <1>6, <1>7, TreeFacts
  <2>2. nodes[g] = nodes[h]
    BY <1>2, <1>3, <1>6, <1>7, <2>1, NodeKinds DEF Const, FVar
  <2> QED BY <1>2, <1>3, <2>2 DEF Distinct
<1>8. CASE nodes[g].k = "lit"
  <2>1. lits[nodes[g].a] = lits[nodes[h].a]
    <3>1. Tree[g] = <<"lit", lits[nodes[g].a]>> /\ Tree[h] = <<"lit", lits[nodes[h].a]>>
      BY <1>2, <1>3, <1>6, <1>8, TreeFacts
    <3>2. <<"lit", lits[nodes[g].a]>> = <<"lit", lits[nodes[h].a]>>
      BY <1>2, <3>1
    <3> QED BY <3>2, Tuples, Zenon
  <2>2. nodes[g].a = nodes[h].a
    BY <1>2, <1>3, <1>6, <1>8, <2>1, NodeKinds DEF Distinct
  <2>3. nodes[g] = nodes[h]
    BY <1>2, <1>3, <1>6, <1>8, <2>2, NodeKinds DEF Lit
  <2> QED BY <1>2, <1>3, <2>3 DEF Distinct
<1>9. CASE nodes[g].k = "app"
  <2>1. Tree[nodes[g].a] = Tree[nodes[h].a] /\ Tree[nodes[g].b] = Tree[nodes[h].b]
    <3>1. /\ Tree[g] = <<"app", Tree[nodes[g].a], Tree[nodes[g].b]>>
          /\ Tree[h] = <<"app", Tree[nodes[h].a], Tree[nodes[h].b]>>
      BY <1>2, <1>3, <1>6, <1>9, TreeFacts
    <3>2. <<"app", Tree[nodes[g].a], Tree[nodes[g].b]>>
            = <<"app", Tree[nodes[h].a], Tree[nodes[h].b]>>
      BY <1>2, <3>1
    <3> QED BY <3>2, Tuples, Zenon
  <2>2. /\ nodes[g].a \in 1..(g - 1) /\ nodes[g].b \in 1..(g - 1)
        /\ nodes[g].a \in DOMAIN nodes /\ nodes[g].b \in DOMAIN nodes
        /\ nodes[h].a \in DOMAIN nodes /\ nodes[h].b \in DOMAIN nodes
    BY <1>2, <1>3, <1>6, <1>9, NodeKinds
  <2>3. nodes[g].a = nodes[h].a /\ nodes[g].b = nodes[h].b
    BY <1>4, <2>1, <2>2
  <2>4. nodes[g] = nodes[h]
    BY <1>2, <1>3, <1>6, <1>9, <2>3, NodeKinds DEF App
  <2> QED BY <1>2, <1>3, <2>4 DEF Distinct
<1> QED BY <1>5, <1>7, <1>8, <1>9

-------------------------------------------------------------------------------
(* What a term is built from.                                                *)

PartsOf(f, g) == {g} \cup (IF nodes[g].k = "app" THEN f[nodes[g].a] \cup f[nodes[g].b] ELSE {})

\* The definition of Parts is a recursion that ends.
LEMMA PartsDef ==
  ASSUME TypeOK, Built
  PROVE  DOMAIN Parts = DOMAIN nodes /\ \A g \in DOMAIN nodes : Parts[g] = PartsOf(Parts, g)
<1> DEFINE T == {n \in Nat : n <= Len(nodes) => \E f : f = [m \in 1..n |-> PartsOf(f, m)]}
<1>0. Len(nodes) \in Nat /\ DOMAIN nodes = 1..Len(nodes)
  BY DEF TypeOK
<1>1. 0 \in T
  <2>1. [m \in 1..0 |-> 0] = [m \in 1..0 |-> PartsOf([m1 \in 1..0 |-> 0], m)]
    OBVIOUS
  <2> QED BY <2>1
<1>2. ASSUME NEW n \in T
      PROVE  n + 1 \in T
  <2> SUFFICES ASSUME n + 1 <= Len(nodes)
               PROVE  \E f : f = [m \in 1..(n + 1) |-> PartsOf(f, m)]
    OBVIOUS
  <2>1. PICK f : f = [m \in 1..n |-> PartsOf(f, m)]
    BY <1>0
  <2> DEFINE g == [m \in 1..(n + 1) |-> PartsOf(f, m)]
  <2>2. ASSUME NEW m \in 1..n
        PROVE  f[m] = g[m]
    <3>1. m \in 1..(n + 1)
      OBVIOUS
    <3>2. [mm \in 1..n |-> PartsOf(f, mm)][m] = PartsOf(f, m)
      OBVIOUS
    <3>3. g[m] = PartsOf(f, m)
      BY <3>1
    <3> HIDE DEF g
    <3> QED BY <2>1, <3>2, <3>3, Zenon
  <2>3. ASSUME NEW m \in 1..(n + 1)
        PROVE  PartsOf(f, m) = PartsOf(g, m)
    <3>1. m \in DOMAIN nodes /\ m \in Nat /\ \A j \in 1..(m - 1) : j \in 1..n
      BY <1>0
    <3>2. nodes[m].k = "app" => f[nodes[m].a] = g[nodes[m].a] /\ f[nodes[m].b] = g[nodes[m].b]
      <4> HIDE DEF g
      <4> QED BY <2>2, <3>1, NodeKinds
    <3> HIDE DEF g
    <3> QED BY <3>2 DEF PartsOf
  <2>4. g = [m \in 1..(n + 1) |-> PartsOf(g, m)]
    BY <2>3
  <2> QED BY <2>4
<1>3. Len(nodes) \in T
  <2>1. T = Nat
    <3>1. T \in SUBSET Nat
      OBVIOUS
    <3> HIDE DEF T
    <3> QED BY <1>1, <1>2, <3>1, Induction
  <2> HIDE DEF T
  <2> QED BY <1>0, <2>1
<1>4. \E f : f = [m \in DOMAIN nodes |-> PartsOf(f, m)]
  BY <1>0, <1>3
<1>5. Parts = [m \in DOMAIN nodes |-> PartsOf(Parts, m)]
  BY <1>4 DEF Parts, PartsOf
<1> QED BY <1>5

\* The parts of a term are in the table, up to its own handle, and with an
\* application its function and its argument are among them.
ClosedParts(g) ==
  /\ g \in Parts[g] /\ Parts[g] \subseteq 1..g
  /\ \A m \in Parts[g] : nodes[m].k = "app" => nodes[m].a \in Parts[g] /\ nodes[m].b \in Parts[g]

LEMMA PartsFacts ==
  ASSUME TypeOK, Built
  PROVE  \A g \in DOMAIN nodes : ClosedParts(g) /\ Parts[g] \subseteq DOMAIN nodes
<1> DEFINE T == {g \in DOMAIN nodes : ~ClosedParts(g)}
<1>0. Len(nodes) \in Nat /\ DOMAIN nodes = 1..Len(nodes)
  BY DEF TypeOK
<1>1. T = {}
  <2> SUFFICES ASSUME T # {} PROVE FALSE
    OBVIOUS
  <2>1. PICK g \in T : \A m \in T : g <= m
    <3>1. T \in SUBSET Nat
      BY <1>0
    <3> HIDE DEF T
    <3> QED BY <3>1, Least
  <2>2. g \in DOMAIN nodes /\ g \in Nat \ {0} /\ ~ClosedParts(g)
    BY <1>0
  <2>3. \A m \in 1..(g - 1) : ClosedParts(m)
    BY <1>0, <2>1, <2>2
  <2> HIDE DEF T
  <2>4. Parts[g] = PartsOf(Parts, g)
    BY <2>2, PartsDef
  <2>5. CASE nodes[g].k = "app"
    <3>1. Parts[g] = {g} \cup Parts[nodes[g].a] \cup Parts[nodes[g].b]
      BY <2>4, <2>5 DEF PartsOf
    <3>2. nodes[g].a \in 1..(g - 1) /\ nodes[g].b \in 1..(g - 1)
      BY <2>2, <2>5, NodeKinds
    <3>3. ClosedParts(nodes[g].a) /\ ClosedParts(nodes[g].b)
      BY <2>3, <3>2
    <3>4. Parts[g] \subseteq 1..g
      BY <2>2, <3>1, <3>2, <3>3 DEF ClosedParts
    <3>5. ASSUME NEW m \in Parts[g], nodes[m].k = "app"
          PROVE  nodes[m].a \in Parts[g] /\ nodes[m].b \in Parts[g]
      <4>1. CASE m = g
        BY <3>1, <3>3, <4>1 DEF ClosedParts
      <4>2. CASE m \in Parts[nodes[g].a]
        BY <3>1, <3>3, <3>5, <4>2 DEF ClosedParts
      <4>3. CASE m \in Parts[nodes[g].b]
        BY <3>1, <3>3, <3>5, <4>3 DEF ClosedParts
      <4> QED BY <3>1, <4>1, <4>2, <4>3
    <3>6. g \in Parts[g]
      BY <3>1
    <3> QED BY <2>2, <3>4, <3>5, <3>6 DEF ClosedParts
  <2>6. CASE nodes[g].k # "app"
    <3>1. Parts[g] = {g}
      BY <2>4, <2>6 DEF PartsOf
    <3> QED BY <2>2, <2>6, <3>1 DEF ClosedParts
  <2> QED BY <2>5, <2>6
<1>2. \A g \in DOMAIN nodes : ClosedParts(g)
  BY <1>1
<1>3. \A g \in DOMAIN nodes : 1..g \subseteq DOMAIN nodes
  BY <1>0
<1> QED BY <1>2, <1>3 DEF ClosedParts

-------------------------------------------------------------------------------
(* Steps of the table.                                                       *)

\* All that is known of a node's term and parts, in one formula about a state.
Described ==
  /\ \A g \in DOMAIN nodes : g \in Nat \ {0} /\ nodes[g].k \in {"const", "fvar", "lit", "app"}
  /\ \A g \in DOMAIN nodes : nodes[g].k = "app" =>
       /\ nodes[g].a \in 1..(g - 1) /\ nodes[g].b \in 1..(g - 1)
       /\ Tree[g] = <<"app", Tree[nodes[g].a], Tree[nodes[g].b]>>
       /\ Parts[g] = {g} \cup Parts[nodes[g].a] \cup Parts[nodes[g].b]
  /\ \A g \in DOMAIN nodes : nodes[g].k = "lit" => Tree[g] = <<"lit", lits[nodes[g].a]>>
  /\ \A g \in DOMAIN nodes : nodes[g].k \in {"const", "fvar"} => Tree[g] = <<nodes[g].k, nodes[g].a>>
  /\ \A g \in DOMAIN nodes : nodes[g].k # "app" => Parts[g] = {g}

LEMMA Description == TypeOK /\ Built => Described
<1> SUFFICES ASSUME TypeOK, Built PROVE Described
  OBVIOUS
<1>1. ASSUME NEW g \in DOMAIN nodes
      PROVE  /\ nodes[g].k = "app" => Parts[g] = {g} \cup Parts[nodes[g].a] \cup Parts[nodes[g].b]
             /\ nodes[g].k # "app" => Parts[g] = {g}
  <2>1. Parts[g] = PartsOf(Parts, g)
    BY PartsDef
  <2> QED BY <2>1 DEF PartsOf
<1> QED BY <1>1, NodeKinds, TreeFacts DEF Described

LEMMA DescriptionNext == TypeOK' /\ Built' => Described'
<1>1. TypeOK /\ Built => Described
  BY Description
<1> QED BY <1>1, PTL

\* While the first nodes stay and the literals they name, so do their terms and parts.
LEMMA BelowSame ==
  ASSUME TypeOK, Built, TypeOK', Built',
         NEW n \in Nat, n <= Len(nodes), n <= Len(nodes'),
         \A g \in 1..n : nodes'[g] = nodes[g],
         \A g \in 1..n : nodes[g].k = "lit" => lits'[nodes[g].a] = lits[nodes[g].a]
  PROVE  \A g \in 1..n : Tree'[g] = Tree[g] /\ Parts'[g] = Parts[g]
<1> DEFINE Same(g) == Tree'[g] = Tree[g] /\ Parts'[g] = Parts[g]
           T == {g \in 1..n : ~Same(g)}
<1> SUFFICES ASSUME T # {} PROVE FALSE
  OBVIOUS
<1>0. 1..n \subseteq DOMAIN nodes /\ 1..n \subseteq DOMAIN nodes' /\ Described /\ Described'
  <2>1. /\ Len(nodes) \in Nat /\ DOMAIN nodes = 1..Len(nodes)
        /\ Len(nodes') \in Nat /\ DOMAIN nodes' = 1..Len(nodes')
    BY DEF TypeOK
  <2> QED BY <2>1, Description, DescriptionNext
<1>1. PICK g \in T : \A m \in T : g <= m
  <2>1. T \in SUBSET Nat
    OBVIOUS
  <2> HIDE DEF T
  <2> QED BY <2>1, Least
<1>2. g \in 1..n /\ ~Same(g) /\ nodes'[g] = nodes[g]
  OBVIOUS
<1>3. \A m \in 1..(g - 1) : Same(m)
  BY <1>1, <1>2
<1> HIDE DEF T
<1>4. /\ g \in DOMAIN nodes /\ g \in DOMAIN nodes'
      /\ nodes[g].k \in {"const", "fvar", "lit", "app"}
  BY <1>0, <1>2 DEF Described
<1>5. CASE nodes[g].k = "app"
  <2>1. nodes[g].a \in 1..(g - 1) /\ nodes[g].b \in 1..(g - 1)
    BY <1>0, <1>4, <1>5 DEF Described
  <2>2. Same(nodes[g].a) /\ Same(nodes[g].b)
    BY <1>3, <2>1
  <2>3. Tree[g] = <<"app", Tree[nodes[g].a], Tree[nodes[g].b]>>
    BY <1>0, <1>4, <1>5 DEF Described
  <2>4. Tree'[g] = <<"app", Tree'[nodes[g].a], Tree'[nodes[g].b]>>
    BY <1>0, <1>2, <1>4, <1>5 DEF Described
  <2>5. Parts[g] = {g} \cup Parts[nodes[g].a] \cup Parts[nodes[g].b]
    BY <1>0, <1>4, <1>5 DEF Described
  <2>6. Parts'[g] = {g} \cup Parts'[nodes[g].a] \cup Parts'[nodes[g].b]
    BY <1>0, <1>2, <1>4, <1>5 DEF Described
  <2> QED BY <1>2, <2>2, <2>3, <2>4, <2>5, <2>6
<1>6. CASE nodes[g].k # "app"
  <2>1. Parts[g] = {g} /\ Parts'[g] = {g}
    BY <1>0, <1>2, <1>4, <1>6 DEF Described
  <2>2. CASE nodes[g].k = "lit"
    <3>1. Tree[g] = <<"lit", lits[nodes[g].a]>> /\ Tree'[g] = <<"lit", lits'[nodes[g].a]>>
      BY <1>0, <1>2, <1>4, <2>2 DEF Described
    <3> QED BY <1>2, <2>1, <2>2, <3>1
  <2>3. CASE nodes[g].k \in {"const", "fvar"}
    <3>1. Tree[g] = <<nodes[g].k, nodes[g].a>> /\ Tree'[g] = <<nodes[g].k, nodes[g].a>>
      BY <1>0, <1>2, <1>4, <2>3 DEF Described
    <3> QED BY <1>2, <2>1, <3>1
  <2> QED BY <1>4, <1>6, <2>2, <2>3
<1> QED BY <1>5, <1>6

\* The lookup finds an equal node if there is one: the part of it that is left out
\* would find none.
LEMMA InternFacts ==
  ASSUME TypeOK, Built, Distinct, Tiered, NEW nd, NEW h, intern(nd, h)
  PROVE  /\ h \in Nat
         /\ \/ /\ h \in DOMAIN nodes /\ nodes[h] = nd
               /\ UNCHANGED <<nodes, perm, temp>>
            \/ /\ h = Len(nodes) + 1 /\ nodes' = Append(nodes, nd)
               /\ \A g \in DOMAIN nodes : nodes[g] # nd
               /\ frozen => temp' = temp \cup {h} /\ UNCHANGED perm
               /\ ~frozen => perm' = perm \cup {h} /\ UNCHANGED temp
<1> DEFINE inPerm == IF frozen => maybe_perm(nd) THEN Found(nd, perm) ELSE {}
           hits == IF frozen /\ inPerm = {} THEN Found(nd, temp) ELSE inPerm
<1>0. /\ Len(nodes) \in Nat /\ DOMAIN nodes = 1..Len(nodes) /\ wm \in Nat
      /\ frozen \in BOOLEAN
      /\ perm \cup temp = DOMAIN nodes
      /\ ~frozen => perm = DOMAIN nodes
      /\ frozen => perm = 1..wm /\ perm \subseteq DOMAIN nodes
  <2>1. /\ Len(nodes) \in Nat /\ DOMAIN nodes = 1..Len(nodes) /\ wm \in Nat
        /\ frozen \in BOOLEAN
    BY DEF TypeOK
  <2>2. /\ wm <= Len(nodes) /\ perm = 1..Top /\ temp = (Top + 1)..Len(nodes)
    BY DEF Tiered
  <2>3. (frozen => Top = wm) /\ (~frozen => Top = Len(nodes))
    BY DEF Top
  <2> QED BY <2>1, <2>2, <2>3
<1>1. \A g \in hits : g \in DOMAIN nodes /\ nodes[g] = nd
  BY <1>0 DEF Found
<1>2. ASSUME hits = {}, NEW g \in DOMAIN nodes, nodes[g] = nd
      PROVE  FALSE
  <2>1. CASE ~frozen
    BY <1>0, <1>2, <2>1 DEF Found
  <2>2. CASE frozen
    <3>1. Found(nd, temp) = {} /\ inPerm = {}
      BY <1>2, <2>2
    <3>2. g \in perm /\ ~maybe_perm(nd)
      BY <1>0, <1>2, <2>2, <3>1 DEF Found
    <3>3. nodes[g].k # "fvar"
      BY <1>0, <2>2, <3>2 DEF Tiered, Top
    <3>4. nodes[g].k = "app" /\ ~(nodes[g].a <= wm /\ nodes[g].b <= wm)
      BY <1>2, <3>2, <3>3 DEF maybe_perm
    <3>5. g \in 1..wm /\ nodes[g].a \in 1..(g - 1) /\ nodes[g].b \in 1..(g - 1)
      BY <1>0, <1>2, <2>2, <3>2, <3>4, NodeKinds
    <3> QED BY <1>0, <3>4, <3>5
  <2> QED BY <1>0, <2>1, <2>2
<1>3. IF hits # {}
        THEN h \in hits /\ UNCHANGED <<nodes, perm, temp>>
        ELSE /\ h = Len(nodes) + 1 /\ h <= MaxNodes
             /\ nodes' = Append(nodes, nd)
             /\ IF frozen THEN temp' = temp \cup {h} /\ UNCHANGED perm
                          ELSE perm' = perm \cup {h} /\ UNCHANGED temp
  BY DEF intern
<1> HIDE DEF hits, inPerm
<1>4. CASE hits # {}
  <2>1. h \in hits /\ UNCHANGED <<nodes, perm, temp>>
    BY <1>3, <1>4
  <2>2. h \in DOMAIN nodes /\ nodes[h] = nd
    BY <1>1, <2>1, Zenon
  <2>3. h \in Nat
    BY <1>0, <2>2
  <2> QED BY <2>1, <2>2, <2>3
<1>5. CASE hits = {}
  BY <1>0, <1>2, <1>3, <1>5
<1> QED BY <1>4, <1>5

\* A node made of what is in the table is given a handle.
Adds(nd, h) ==
  /\ intern(nd, h)
  /\ UNCHANGED lits \/ \E v \in Lits : v \notin Range(lits) /\ lits' = Append(lits, v)
  /\ \/ IsLeaf(nd)
     \/ \E n \in DOMAIN lits' : nd = Lit(n)
     \/ \E f, x \in DOMAIN nodes : nd = App(f, x)

\* The table grows at its end.
Grows ==
  /\ Len(nodes) \in Nat /\ Len(nodes') \in Nat /\ Len(nodes) <= Len(nodes')
  /\ DOMAIN nodes = 1..Len(nodes) /\ DOMAIN nodes' = 1..Len(nodes')
  /\ \A g \in DOMAIN nodes : nodes'[g] = nodes[g]
  /\ Len(lits) \in Nat /\ Len(lits') \in Nat /\ Len(lits) <= Len(lits')
  /\ DOMAIN lits = 1..Len(lits) /\ DOMAIN lits' = 1..Len(lits')
  /\ \A n \in DOMAIN lits : lits'[n] = lits[n]

LEMMA AddsLits ==
  ASSUME TypeOK, Distinct,
         UNCHANGED lits \/ \E v \in Lits : v \notin Range(lits) /\ lits' = Append(lits, v)
  PROVE  /\ lits' \in Seq(Lits)
         /\ Len(lits) \in Nat /\ Len(lits') \in Nat /\ Len(lits) <= Len(lits')
         /\ DOMAIN lits = 1..Len(lits) /\ DOMAIN lits' = 1..Len(lits')
         /\ \A n \in DOMAIN lits : lits'[n] = lits[n]
         /\ \A m, n \in DOMAIN lits' : lits'[m] = lits'[n] => m = n
<1>0. lits \in Seq(Lits) /\ \A m, n \in DOMAIN lits : lits[m] = lits[n] => m = n
  BY DEF TypeOK, Distinct
<1>1. CASE UNCHANGED lits
  BY <1>0, <1>1
<1>2. CASE \E v \in Lits : v \notin Range(lits) /\ lits' = Append(lits, v)
  <2>1. PICK v \in Lits : v \notin Range(lits) /\ lits' = Append(lits, v)
    BY <1>2
  <2>2. \A n \in DOMAIN lits : lits[n] # v
    BY <2>1 DEF Range
  <2> QED BY <1>0, <2>1, <2>2
<1> QED BY <1>1, <1>2

LEMMA AddsBuilt ==
  ASSUME TypeOK, Built, Distinct, Tiered, NEW nd, NEW h, Adds(nd, h)
  PROVE  /\ Grows /\ Built' /\ Distinct' /\ nodes' \in Seq(Nodes) /\ lits' \in Seq(Lits)
         /\ h \in DOMAIN nodes' /\ nodes'[h] = nd
<1>1. /\ lits' \in Seq(Lits)
      /\ Len(lits) \in Nat /\ Len(lits') \in Nat /\ Len(lits) <= Len(lits')
      /\ DOMAIN lits = 1..Len(lits) /\ DOMAIN lits' = 1..Len(lits')
      /\ \A n \in DOMAIN lits : lits'[n] = lits[n]
      /\ \A m, n \in DOMAIN lits' : lits'[m] = lits'[n] => m = n
  BY AddsLits DEF Adds
<1>2. \/ h \in DOMAIN nodes /\ nodes[h] = nd /\ nodes' = nodes
      \/ /\ h = Len(nodes) + 1 /\ nodes' = Append(nodes, nd)
         /\ \A g \in DOMAIN nodes : nodes[g] # nd
  BY InternFacts DEF Adds
<1>3. nodes \in Seq(Nodes) /\ Len(nodes) \in Nat /\ DOMAIN nodes = 1..Len(nodes)
  BY DEF TypeOK
<1>4. nd \in Nodes
  <2>1. IsLeaf(nd) => nd \in Leaves
    BY DEF IsLeaf, Leaves
  <2>2. DOMAIN lits' \subseteq Nat /\ DOMAIN nodes \subseteq Nat
    BY <1>1, <1>3
  <2> QED BY <2>1, <2>2 DEF Adds, Nodes
<1>5. Grows /\ nodes' \in Seq(Nodes) /\ h \in DOMAIN nodes' /\ nodes'[h] = nd
  BY <1>1, <1>2, <1>3, <1>4 DEF Grows
<1>7. Built'
  <2> SUFFICES ASSUME NEW g \in DOMAIN nodes' PROVE IsNode(nodes[g], g - 1)'
    BY DEF Built
  <2>1. CASE g \in DOMAIN nodes
    <3>1. IsNode(nodes[g], g - 1) /\ nodes'[g] = nodes[g]
      BY <1>5, <2>1 DEF Built, Grows
    <3>2. DOMAIN lits \subseteq DOMAIN lits'
      BY <1>1
    <3>3. IsLeaf(nodes[g]) => IsLeaf(nodes[g])'
      BY <3>1 DEF IsLeaf, Const, FVar
    <3>4. IsLit(nodes[g]) => IsLit(nodes[g])'
      BY <3>1, <3>2 DEF IsLit, Lit
    <3>5. IsApp(nodes[g], g - 1) => IsApp(nodes[g], g - 1)'
      BY <3>1 DEF IsApp, App
    <3> QED BY <3>1, <3>3, <3>4, <3>5 DEF IsNode
  <2>2. CASE g \notin DOMAIN nodes
    <3>1. g = Len(nodes) + 1 /\ nodes'[g] = nd /\ g - 1 = Len(nodes)
      BY <1>2, <1>3, <1>5, <2>2
    <3>2. IsLeaf(nd) => IsLeaf(nodes[g])'
      BY <3>1 DEF IsLeaf, Const, FVar
    <3>3. (\E n \in DOMAIN lits' : nd = Lit(n)) => IsLit(nodes[g])'
      BY <3>1 DEF IsLit, Lit
    <3>4. (\E f, x \in DOMAIN nodes : nd = App(f, x)) => IsApp(nodes[g], g - 1)'
      BY <1>3, <3>1 DEF IsApp, App
    <3> QED BY <3>2, <3>3, <3>4 DEF Adds, IsNode
  <2> QED BY <2>1, <2>2
<1>8. Distinct'
  <2> SUFFICES ASSUME NEW f \in DOMAIN nodes', NEW g \in DOMAIN nodes', nodes'[f] = nodes'[g]
               PROVE  f = g
    BY <1>1 DEF Distinct
  <2>1. CASE nodes' = nodes
    BY <2>1 DEF Distinct
  <2>2. CASE /\ h = Len(nodes) + 1 /\ nodes' = Append(nodes, nd)
             /\ \A m \in DOMAIN nodes : nodes[m] # nd
    <3>1. \A m \in DOMAIN nodes' : \/ m \in DOMAIN nodes /\ nodes'[m] = nodes[m]
                                   \/ m = h /\ nodes'[m] = nd
      BY <1>3, <1>5, <2>2 DEF Grows
    <3> QED BY <2>2, <3>1 DEF Distinct
  <2> QED BY <1>2, <2>1, <2>2
<1> QED BY <1>1, <1>5, <1>7, <1>8

\* What is in the table stays as it is when the table grows.
LEMMA GrowSame ==
  ASSUME TypeOK, Built, TypeOK', Built', Grows, NEW g \in DOMAIN nodes
  PROVE  /\ g \in DOMAIN nodes' /\ Tree'[g] = Tree[g] /\ Parts'[g] = Parts[g]
         /\ has_fvar(g)' <=> has_fvar(g)
<1>1. g \in 1..Len(nodes) /\ g \in DOMAIN nodes' /\ 1..Len(nodes) = DOMAIN nodes
  BY DEF Grows
<1>2. \A m \in 1..Len(nodes) : nodes'[m] = nodes[m]
  BY DEF Grows
<1>3. \A m \in 1..Len(nodes) : nodes[m].k = "lit" => lits'[nodes[m].a] = lits[nodes[m].a]
  BY <1>1, NodeKinds DEF Grows
<1>4. Tree'[g] = Tree[g] /\ Parts'[g] = Parts[g]
  <2>1. Len(nodes) \in Nat /\ Len(nodes) <= Len(nodes')
    BY DEF Grows
  <2> QED BY <1>1, <1>2, <1>3, <2>1, BelowSame
<1>5. \A m \in Parts[g] : nodes'[m] = nodes[m]
  BY PartsFacts DEF Grows
<1>6. has_fvar(g)' <=> has_fvar(g)
  BY <1>4, <1>5 DEF has_fvar
<1> QED BY <1>1, <1>4, <1>6

LEMMA AddsTiered ==
  ASSUME TypeOK, Built, Distinct, Tiered, NEW nd, NEW h, Adds(nd, h),
         ~frozen /\ nodes' # nodes => nd.k # "fvar",
         UNCHANGED <<pc, frozen, wm, wmLit>>
  PROVE  Tiered'
<1>1. Grows
  BY AddsBuilt
<1>2. \/ h \in DOMAIN nodes /\ nodes[h] = nd /\ UNCHANGED <<nodes, perm, temp>>
      \/ /\ h = Len(nodes) + 1 /\ nodes' = Append(nodes, nd)
         /\ frozen => temp' = temp \cup {h} /\ UNCHANGED perm
         /\ ~frozen => perm' = perm \cup {h} /\ UNCHANGED temp
  BY InternFacts DEF Adds
<1>3. wm \in Nat /\ wmLit \in Nat /\ frozen \in BOOLEAN /\ nodes \in Seq(Nodes)
  BY DEF TypeOK
<1>4. \A g \in DOMAIN nodes : nodes'[g] = nodes[g]
  BY <1>1 DEF Grows
<1>5. ASSUME NEW g \in DOMAIN nodes', g \notin DOMAIN nodes
      PROVE  h = g /\ nodes'[g] = nd /\ nodes' # nodes /\ g = Len(nodes) + 1
  <2>1. nodes' # nodes /\ DOMAIN nodes = 1..Len(nodes) /\ DOMAIN nodes' = 1..Len(nodes')
        /\ Len(nodes) \in Nat
    BY <1>1, <1>5 DEF Grows
  <2>2. h = Len(nodes) + 1 /\ nodes' = Append(nodes, nd)
    BY <1>2, <2>1
  <2>3. Len(nodes') = Len(nodes) + 1 /\ nodes'[Len(nodes) + 1] = nd
    BY <1>3, <2>2
  <2>4. g = Len(nodes) + 1
    BY <1>5, <2>1, <2>3
  <2> QED BY <2>1, <2>2, <2>3, <2>4
<1>6. ASSUME NEW g \in DOMAIN nodes', g \notin DOMAIN nodes, nodes'[g].k = "lit"
      PROVE  nodes'[g].a \in DOMAIN lits'
  <2>1. nd.k = "lit" /\ nd = nodes'[g]
    BY <1>5, <1>6
  <2>2. \E n \in DOMAIN lits' : nd = Lit(n)
    BY <2>1 DEF Adds, IsLeaf, Const, FVar, App
  <2> QED BY <2>1, <2>2 DEF Lit
<1>7. CASE frozen
  <2>1. Top = wm /\ Top' = wm /\ TopLit = wmLit /\ TopLit' = wmLit
    BY <1>7 DEF Top, TopLit
  <2>2. perm' = 1..Top' /\ temp' = (Top + 1)..Len(nodes')
    <3>1. perm = 1..wm /\ temp = (wm + 1)..Len(nodes) /\ wm <= Len(nodes) /\ Len(nodes) \in Nat
      BY <1>3, <2>1 DEF Tiered
    <3>2. CASE UNCHANGED <<nodes, perm, temp>>
      BY <2>1, <3>1, <3>2
    <3>3. CASE /\ h = Len(nodes) + 1 /\ nodes' = Append(nodes, nd)
               /\ temp' = temp \cup {h} /\ UNCHANGED perm
      <4>1. Len(nodes') = Len(nodes) + 1
        BY <1>3, <3>3
      <4> QED BY <1>3, <2>1, <3>1, <3>3, <4>1
    <3> QED BY <1>2, <1>7, <3>2, <3>3
  <2>3. 1..wm \subseteq DOMAIN nodes
    BY <1>1, <1>3 DEF Tiered, Grows
  <2>4. wm <= Len(nodes') /\ wmLit <= Len(lits')
    BY <1>1, <1>3 DEF Tiered, Grows
  <2>5. \A g \in 1..wm : /\ nodes'[g].k # "fvar"
                         /\ nodes'[g].k = "lit" => nodes'[g].a \in 1..wmLit
    BY <1>4, <2>1, <2>3 DEF Tiered
  <2> QED BY <2>1, <2>2, <2>4, <2>5 DEF Tiered
<1>8. CASE ~frozen
  <2>1. /\ Top = Len(nodes) /\ Top' = Len(nodes') /\ TopLit = Len(lits) /\ TopLit' = Len(lits')
        /\ DOMAIN nodes' = 1..Top' /\ DOMAIN nodes = 1..Top
        /\ DOMAIN lits' = 1..TopLit' /\ DOMAIN lits = 1..TopLit
    BY <1>1, <1>8 DEF Top, TopLit, Grows
  <2>2. perm' = 1..Top' /\ temp' = (Top' + 1)..Len(nodes')
    <3>1. CASE nodes' = nodes /\ UNCHANGED <<perm, temp>>
      BY <2>1, <3>1 DEF Tiered
    <3>2. CASE /\ h = Len(nodes) + 1 /\ nodes' = Append(nodes, nd)
               /\ perm' = perm \cup {h} /\ UNCHANGED temp
      <4>1. Len(nodes') = Len(nodes) + 1 /\ Len(nodes) \in Nat
        BY <1>3, <3>2
      <4>2. temp = (Top + 1)..Len(nodes) /\ perm = 1..Top
        BY DEF Tiered
      <4> QED BY <2>1, <3>2, <4>1, <4>2
    <3> QED BY <1>2, <1>8, <3>1, <3>2
  <2>3. \A g \in DOMAIN nodes : /\ nodes'[g].k # "fvar"
                                /\ nodes'[g].k = "lit" => nodes'[g].a \in DOMAIN lits
    BY <1>4, <2>1 DEF Tiered
  <2>4. \A g \in DOMAIN nodes' : nodes'[g].k # "fvar"
    BY <1>5, <1>8, <2>3
  <2>5. \A g \in DOMAIN nodes' : nodes'[g].k = "lit" => nodes'[g].a \in DOMAIN lits'
    BY <1>1, <1>6, <2>3 DEF Grows
  <2>6. wm <= Len(nodes') /\ wmLit <= Len(lits') /\ 1..wm \subseteq DOMAIN nodes
    BY <1>1, <1>3 DEF Tiered, Grows
  <2>7. \A g \in 1..wm : nodes'[g].k = "lit" => nodes'[g].a \in 1..wmLit
    BY <1>4, <2>6 DEF Tiered
  <2> QED BY <2>1, <2>2, <2>4, <2>5, <2>6, <2>7 DEF Tiered
<1> QED BY <1>3, <1>7, <1>8

LEMMA AddsTypeOK ==
  ASSUME TypeOK, Built, Distinct, Tiered, NEW nd, NEW h, Adds(nd, h),
         UNCHANGED <<pc, tiers, at, exported, env, slots, saved>>, out' \in Seq(Nat)
  PROVE  TypeOK'
<1>1. nodes' \in Seq(Nodes) /\ lits' \in Seq(Lits)
  BY AddsBuilt
<1> QED BY <1>1 DEF TypeOK, tiers, slots

\* A node that is added disturbs neither the environment nor the rules.
LEMMA AddsKeeps ==
  ASSUME TypeOK, Built, Distinct, Tiered, Environment, Ruled, NEW nd, NEW h, Adds(nd, h),
         ~frozen /\ nodes' # nodes => nd.k # "fvar",
         UNCHANGED <<pc, tiers, at, exported, env, slots, saved>>, out' \in Seq(Nat)
  PROVE  /\ TypeOK' /\ Built' /\ Distinct' /\ Tiered' /\ Environment' /\ Ruled'
         /\ Grows /\ h \in DOMAIN nodes' /\ nodes'[h] = nd
<1>1. UNCHANGED <<pc, frozen, wm, wmLit, at, exported, env, state, rule, deriving, pending, saved>>
  BY DEF tiers, slots
<1>2. TypeOK' /\ Built' /\ Distinct' /\ Grows /\ h \in DOMAIN nodes' /\ nodes'[h] = nd
  BY AddsTypeOK, AddsBuilt
<1>3. Tiered'
  BY <1>1, AddsTiered
<1>4. Environment'
  <2>1. ASSUME pc # "load", NEW c \in Quots
        PROVE  Tree'[exported[c]] = Tree[exported[c]]
    <3>1. exported[c] \in 1..wm
      BY <2>1, TiersAssumption DEF Environment
    <3>2. exported[c] \in DOMAIN nodes
      BY <3>1 DEF Tiered, TypeOK
    <3> QED BY <1>2, <3>2, GrowSame
  <2> QED BY <1>1, <2>1 DEF Environment
<1>5. Ruled'
  <2>1. ASSUME NEW c \in pending, pc # "restore"
        PROVE  rule[c] \in DOMAIN nodes' /\ ~has_fvar(rule[c])'
    <3>1. rule[c] \in DOMAIN nodes /\ ~has_fvar(rule[c])
      BY <2>1 DEF Ruled
    <3>2. PICK g \in DOMAIN nodes : g = rule[c]
      BY <3>1
    <3>3. g \in DOMAIN nodes' /\ (has_fvar(g)' <=> has_fvar(g))
      BY <1>2, GrowSame
    <3> QED BY <1>1, <3>1, <3>2, <3>3 DEF has_fvar
  <2> QED BY <1>1, <2>1 DEF Ruled
<1> QED BY <1>2, <1>3, <1>4, <1>5

LEMMA AddsPromoted ==
  ASSUME TypeOK, Built, TypeOK', Built', Promoted, Grows, UNCHANGED <<pc, pending, saved, out>>
  PROVE  Promoted'
<1>1. SavedTree' = SavedTree
  BY DEF SavedTree
<1>2. \A n \in 1..Len(out) : out[n] \in DOMAIN nodes' /\ Tree'[out[n]] = SavedTree[n]
  BY GrowSame DEF Promoted
<1>3. \A n \in DOMAIN saved.nodes : IsSaved(saved.nodes[n], n - 1)'
  BY DEF Promoted, IsSaved, IsApp, Const, Lit, App
<1> QED BY <1>1, <1>2, <1>3 DEF Promoted

LEMMA InitIInv == Init => IInv
<1> SUFFICES ASSUME Init PROVE IInv
  OBVIOUS
<1> USE DEF Init
<1>0. NDecls \in Nat \ {0} /\ Consts \subseteq Nat \ {0} /\ 1 \in Consts
  BY TiersAssumption DEF Consts
<1>1. Len(nodes) = 0 /\ Len(lits) = 0 /\ Len(out) = 0 /\ Len(saved.nodes) = 0
      /\ DOMAIN nodes = {} /\ DOMAIN lits = {} /\ DOMAIN saved.nodes = {} /\ DOMAIN deriving = {}
  BY DEF NoSaved
<1>2. TypeOK
  <2>1. nodes \in Seq(Nodes) /\ lits \in Seq(Lits) /\ deriving \in Seq(Consts)
        /\ saved.nodes \in Seq(SavedNodes) /\ out \in Seq(Nat)
    BY DEF NoSaved
  <2>2. at \in 1..(NDecls + 1)
    BY <1>0
  <2>3. /\ exported \in [Consts -> Nat] /\ env \in [Consts -> Nat]
        /\ state \in [Consts -> 0..4] /\ rule \in [Consts -> Nat]
    OBVIOUS
  <2>4. pending \in SUBSET Consts
    OBVIOUS
  <2> QED BY <2>1, <2>2, <2>3, <2>4 DEF TypeOK
<1>3. Built /\ Distinct
  BY <1>1 DEF Built, Distinct
<1>4. Tiered
  BY <1>1 DEF Tiered, Top, TopLit
<1>5. Environment
  BY <1>0 DEF Environment
<1>6. Ruled
  BY <1>1 DEF Ruled
<1>7. Promoted
  BY <1>1 DEF Promoted
<1> QED BY <1>2, <1>3, <1>4, <1>5, <1>6, <1>7 DEF IInv

\* What the loader and the checker build is made of what is in the table.
LEMMA MkAdds ==
  ASSUME TypeOK, Tiered, NEW h, mk(h)
  PROVE  \E nd : Adds(nd, h)
<1>0. perm \cup temp \subseteq DOMAIN nodes
  <2>1. /\ Len(nodes) \in Nat /\ DOMAIN nodes = 1..Len(nodes) /\ wm \in Nat
        /\ wm <= Len(nodes) /\ perm = 1..Top /\ temp = (Top + 1)..Len(nodes)
    BY DEF TypeOK, Tiered
  <2>2. Top = wm \/ Top = Len(nodes)
    BY DEF Top
  <2>3. CASE Top = wm
    BY <2>1, <2>3
  <2>4. CASE Top = Len(nodes)
    BY <2>1, <2>4
  <2> QED BY <2>2, <2>3, <2>4
<1>1. CASE \E nd \in Leaves : intern(nd, h) /\ UNCHANGED lits
  <2>1. \A nd \in Leaves : IsLeaf(nd)
    BY DEF Leaves, IsLeaf
  <2> QED BY <1>1, <2>1 DEF Adds
<1>2. CASE \E f, x \in perm \cup temp : intern(App(f, x), h) /\ UNCHANGED lits
  BY <1>0, <1>2 DEF Adds
<1>3. CASE \E v \in Lits : intern_lit(v, h)
  <2>1. PICK v \in Lits, n \in 1..(Len(lits) + 1) :
          /\ IF v \in Range(lits) THEN n \in DOMAIN lits /\ lits[n] = v /\ UNCHANGED lits
                                  ELSE n = Len(lits) + 1 /\ lits' = Append(lits, v)
          /\ intern(Lit(n), h)
    BY <1>3 DEF intern_lit
  <2>2. n \in DOMAIN lits'
    BY <2>1 DEF TypeOK
  <2>3. UNCHANGED lits \/ (v \notin Range(lits) /\ lits' = Append(lits, v))
    BY <2>1
  <2> QED BY <2>1, <2>2, <2>3 DEF Adds
<1> QED BY <1>1, <1>2, <1>3 DEF mk

LEMMA LoadIInv == IInv /\ Load => IInv' /\ Grows
<1> SUFFICES ASSUME IInv, Load PROVE IInv' /\ Grows
  OBVIOUS
<1> USE DEF IInv
<1>1. PICK h \in 1..MaxNodes : mk(h) /\ nodes' # nodes /\ ~has_fvar(h)'
  BY DEF Load
<1>2. UNCHANGED <<pc, tiers, at, exported, env, slots, saved, out>>
  BY DEF Load, promotion
<1>3. PICK nd : Adds(nd, h)
  BY <1>1, MkAdds
<1>4. out' \in Seq(Nat) /\ UNCHANGED pending
  BY <1>2 DEF TypeOK, slots
<1>5. TypeOK' /\ Built' /\ h \in DOMAIN nodes' /\ nodes'[h] = nd
  BY <1>2, <1>3, <1>4, AddsTypeOK, AddsBuilt
<1>6. nd.k # "fvar"
  <2>1. nd.k = "fvar" => Parts'[h] = {h}
    BY <1>5, DescriptionNext DEF Described
  <2> QED BY <1>1, <1>5, <2>1 DEF has_fvar
<1>7. /\ TypeOK' /\ Built' /\ Distinct' /\ Tiered' /\ Environment' /\ Ruled' /\ Grows
  BY <1>2, <1>3, <1>4, <1>6, AddsKeeps
<1>8. Promoted'
  BY <1>2, <1>4, <1>7, AddsPromoted
<1> QED BY <1>7, <1>8

LEMMA BuildIInv == IInv /\ Build => IInv' /\ Grows
<1> SUFFICES ASSUME IInv, Build PROVE IInv' /\ Grows
  OBVIOUS
<1> USE DEF IInv
<1>1. PICK h \in 1..MaxNodes : mk(h)
  BY DEF Build
<1>2. UNCHANGED <<pc, tiers, at, exported, env, slots, saved, out>> /\ frozen
  BY DEF Build, promotion, Tiered
<1>3. PICK nd : Adds(nd, h)
  BY <1>1, MkAdds
<1>4. out' \in Seq(Nat) /\ UNCHANGED pending
  BY <1>2 DEF TypeOK, slots
<1>5. /\ TypeOK' /\ Built' /\ Distinct' /\ Tiered' /\ Environment' /\ Ruled' /\ Grows
  BY <1>2, <1>3, <1>4, AddsKeeps
<1>6. Promoted'
  BY <1>2, <1>4, <1>5, AddsPromoted
<1> QED BY <1>5, <1>6

-------------------------------------------------------------------------------
(* Steps that leave the table alone.                                         *)

LEMMA TableSame ==
  ASSUME UNCHANGED <<nodes, lits>>
  PROVE  /\ Tree' = Tree /\ Parts' = Parts
         /\ (Built => Built') /\ (Distinct => Distinct')
<1>1. Tree' = Tree
  BY DEF Tree
<1>2. Parts' = Parts
  BY DEF Parts
<1>3. Built => Built'
  BY DEF Built, IsNode, IsLeaf, IsLit, IsApp, Const, FVar, Lit, App
<1>4. Distinct => Distinct'
  BY DEF Distinct
<1> QED BY <1>1, <1>2, <1>3, <1>4

LEMMA PromotedSame ==
  ASSUME Promoted, UNCHANGED <<nodes, lits, saved, out>>, pc # "restore", pc' # "restore"
  PROVE  Promoted'
<1>1. Tree' = Tree /\ SavedTree' = SavedTree
  BY TableSame DEF SavedTree
<1>2. \A n \in DOMAIN saved.nodes : IsSaved(saved.nodes[n], n - 1)'
  BY DEF Promoted, IsSaved, IsApp, Const, Lit, App
<1> QED BY <1>1, <1>2 DEF Promoted

LEMMA LoadedIInv == IInv /\ Loaded => IInv'
<1> SUFFICES ASSUME IInv, Loaded PROVE IInv'
  OBVIOUS
<1> USE DEF IInv
<1>1. /\ pc = "load" /\ pc' = "check" /\ ~frozen /\ frozen'
      /\ wm' = Len(nodes) /\ wmLit' = Len(lits)
      /\ exported' \in [Consts -> DOMAIN nodes]
      /\ StandardQuot => \A c \in Quots : Meaning(exported'[c]) = BuiltIn
      /\ UNCHANGED <<nodes, lits, perm, temp, at, env, state, rule, deriving, pending, saved, out>>
      /\ Len(nodes) \in Nat /\ Len(lits) \in Nat /\ DOMAIN nodes = 1..Len(nodes)
  BY DEF Loaded, freeze, table, slots, promotion, Tiered, TypeOK
<1>2. Tree' = Tree /\ Parts' = Parts /\ Built' /\ Distinct'
  BY <1>1, TableSame
<1>3. TypeOK'
  <2>1. exported' \in [Consts -> Nat]
    BY <1>1
  <2> QED BY <1>1, <2>1 DEF TypeOK
<1>4. Tiered'
  BY <1>1 DEF Tiered, Top, TopLit
<1>5. Environment'
  <2>1. \A c \in Consts : exported'[c] \in 1..wm'
    BY <1>1
  <2>2. StandardQuot => \A c \in Quots : Tree[exported'[c]] = BuiltIn
    BY <1>1, TiersAssumption DEF Meaning
  <2>3. at = 1 /\ 1 \in Consts /\ \A c \in Consts : env[c] = 0
    BY <1>1, TiersAssumption DEF Environment, Consts
  <2>4. \A c \in Consts : ~(c < 1)
    BY DEF Consts
  <2> QED BY <1>1, <1>2, <2>1, <2>2, <2>3, <2>4 DEF Environment
<1>6. Ruled'
  <2>1. \A c \in Consts : state[c] = 0
    BY <1>1, TiersAssumption DEF Ruled, Environment, Consts
  <2> QED BY <1>1, <1>2, <2>1 DEF Ruled
<1>7. Promoted'
  BY <1>1, PromotedSame
<1> QED BY <1>2, <1>3, <1>4, <1>5, <1>6, <1>7

LEMMA SameTiered ==
  ASSUME Tiered, UNCHANGED <<nodes, lits, perm, temp, frozen, wm, wmLit>>,
         pc' \in {"check", "end", "over"} <=> pc \in {"check", "end", "over"}
  PROVE  Tiered'
BY DEF Tiered, Top, TopLit

\* The innermost derivation is of a definition no rule is known for.
LEMMA DeriveIInv == ASSUME NEW c \in Consts PROVE IInv /\ Derive(c) => IInv'
<1> SUFFICES ASSUME IInv, Derive(c) PROVE IInv'
  OBVIOUS
<1> USE DEF IInv
<1>1. /\ pc = "check" /\ c \in Consts /\ env[c] # 0 /\ state[c] = 0
      /\ state' = [state EXCEPT ![c] = 1] /\ deriving' = Append(deriving, c)
      /\ UNCHANGED <<pc, nodes, lits, perm, temp, frozen, wm, wmLit, at, exported, env, rule,
                     pending, saved, out>>
  BY TiersAssumption DEF Derive, table, tiers, promotion
<1>2. Tree' = Tree /\ Parts' = Parts /\ Built' /\ Distinct'
  BY <1>1, TableSame
<1>3. TypeOK'
  <2>1. state' \in [Consts -> 0..4] /\ deriving' \in Seq(Consts)
    BY <1>1 DEF TypeOK
  <2> QED BY <1>1, <2>1 DEF TypeOK
<1>4. Tiered'
  BY <1>1, SameTiered
<1>5. Environment'
  BY <1>1, <1>2 DEF Environment
<1>6. Ruled'
  <2>1. \A d \in Consts : state'[d] = IF d = c THEN 1 ELSE state[d]
    BY <1>1 DEF TypeOK
  <2>2. /\ DOMAIN deriving' = DOMAIN deriving \cup {Len(deriving) + 1}
        /\ \A j \in DOMAIN deriving : deriving'[j] = deriving[j]
        /\ deriving'[Len(deriving) + 1] = c
    <3>1. deriving \in Seq(Consts) /\ deriving' = Append(deriving, c)
      BY <1>1 DEF TypeOK
    <3>2. /\ Len(deriving) \in Nat /\ DOMAIN deriving = 1..Len(deriving)
          /\ DOMAIN deriving' = 1..(Len(deriving) + 1)
      BY <3>1
    <3> QED BY <3>1, <3>2
  <2>3. \A j \in DOMAIN deriving : deriving[j] # c
    BY <1>1 DEF Ruled
  <2>4. \A d \in Consts : state'[d] = 1 <=> \E j \in DOMAIN deriving' : deriving'[j] = d
    <3>1. \A d \in Consts : state[d] = 1 <=> \E j \in DOMAIN deriving : deriving[j] = d
      BY DEF Ruled
    <3> QED BY <2>1, <2>2, <3>1
  <2>5. \A j, n \in DOMAIN deriving' : deriving'[j] = deriving'[n] => j = n
    BY <2>2, <2>3 DEF Ruled
  <2>6. pending' = {d \in Consts : state'[d] = 2}
    BY <1>1, <2>1 DEF Ruled
  <2>7. \A d \in Consts : state'[d] # 0 => env[d] # 0
    BY <1>1, <2>1 DEF Ruled
  <2>8. \A d \in Consts : state'[d] = 3 => rule[d] \in 1..wm
    BY <2>1 DEF Ruled
  <2>9. \A d \in pending : rule[d] \in DOMAIN nodes /\ (~has_fvar(rule[d]))'
    BY <1>1, <1>2 DEF Ruled, has_fvar
  <2> QED BY <1>1, <2>4, <2>5, <2>6, <2>7, <2>8, <2>9 DEF Ruled
<1>7. Promoted'
  BY <1>1, PromotedSame
<1> QED BY <1>2, <1>3, <1>4, <1>5, <1>6, <1>7

\* Its rule is a term in the table, without free variables.
LEMMA DerivedIInv == IInv /\ Derived => IInv'
<1> SUFFICES ASSUME IInv, Derived PROVE IInv'
  OBVIOUS
<1> USE DEF IInv
<1> DEFINE top == Len(deriving)
           c == deriving[top]
<1>0. /\ top \in Nat \ {0} /\ DOMAIN deriving = 1..top /\ c \in Consts /\ state[c] = 1
      /\ c \notin pending
  <2>1. deriving # <<>> /\ deriving \in Seq(Consts)
    BY DEF Derived, TypeOK
  <2>2. top \in Nat \ {0} /\ DOMAIN deriving = 1..top /\ c \in Consts
    BY <2>1
  <2>3. state[c] = 1
    BY <2>2 DEF Ruled
  <2> QED BY <2>2, <2>3 DEF Ruled
<1>1. /\ pc = "check" /\ deriving' = SubSeq(deriving, 1, top - 1)
      /\ UNCHANGED <<pc, nodes, lits, perm, temp, frozen, wm, wmLit, at, exported, env, saved, out>>
  BY DEF Derived, table, tiers, promotion
<1>2. \/ /\ state' = [state EXCEPT ![c] = 2] /\ pending' = pending \cup {c}
         /\ \E g \in perm \cup temp : ~has_fvar(g) /\ rule' = [rule EXCEPT ![c] = g]
      \/ /\ state' = [state EXCEPT ![c] = 4] /\ UNCHANGED <<rule, pending>>
  BY DEF Derived
<1> HIDE DEF c
<1>3. Tree' = Tree /\ Parts' = Parts /\ Built' /\ Distinct'
  BY <1>1, TableSame
<1>4. perm \cup temp \subseteq DOMAIN nodes /\ DOMAIN nodes \subseteq Nat
  BY <1>1 DEF TypeOK, Tiered, Top
<1>5. /\ \A d \in Consts : d # c => state'[d] = state[d] /\ rule'[d] = rule[d]
      /\ state'[c] \in {2, 4}
      /\ state'[c] = 2 => rule'[c] \in DOMAIN nodes /\ ~has_fvar(rule'[c])
      /\ pending' = IF state'[c] = 2 THEN pending \cup {c} ELSE pending
      /\ state' \in [Consts -> 0..4] /\ rule' \in [Consts -> Nat]
  <2>1. state \in [Consts -> 0..4] /\ rule \in [Consts -> Nat]
    BY DEF TypeOK
  <2>2. CASE /\ state' = [state EXCEPT ![c] = 2] /\ pending' = pending \cup {c}
             /\ \E g \in perm \cup temp : ~has_fvar(g) /\ rule' = [rule EXCEPT ![c] = g]
    <3>1. PICK g \in perm \cup temp : ~has_fvar(g) /\ rule' = [rule EXCEPT ![c] = g]
      BY <2>2
    <3>2. rule'[c] = g /\ g \in DOMAIN nodes /\ g \in Nat
      BY <1>0, <1>4, <2>1, <3>1
    <3>3. rule' \in [Consts -> Nat] /\ \A d \in Consts : d # c => rule'[d] = rule[d]
      BY <2>1, <3>1, <3>2
    <3> QED BY <1>0, <2>1, <2>2, <3>1, <3>2, <3>3
  <2>3. CASE state' = [state EXCEPT ![c] = 4] /\ UNCHANGED <<rule, pending>>
    BY <1>0, <2>1, <2>3
  <2> QED BY <1>2, <2>2, <2>3
<1>6. /\ deriving' \in Seq(Consts) /\ DOMAIN deriving' = 1..(top - 1)
      /\ \A j \in 1..(top - 1) : deriving'[j] = deriving[j]
  BY <1>0, <1>1 DEF TypeOK
<1>7. TypeOK'
  <2>1. pending' \in SUBSET Consts
    BY <1>0, <1>5 DEF TypeOK
  <2> QED BY <1>1, <1>5, <1>6, <2>1 DEF TypeOK
<1>8. Tiered'
  BY <1>1, SameTiered
<1>9. Environment'
  BY <1>1, <1>3 DEF Environment
<1>10. Ruled'
  <2>1. pending' = {d \in Consts : state'[d] = 2}
    BY <1>0, <1>5 DEF Ruled
  <2>2. \A d \in Consts : state'[d] # 0 => env[d] # 0
    BY <1>0, <1>5 DEF Ruled
  <2>3. \A d \in Consts : state'[d] = 1 <=> \E j \in DOMAIN deriving' : deriving'[j] = d
    <3>1. \A j \in 1..(top - 1) : deriving[j] # c
      BY <1>0 DEF Ruled, c
    <3>2. \A d \in Consts : d # c =>
            ((\E j \in 1..top : deriving[j] = d) => \E j \in 1..(top - 1) : deriving[j] = d)
      BY <1>0 DEF c
    <3>3. \A d \in Consts : state[d] = 1 <=> \E j \in 1..top : deriving[j] = d
      BY <1>0 DEF Ruled
    <3>4. \A d \in Consts : (\E j \in DOMAIN deriving' : deriving'[j] = d)
                             <=> \E j \in 1..(top - 1) : deriving[j] = d
      BY <1>6
    <3>5. \A j \in 1..(top - 1) : j \in 1..top
      BY <1>0
    <3>6. ASSUME NEW d \in Consts, d # c
          PROVE  state'[d] = 1 <=> \E j \in 1..(top - 1) : deriving[j] = d
      BY <1>5, <3>2, <3>3, <3>5, <3>6
    <3>7. state'[c] # 1
      BY <1>5
    <3> QED BY <3>1, <3>4, <3>6, <3>7
  <2>4. \A j, n \in DOMAIN deriving' : deriving'[j] = deriving'[n] => j = n
    BY <1>0, <1>6 DEF Ruled
  <2>5. \A d \in Consts : state'[d] = 3 => rule'[d] \in 1..wm
    BY <1>5 DEF Ruled
  <2>6. \A d \in pending' : rule'[d] \in DOMAIN nodes /\ ~has_fvar(rule'[d])
    <3>1. \A d \in pending : d # c /\ d \in Consts /\ rule[d] \in DOMAIN nodes /\ ~has_fvar(rule[d])
      BY <1>0, <1>1 DEF Ruled, TypeOK
    <3>2. CASE state'[c] = 2
      BY <1>5, <3>1, <3>2
    <3>3. CASE state'[c] # 2
      BY <1>5, <3>1, <3>3
    <3> QED BY <3>2, <3>3
  <2>7. \A d \in pending' : (~has_fvar(rule[d]))'
    BY <1>1, <1>3, <2>6 DEF has_fvar
  <2> QED BY <1>1, <2>1, <2>2, <2>3, <2>4, <2>5, <2>6, <2>7 DEF Ruled
<1>11. Promoted'
  BY <1>1, PromotedSame
<1> QED BY <1>3, <1>7, <1>8, <1>9, <1>10, <1>11

LEMMA Tables ==
  ASSUME TypeOK, Tiered
  PROVE  /\ Len(nodes) \in Nat /\ DOMAIN nodes = 1..Len(nodes)
         /\ Len(lits) \in Nat /\ DOMAIN lits = 1..Len(lits)
         /\ perm \cup temp \subseteq DOMAIN nodes
         /\ 1..wm \subseteq DOMAIN nodes /\ 1..wmLit \subseteq DOMAIN lits
<1>1. /\ Len(nodes) \in Nat /\ DOMAIN nodes = 1..Len(nodes)
      /\ Len(lits) \in Nat /\ DOMAIN lits = 1..Len(lits)
      /\ wm \in Nat /\ wm <= Len(nodes) /\ wmLit \in Nat /\ wmLit <= Len(lits)
      /\ perm = 1..Top /\ temp = (Top + 1)..Len(nodes)
  BY DEF TypeOK, Tiered
<1>2. CASE Top = wm
  BY <1>1, <1>2
<1>3. CASE Top = Len(nodes)
  BY <1>1, <1>3
<1> QED BY <1>2, <1>3 DEF Top

\* The type of an accepted constant is permanent: a quotient constant's built-in type
\* is the term of the export's, hence the same handle.
LEMMA AcceptIInv == IInv /\ Accept => IInv'
<1> SUFFICES ASSUME IInv, Accept PROVE IInv'
  OBVIOUS
<1> USE DEF IInv
<1>1. PICK h \in perm \cup temp : /\ IF at \in Quots THEN Meaning(h) = BuiltIn ELSE h = exported[at]
                                  /\ env' = [env EXCEPT ![at] = h]
  BY DEF Accept
<1>2. /\ pc = "check" /\ pc' = "end" /\ deriving = <<>>
      /\ UNCHANGED <<nodes, lits, perm, temp, frozen, wm, wmLit, at, exported, state, rule,
                     deriving, pending, saved, out>>
      /\ at \in Consts
  BY DEF Accept, table, tiers, slots, promotion, Environment
<1>3. Tree' = Tree /\ Parts' = Parts /\ Built' /\ Distinct'
  BY <1>2, TableSame
<1>4. h \in DOMAIN nodes /\ h \in Nat /\ h # 0
  BY Tables
<1>5. StandardQuot => h \in 1..wm
  <2>1. exported[at] \in 1..wm /\ exported[at] \in DOMAIN nodes
    BY <1>2, Tables DEF Environment
  <2>2. CASE at \notin Quots
    BY <1>1, <2>1, <2>2
  <2>3. CASE at \in Quots /\ StandardQuot
    <3>1. Tree[h] = Tree[exported[at]]
      BY <1>1, <1>2, <1>4, <2>3 DEF Meaning, Environment
    <3> QED BY <1>4, <2>1, <3>1, TreeInjective
  <2> QED BY <2>2, <2>3
<1>6. /\ env' \in [Consts -> Nat] /\ env'[at] = h
      /\ \A c \in Consts : c # at => env'[c] = env[c]
  BY <1>1, <1>2, <1>4 DEF TypeOK
<1>7. TypeOK'
  BY <1>2, <1>6 DEF TypeOK
<1>8. Tiered'
  BY <1>2, SameTiered
<1>9. Environment'
  <2>1. \A c \in Consts : env'[c] # 0 <=> (c < at \/ c = at)
    <3>1. \A c \in Consts : c # at => (env[c] # 0 <=> c < at)
      BY <1>2 DEF Environment
    <3> QED BY <1>4, <1>6, <3>1
  <2>2. StandardQuot => \A c \in Consts : env'[c] <= wm
    <3>1. StandardQuot => h <= wm
      BY <1>5 DEF TypeOK
    <3> QED BY <1>6, <3>1 DEF Environment
  <2> QED BY <1>2, <1>3, <2>1, <2>2 DEF Environment
<1>10. Ruled'
  <2>1. \A c \in Consts : env[c] # 0 => env'[c] # 0
    BY <1>4, <1>6
  <2>2. \A c \in pending : rule[c] \in DOMAIN nodes /\ (~has_fvar(rule[c]))'
    BY <1>2, <1>3 DEF Ruled, has_fvar
  <2> QED BY <1>2, <2>1, <2>2 DEF Ruled
<1>11. Promoted'
  BY <1>2, PromotedSame
<1> QED BY <1>3, <1>7, <1>8, <1>9, <1>10, <1>11
-------------------------------------------------------------------------------
(* Reclaim.                                                                  *)

LEMMA ReclaimFacts ==
  ASSUME TypeOK, Built, Distinct, Tiered, frozen, reclaim
  PROVE  /\ nodes' \in Seq(Nodes) /\ Len(nodes') = wm /\ DOMAIN nodes' = 1..wm
         /\ lits' \in Seq(Lits) /\ Len(lits') = wmLit /\ DOMAIN lits' = 1..wmLit
         /\ \A g \in 1..wm : nodes'[g] = nodes[g] /\ g \in DOMAIN nodes
         /\ \A n \in 1..wmLit : lits'[n] = lits[n] /\ n \in DOMAIN lits
         /\ perm' = 1..wm /\ temp' = {}
         /\ Built' /\ Distinct'
<1>1. /\ nodes \in Seq(Nodes) /\ lits \in Seq(Lits) /\ wm \in Nat /\ wmLit \in Nat
      /\ wm <= Len(nodes) /\ wmLit <= Len(lits) /\ Top = wm /\ TopLit = wmLit
  BY DEF TypeOK, Tiered, Top, TopLit
<1>2. nodes' = SubSeq(nodes, 1, wm) /\ lits' = SubSeq(lits, 1, wmLit) /\ temp' = {} /\ perm' = perm
  BY DEF reclaim
<1>3. /\ nodes' \in Seq(Nodes) /\ Len(nodes') = wm /\ DOMAIN nodes' = 1..wm
      /\ \A g \in 1..wm : nodes'[g] = nodes[g] /\ g \in DOMAIN nodes
  BY <1>1, <1>2
<1>4. /\ lits' \in Seq(Lits) /\ Len(lits') = wmLit /\ DOMAIN lits' = 1..wmLit
      /\ \A n \in 1..wmLit : lits'[n] = lits[n] /\ n \in DOMAIN lits
  BY <1>1, <1>2
<1>5. perm' = 1..wm
  BY <1>1, <1>2 DEF Tiered
<1>6. Distinct'
  BY <1>3, <1>4 DEF Distinct
<1>7. Built'
  <2> SUFFICES ASSUME NEW g \in 1..wm PROVE IsNode(nodes[g], g - 1)'
    BY <1>3 DEF Built
  <2>1. IsNode(nodes[g], g - 1) /\ nodes'[g] = nodes[g] /\ g \in DOMAIN nodes
    BY <1>3 DEF Built
  <2>2. IsLeaf(nodes[g]) => IsLeaf(nodes[g])'
    BY <2>1 DEF IsLeaf, Const, FVar
  <2>3. IsLit(nodes[g]) => IsLit(nodes[g])'
    <3>1. nodes[g].k = "lit" => nodes[g].a \in 1..wmLit
      BY <1>1 DEF Tiered
    <3> QED BY <1>4, <2>1, <3>1 DEF IsLit, Lit
  <2>4. IsApp(nodes[g], g - 1) => IsApp(nodes[g], g - 1)'
    BY <2>1 DEF IsApp, App
  <2> QED BY <2>1, <2>2, <2>3, <2>4 DEF IsNode
<1> QED BY <1>2, <1>3, <1>4, <1>5, <1>6, <1>7

LEMMA ReclaimSame ==
  ASSUME TypeOK, Built, Distinct, Tiered, frozen, reclaim, TypeOK', NEW g \in 1..wm
  PROVE  Tree'[g] = Tree[g] /\ Parts'[g] = Parts[g]
<1>1. /\ wm \in Nat /\ wm <= Len(nodes) /\ Len(nodes') = wm
      /\ \A m \in 1..wm : nodes'[m] = nodes[m]
      /\ Built'
  BY ReclaimFacts DEF TypeOK, Tiered
<1>2. \A m \in 1..wm : nodes[m].k = "lit" => lits'[nodes[m].a] = lits[nodes[m].a]
  BY ReclaimFacts DEF Tiered
<1> QED BY <1>1, <1>2, BelowSame

\* What the tiers and the exported types are after a reclaim.
LEMMA ReclaimTiered ==
  ASSUME TypeOK, Built, Distinct, Tiered, frozen, reclaim, UNCHANGED <<wm, wmLit>>
  PROVE  /\ wm' <= Len(nodes') /\ wmLit' <= Len(lits')
         /\ perm' = 1..wm' /\ temp' = (wm' + 1)..Len(nodes') /\ perm' = 1..Len(nodes')
         /\ temp' = (Len(nodes') + 1)..Len(nodes')
         /\ \A g \in 1..wm' : nodes'[g].k # "fvar"
         /\ \A g \in 1..wm' : nodes'[g].k = "lit" => nodes'[g].a \in 1..wmLit'
         /\ Len(nodes') = wm /\ Len(lits') = wmLit
<1>1. wm \in Nat /\ wmLit \in Nat /\ Top = wm /\ TopLit = wmLit
  BY DEF TypeOK, Tiered, Top, TopLit
<1>2. /\ Len(nodes') = wm /\ Len(lits') = wmLit /\ perm' = 1..wm /\ temp' = {}
      /\ \A g \in 1..wm : nodes'[g] = nodes[g]
  BY ReclaimFacts
<1>3. \A g \in 1..wm : /\ nodes'[g].k # "fvar"
                       /\ nodes'[g].k = "lit" => nodes'[g].a \in 1..wmLit
  BY <1>1, <1>2 DEF Tiered
<1>4. (wm + 1)..wm = {}
  BY <1>1
<1> QED BY <1>1, <1>2, <1>3, <1>4

\* A rejected declaration: the trim takes no rule away, because there is none.
LEMMA RejectIInv == RulesSurvive /\ IInv /\ Reject => IInv'
<1> SUFFICES ASSUME RulesSurvive, IInv, Reject PROVE IInv'
  OBVIOUS
<1> USE DEF IInv
<1>1. /\ pc = "check" /\ deriving = <<>> /\ frozen /\ at \in Consts
      /\ UNCHANGED <<frozen, wm, wmLit, at, exported, state, rule, deriving, pending, saved, out>>
  BY DEF Reject, tiers, slots, promotion, Tiered, Environment
<1>2. CASE ~KeepGoing
  <2>1. pc' = "over" /\ UNCHANGED <<nodes, lits, perm, temp, env>>
    BY <1>2 DEF Reject, table
  <2>2. Tree' = Tree /\ Parts' = Parts /\ Built' /\ Distinct'
    BY <2>1, TableSame
  <2>3. TypeOK'
    BY <1>1, <2>1 DEF TypeOK
  <2>4. Tiered'
    BY <1>1, <2>1, SameTiered
  <2>5. Environment'
    BY <1>1, <2>1, <2>2 DEF Environment
  <2>6. Ruled'
    <3>1. \A c \in pending : rule[c] \in DOMAIN nodes /\ (~has_fvar(rule[c]))'
      BY <1>1, <2>1, <2>2 DEF Ruled, has_fvar
    <3> QED BY <1>1, <2>1, <3>1 DEF Ruled
  <2>7. Promoted'
    BY <1>1, <2>1, PromotedSame
  <2> QED BY <2>2, <2>3, <2>4, <2>5, <2>6, <2>7
<1>3. CASE KeepGoing
  <2>1. /\ pending = {} /\ reclaim /\ pc' = "end"
        /\ env' = [env EXCEPT ![at] = exported[at]]
    BY <1>3 DEF Reject, RulesSurvive
  <2>2. /\ nodes' \in Seq(Nodes) /\ lits' \in Seq(Lits) /\ Built' /\ Distinct'
    BY <1>1, <2>1, ReclaimFacts
  <2>3. exported[at] \in 1..wm /\ exported[at] \in Nat /\ wm \in Nat
    BY <1>1 DEF Environment, TypeOK
  <2>4. /\ env' \in [Consts -> Nat] /\ env'[at] = exported[at]
        /\ \A c \in Consts : c # at => env'[c] = env[c]
    BY <1>1, <2>1, <2>3 DEF TypeOK
  <2>5. TypeOK'
    BY <1>1, <2>1, <2>2, <2>4 DEF TypeOK
  <2>6. Tiered'
    <3>1. Top' = wm' /\ TopLit' = wmLit'
      BY <1>1 DEF Top, TopLit
    <3> QED BY <1>1, <2>1, <3>1, ReclaimTiered DEF Tiered
  <2>7. Environment'
    <3>1. \A c \in Consts : env'[c] # 0 <=> (c < at \/ c = at)
      <4>1. \A c \in Consts : c # at => (env[c] # 0 <=> c < at)
        BY <1>1 DEF Environment
      <4> QED BY <2>3, <2>4, <4>1
    <3>2. StandardQuot => \A c \in Consts : env'[c] <= wm
      <4>1. exported[at] <= wm
        BY <2>3
      <4> QED BY <2>4, <4>1 DEF Environment
    <3>3. \A c \in Quots : Tree'[exported[c]] = Tree[exported[c]]
      <4>1. \A c \in Quots : exported[c] \in 1..wm
        BY <1>1, TiersAssumption DEF Environment
      <4> QED BY <1>1, <2>1, <2>5, <4>1, ReclaimSame
    <3> QED BY <1>1, <2>1, <3>1, <3>2, <3>3 DEF Environment
  <2>8. Ruled'
    <3>1. \A c \in Consts : env[c] # 0 => env'[c] # 0
      BY <2>3, <2>4
    <3> QED BY <1>1, <2>1, <3>1 DEF Ruled
  <2>9. Promoted'
    <3>1. saved = NoSaved /\ out = <<>> /\ Len(out) = 0
      BY <1>1 DEF Promoted
    <3>2. DOMAIN saved.nodes = {} /\ Len(saved.nodes) = 0
      BY <3>1 DEF NoSaved
    <3> QED BY <1>1, <2>1, <3>1, <3>2 DEF Promoted
  <2> QED BY <2>2, <2>5, <2>6, <2>7, <2>8, <2>9
<1> QED BY <1>2, <1>3

-------------------------------------------------------------------------------
(* Saving the rules.                                                         *)

\* The places of the members of a finite set of numbers, in order.
LEMMA Places ==
  ASSUME NEW S \in SUBSET Nat, NEW n \in Nat, \A m \in S : m <= n
  PROVE  LET place(m) == Cardinality({g \in S : g <= m})
         IN /\ Cardinality(S) \in Nat
            /\ \A m \in S : place(m) \in 1..Cardinality(S)
            /\ \A g, m \in S : g < m => place(g) < place(m)
            /\ \A j \in 1..Cardinality(S) : \E m \in S : place(m) = j
<1> DEFINE upTo(m) == {g \in S : g <= m}
           place(m) == Cardinality({g \in S : g <= m})
           N == Cardinality(S)
<1>1. IsFiniteSet(S) /\ N \in Nat
  <2>1. IsFiniteSet(S)
    BY FS_BoundedSetOfNaturals
  <2> QED BY <2>1, FS_CardinalityType
<1>2. ASSUME NEW m \in S
      PROVE  IsFiniteSet(upTo(m)) /\ place(m) \in 1..N
  <2>1. upTo(m) \in SUBSET S /\ m \in upTo(m)
    OBVIOUS
  <2> HIDE DEF upTo
  <2>2. IsFiniteSet(upTo(m)) /\ Cardinality(upTo(m)) <= N
    BY <1>1, <2>1, FS_Subset
  <2>3. Cardinality(upTo(m)) \in Nat /\ Cardinality(upTo(m)) # 0
    BY <2>1, <2>2, FS_CardinalityType, FS_EmptySet
  <2>4. Cardinality(upTo(m)) \in 1..N
    BY <1>1, <2>2, <2>3
  <2> QED BY <2>2, <2>4 DEF upTo
<1>3. ASSUME NEW g \in S, NEW m \in S, g < m
      PROVE  place(g) < place(m)
  <2>1. upTo(g) \in SUBSET upTo(m) /\ m \in upTo(m) /\ m \notin upTo(g)
    <3>1. g \in Nat /\ m \in Nat
      OBVIOUS
    <3>2. \A x \in upTo(g) : x \in upTo(m)
      BY <1>3, <3>1
    <3>3. m \in upTo(m) /\ m \notin upTo(g)
      BY <1>3, <3>1
    <3> HIDE DEF upTo
    <3> QED BY <3>2, <3>3
  <2>2. IsFiniteSet(upTo(m))
    BY <1>2
  <2> HIDE DEF upTo
  <2>3. /\ Cardinality(upTo(g)) <= Cardinality(upTo(m))
        /\ Cardinality(upTo(m)) = Cardinality(upTo(g)) => upTo(m) = upTo(g)
    BY <2>1, <2>2, FS_Subset
  <2>4. Cardinality(upTo(g)) # Cardinality(upTo(m))
    BY <2>1, <2>3
  <2>5. Cardinality(upTo(g)) \in Nat /\ Cardinality(upTo(m)) \in Nat
    BY <1>2, <1>1 DEF upTo
  <2>6. Cardinality(upTo(g)) < Cardinality(upTo(m))
    BY <2>3, <2>4, <2>5
  <2> QED BY <2>6 DEF upTo
<1> HIDE DEF place
<1>4. ASSUME NEW j \in 1..N
      PROVE  \E m \in S : place(m) = j
  <2> DEFINE f == [m \in S |-> place(m)]
  <2>1. f \in [S -> 1..N]
    BY <1>2
  <2>2. \A g, m \in S : f[g] = f[m] => g = m
    <3>1. \A g, m \in S : g < m \/ m < g \/ g = m
      OBVIOUS
    <3>2. \A m \in S : place(m) \in Nat
      <4>1. \A m \in S : place(m) \in 1..N
        BY <1>2
      <4> QED BY <1>1, <4>1
    <3> QED BY <1>3, <3>1, <3>2
  <2> HIDE DEF f
  <2>3. f \in Injection(S, 1..N)
    BY <2>1, <2>2 DEF Injection, IsInjective
  <2>4. IsFiniteSet(1..N) /\ Cardinality(1..N) = N
    BY <1>1, FS_Interval
  <2>5. f \in Surjection(S, 1..N)
    BY <2>3, <2>4, FS_Injection
  <2>6. \E m \in S : f[m] = j
    BY <2>5 DEF Surjection
  <2> QED BY <2>6 DEF f
<1> QED BY <1>1, <1>2, <1>3, <1>4 DEF place

\* What is saved is closed under children, which come before their parents.
LEMMA NeededFacts ==
  ASSUME TypeOK, Built, Ruled, pc # "restore"
  PROVE  /\ Needed \in SUBSET DOMAIN nodes /\ Needed \in SUBSET Nat
         /\ \A g \in Needed : nodes[g].k # "fvar"
         /\ \A g \in Needed : nodes[g].k = "app" => nodes[g].a \in Needed /\ nodes[g].b \in Needed
         /\ \A c \in pending : rule[c] \in Needed
         /\ Cardinality(Needed) \in Nat
         /\ \A g \in Needed : Rank(g) \in 1..Cardinality(Needed)
         /\ \A g, m \in Needed : g < m => Rank(g) < Rank(m)
         /\ \A n \in 1..Cardinality(Needed) : \E g \in Needed : Rank(g) = n
<1>0. Len(nodes) \in Nat /\ DOMAIN nodes = 1..Len(nodes)
  BY DEF TypeOK
<1>1. \A c \in pending : /\ rule[c] \in DOMAIN nodes
                         /\ \A g \in Parts[rule[c]] : nodes[g].k # "fvar"
  BY DEF Ruled, has_fvar
<1>2. \A g : g \in Needed <=> \E c \in pending : g \in Parts[rule[c]]
  BY <1>1 DEF Needed, Roots
<1>3. Needed \in SUBSET DOMAIN nodes
  BY <1>1, <1>2, PartsFacts
<1>4. \A g \in Needed : nodes[g].k # "fvar"
  BY <1>1, <1>2
<1>5. \A g \in Needed : nodes[g].k = "app" => nodes[g].a \in Needed /\ nodes[g].b \in Needed
  BY <1>1, <1>2, PartsFacts DEF ClosedParts
<1>6. \A c \in pending : rule[c] \in Needed
  BY <1>1, <1>2, PartsFacts DEF ClosedParts
<1>7. Needed \in SUBSET Nat /\ \A g \in Needed : g <= Len(nodes)
  BY <1>0, <1>3
<1> HIDE DEF Needed
<1>8. /\ Cardinality(Needed) \in Nat
      /\ \A g \in Needed : Rank(g) \in 1..Cardinality(Needed)
      /\ \A g, m \in Needed : g < m => Rank(g) < Rank(m)
      /\ \A n \in 1..Cardinality(Needed) : \E g \in Needed : Rank(g) = n
  BY <1>0, <1>7, Places DEF Rank
<1> QED BY <1>3, <1>4, <1>5, <1>6, <1>7, <1>8

LEMMA SaveFacts ==
  ASSUME TypeOK, Built, NEW g \in DOMAIN nodes, NEW junk
  PROVE  /\ nodes[g].k = "app" => Save(g, junk) = App(Rank(nodes[g].a), Rank(nodes[g].b))
         /\ nodes[g].k = "lit" => Save(g, junk) = Lit(lits[nodes[g].a])
         /\ nodes[g].k \in {"const", "fvar"} => Save(g, junk) = nodes[g]
<1>1. CASE nodes[g].k = "app"
  <2>1. Save(g, junk) = App(Rank(nodes[g].a), Rank(nodes[g].b))
    BY <1>1, Zenon DEF Save
  <2> QED BY <1>1, <2>1
<1>2. CASE nodes[g].k = "lit"
  <2>1. nodes[g].k # "app"
    BY <1>2
  <2>2. Save(g, junk) = Lit(lits[nodes[g].a])
    BY <1>2, <2>1, Zenon DEF Save
  <2> QED BY <1>2, <2>1, <2>2
<1>3. CASE nodes[g].k \in {"const", "fvar"}
  <2>1. nodes[g].k # "app" /\ nodes[g].k # "lit"
    BY <1>3
  <2>2. Save(g, junk) = nodes[g]
    BY <2>1, Zenon DEF Save
  <2> QED BY <2>1, <2>2
<1> QED BY <1>1, <1>2, <1>3, NodeKinds

LEMMA SavedFacts ==
  ASSUME TypeOK, Built, Ruled, pc # "restore", fix_before_reclaim
  PROVE  /\ saved'.nodes \in Seq(SavedNodes) /\ Len(saved'.nodes) = Cardinality(Needed)
         /\ DOMAIN saved'.nodes = 1..Cardinality(Needed)
         /\ \E junk : \A g \in Needed : saved'.nodes[Rank(g)] = Save(g, junk)
         /\ \A n \in DOMAIN saved'.nodes : IsSaved(saved'.nodes[n], n - 1)
         /\ \A c \in pending : saved'.roots[c] = Rank(rule[c])
<1> DEFINE N == Cardinality(Needed)
           At(n) == CHOOSE g \in Needed : Rank(g) = n
<1>0. PICK junk \in Leaves :
        saved' = [nodes |-> [n \in 1..N |-> Save(At(n), junk)],
                  roots |-> [c \in pending |-> Rank(rule[c])]]
  BY DEF fix_before_reclaim
<1>1. saved'.nodes = [n \in 1..N |-> Save(At(n), junk)]
  BY <1>0
<1>2. \A c \in pending : saved'.roots[c] = Rank(rule[c])
  BY <1>0
<1>3. \A n \in 1..N : At(n) \in Needed /\ Rank(At(n)) = n
  BY NeededFacts
<1> HIDE DEF At
<1>4. ASSUME NEW g \in Needed
      PROVE  At(Rank(g)) = g /\ Rank(g) \in 1..N
  <2>1. Rank(g) \in 1..N
    BY NeededFacts
  <2>2. At(Rank(g)) \in Needed /\ Rank(At(Rank(g))) = Rank(g)
    BY <1>3, <2>1
  <2>3. ~(g < At(Rank(g))) /\ ~(At(Rank(g)) < g)
    BY <2>1, <2>2, NeededFacts
  <2>4. g \in Nat /\ At(Rank(g)) \in Nat
    BY <2>2, NeededFacts
  <2> QED BY <2>1, <2>3, <2>4
<1>5. \A g \in Needed : saved'.nodes[Rank(g)] = Save(g, junk)
  BY <1>1, <1>4
<1>6. ASSUME NEW n \in 1..N
      PROVE  IsSaved(Save(At(n), junk), n - 1) /\ Save(At(n), junk) \in SavedNodes
  <2> DEFINE g == At(n)
  <2>1. g \in Needed /\ Rank(g) = n /\ g \in DOMAIN nodes /\ nodes[g].k # "fvar"
    BY <1>3, NeededFacts
  <2> HIDE DEF g
  <2>2. CASE nodes[g].k = "app"
    <3>1. /\ nodes[g].a \in Needed /\ nodes[g].b \in Needed
          /\ nodes[g].a \in 1..(g - 1) /\ nodes[g].b \in 1..(g - 1) /\ g \in Nat
      BY <2>1, <2>2, NeededFacts, NodeKinds
    <3>2. Rank(nodes[g].a) < n /\ Rank(nodes[g].b) < n
      BY <2>1, <3>1, NeededFacts
    <3>3. Rank(nodes[g].a) \in 1..N /\ Rank(nodes[g].b) \in 1..N /\ N \in Nat
      BY <3>1, NeededFacts
    <3>4. Rank(nodes[g].a) \in 1..(n - 1) /\ Rank(nodes[g].b) \in 1..(n - 1)
      BY <3>2, <3>3
    <3>5. Save(g, junk) = App(Rank(nodes[g].a), Rank(nodes[g].b))
      BY <2>1, <2>2, SaveFacts
    <3>6. IsSaved(Save(g, junk), n - 1)
      BY <3>4, <3>5 DEF IsSaved, IsApp
    <3>7. Save(g, junk) \in SavedNodes
      BY <3>3, <3>5 DEF SavedNodes
    <3> QED BY <3>6, <3>7 DEF g
  <2>3. CASE nodes[g].k = "lit"
    <3>1. nodes[g].a \in DOMAIN lits /\ Save(g, junk) = Lit(lits[nodes[g].a])
      BY <2>1, <2>3, SaveFacts, NodeKinds
    <3>2. lits[nodes[g].a] \in Lits
      BY <3>1 DEF TypeOK
    <3> QED BY <3>1, <3>2 DEF g, IsSaved, SavedNodes
  <2>4. CASE nodes[g].k = "const"
    <3>1. Save(g, junk) = nodes[g]
      BY <2>1, <2>4, SaveFacts
    <3>2. \E a \in Atoms : nodes[g] = Const(a)
      BY <2>1, <2>4 DEF Built, IsNode, IsLeaf, IsLit, IsApp, Const, FVar, Lit, App
    <3> QED BY <3>1, <3>2 DEF g, IsSaved, SavedNodes, Leaves
  <2> QED BY <2>1, <2>2, <2>3, <2>4, NodeKinds
<1>7. saved'.nodes \in Seq(SavedNodes) /\ Len(saved'.nodes) = N /\ DOMAIN saved'.nodes = 1..N
  <2>1. N \in Nat
    BY NeededFacts
  <2> QED BY <1>1, <1>6, <2>1
<1>8. \A n \in DOMAIN saved'.nodes : IsSaved(saved'.nodes[n], n - 1)
  BY <1>1, <1>6, <1>7
<1> QED BY <1>2, <1>5, <1>7, <1>8

-------------------------------------------------------------------------------
(* The end of a declaration.                                                 *)

\* The environment before and after the next declaration is taken.
LEMMA NextDeclFacts ==
  ASSUME TypeOK, Environment, pc \in {"end", "restore"}, NextDecl, UNCHANGED env
  PROVE  /\ pc' \in {"check", "over"} /\ at' \in 1..(NDecls + 1)
         /\ pc' = "check" => at' \in Consts
         /\ \A c \in Consts : env'[c] # 0 <=> c < at'
<1>1. /\ at \in Consts /\ at' = at + 1 /\ pc' = (IF at < NDecls THEN "check" ELSE "over")
      /\ NDecls \in Nat \ {0} /\ Consts = 1..NDecls
  BY TiersAssumption DEF Environment, NextDecl, Consts
<1>2. at' \in 1..(NDecls + 1) /\ (at < NDecls => at' \in Consts)
  BY <1>1
<1>3. \A c \in Consts : c < at' <=> (c < at \/ c = at)
  BY <1>1
<1>4. \A c \in Consts : env[c] # 0 <=> (c < at \/ c = at)
  BY DEF Environment
<1> QED BY <1>1, <1>2, <1>3, <1>4

\* The declaration is done with: nothing that stays needs the temporary tier.
LEMMA EndDeclIInv == IInv /\ EndDecl => IInv'
<1> SUFFICES ASSUME IInv, EndDecl PROVE IInv'
  OBVIOUS
<1> USE DEF IInv
<1>1. /\ pc = "end" /\ frozen /\ reclaim
      /\ UNCHANGED <<exported, env, state, rule, deriving, pending, out>>
      /\ out = <<>> /\ saved = NoSaved /\ at \in Consts
  BY DEF EndDecl, slots, Tiered, Promoted, Environment
<1>2. /\ nodes' \in Seq(Nodes) /\ lits' \in Seq(Lits) /\ Built' /\ Distinct'
  BY <1>1, ReclaimFacts
<1>3. TypeOK' => \A c \in Quots : pc' # "load" => Tree'[exported[c]] = Tree[exported[c]]
  <2>1. \A c \in Quots : exported[c] \in 1..wm
    BY <1>1, TiersAssumption DEF Environment
  <2> QED BY <1>1, <2>1, ReclaimSame
<1>4. CASE pending = {}
  <2>1. NextDecl /\ UNCHANGED <<frozen, wm, wmLit, saved>>
    BY <1>4 DEF EndDecl, tiers
  <2>2. /\ pc' \in {"check", "over"} /\ at' \in 1..(NDecls + 1)
        /\ pc' = "check" => at' \in Consts
        /\ \A c \in Consts : env'[c] # 0 <=> c < at'
    BY <1>1, <2>1, NextDeclFacts
  <2>3. TypeOK'
    BY <1>1, <1>2, <2>1, <2>2 DEF TypeOK
  <2>4. Tiered'
    <3>1. Top' = wm' /\ TopLit' = wmLit'
      BY <1>1, <2>1 DEF Top, TopLit
    <3> QED BY <1>1, <2>1, <2>2, <3>1, ReclaimTiered DEF Tiered
  <2>5. Environment'
    <3>1. \A c \in Consts : exported[c] \in 1..wm
      BY <1>1 DEF Environment
    <3>2. StandardQuot => \A c \in Quots : Tree'[exported[c]] = BuiltIn
      BY <1>1, <1>3, <2>2, <2>3 DEF Environment
    <3>3. StandardQuot => \A c \in Consts : env[c] <= wm
      BY DEF Environment
    <3> QED BY <1>1, <2>1, <2>2, <3>1, <3>2, <3>3 DEF Environment
  <2>6. Ruled'
    BY <1>1, <1>4, <2>1 DEF Ruled
  <2>7. Promoted'
    <3>1. Len(out) = 0 /\ DOMAIN saved.nodes = {} /\ Len(saved.nodes) = 0
      BY <1>1 DEF NoSaved
    <3> QED BY <1>1, <2>1, <2>2, <3>1 DEF Promoted
  <2> QED BY <1>2, <2>3, <2>4, <2>5, <2>6, <2>7
<1>5. CASE pending # {}
  <2>1. /\ fix_before_reclaim /\ ~frozen' /\ frozen' \in BOOLEAN /\ pc' = "restore"
        /\ UNCHANGED <<at, wm, wmLit>>
    BY <1>5 DEF EndDecl
  <2>2. /\ saved'.nodes \in Seq(SavedNodes) /\ DOMAIN saved'.nodes = 1..Cardinality(Needed)
        /\ Len(saved'.nodes) = Cardinality(Needed)
        /\ \A n \in DOMAIN saved'.nodes : IsSaved(saved'.nodes[n], n - 1)
        /\ \A c \in pending : saved'.roots[c] = Rank(rule[c])
    BY <1>1, <2>1, SavedFacts
  <2>3. /\ Cardinality(Needed) \in Nat
        /\ \A c \in pending : Rank(rule[c]) \in 1..Cardinality(Needed)
    BY <1>1, NeededFacts
  <2>4. TypeOK'
    BY <1>1, <1>2, <2>1, <2>2 DEF TypeOK
  <2>5. Tiered'
    <3>1. Top' = Len(nodes') /\ TopLit' = Len(lits')
      BY <2>1 DEF Top, TopLit
    <3>2. Len(nodes') = wm' /\ Len(lits') = wmLit'
      BY <1>1, <2>1, ReclaimTiered
    <3> QED BY <1>1, <2>1, <3>1, <3>2, ReclaimTiered DEF Tiered
  <2>6. Environment'
    <3>1. StandardQuot => \A c \in Quots : Tree'[exported[c]] = BuiltIn
      BY <1>1, <1>3, <2>1, <2>4 DEF Environment
    <3> QED BY <1>1, <2>1, <3>1 DEF Environment
  <2>7. Ruled'
    BY <1>1, <2>1 DEF Ruled
  <2>8. Promoted'
    <3>1. \A n \in DOMAIN saved'.nodes : IsSaved(saved.nodes[n], n - 1)'
      BY <2>2 DEF IsSaved, IsApp, Const, Lit, App
    <3>2. Len(out') = 0
      BY <1>1
    <3> QED BY <1>1, <2>1, <2>2, <2>3, <3>1, <3>2 DEF Promoted
  <2> QED BY <1>2, <2>4, <2>5, <2>6, <2>7, <2>8
<1> QED BY <1>4, <1>5

-------------------------------------------------------------------------------
(* Rebuilding the rules.                                                     *)

SavedWell ==
  /\ saved.nodes \in Seq(SavedNodes)
  /\ \A n \in DOMAIN saved.nodes : IsSaved(saved.nodes[n], n - 1)

LEMMA SavedKinds ==
  ASSUME SavedWell, NEW n \in DOMAIN saved.nodes
  PROVE  LET nd == saved.nodes[n]
         IN /\ n \in Nat \ {0} /\ n \in 1..Len(saved.nodes)
            /\ nd.k \in {"const", "lit", "app"}
            /\ nd.k = "const" => \E m \in Atoms : nd = Const(m)
            /\ nd.k = "lit" => nd = Lit(nd.a) /\ nd.a \in Lits
            /\ nd.k = "app" => nd = App(nd.a, nd.b) /\ nd.a \in 1..(n - 1) /\ nd.b \in 1..(n - 1)
<1>1. n \in Nat \ {0} /\ n \in 1..Len(saved.nodes)
  BY DEF SavedWell
<1>2. CASE \E m \in Atoms : saved.nodes[n] = Const(m)
  BY <1>1, <1>2 DEF Const
<1>3. CASE \E v \in Lits : saved.nodes[n] = Lit(v)
  BY <1>1, <1>3 DEF Lit
<1>4. CASE IsApp(saved.nodes[n], n - 1)
  BY <1>1, <1>4 DEF IsApp, App
<1> QED BY <1>2, <1>3, <1>4 DEF SavedWell, IsSaved

SavedTermOf(f, n) ==
  LET nd == saved.nodes[n]
  IN IF nd.k = "app" THEN <<"app", f[nd.a], f[nd.b]>> ELSE <<nd.k, nd.a>>

\* The definition of SavedTree is a recursion that ends.
LEMMA SavedTreeDef ==
  ASSUME SavedWell, NEW n \in DOMAIN saved.nodes
  PROVE  SavedTree[n] = SavedTermOf(SavedTree, n)
<1> DEFINE D(f, j) == f = [m \in 1..j |-> SavedTermOf(f, m)]
           T == {j \in Nat : j <= Len(saved.nodes) => \E f : D(f, j)}
<1>0. Len(saved.nodes) \in Nat /\ DOMAIN saved.nodes = 1..Len(saved.nodes)
  BY DEF SavedWell
<1>1. 0 \in T
  <2>1. [m \in 1..0 |-> 0] = [m \in 1..0 |-> SavedTermOf([m1 \in 1..0 |-> 0], m)]
    OBVIOUS
  <2> QED BY <2>1
<1>2. ASSUME NEW j \in T
      PROVE  j + 1 \in T
  <2> SUFFICES ASSUME j + 1 <= Len(saved.nodes) PROVE \E f : D(f, j + 1)
    OBVIOUS
  <2>1. PICK f : f = [m \in 1..j |-> SavedTermOf(f, m)]
    BY <1>0
  <2> DEFINE g == [m \in 1..(j + 1) |-> SavedTermOf(f, m)]
  <2>2. ASSUME NEW m \in 1..j
        PROVE  f[m] = g[m]
    <3>1. m \in 1..(j + 1)
      OBVIOUS
    <3>2. [mm \in 1..j |-> SavedTermOf(f, mm)][m] = SavedTermOf(f, m)
      OBVIOUS
    <3>3. g[m] = SavedTermOf(f, m)
      BY <3>1
    <3> HIDE DEF g
    <3> QED BY <2>1, <3>2, <3>3, Zenon
  <2>3. ASSUME NEW m \in 1..(j + 1)
        PROVE  SavedTermOf(f, m) = SavedTermOf(g, m)
    <3>1. m \in DOMAIN saved.nodes /\ m \in Nat /\ \A x \in 1..(m - 1) : x \in 1..j
      BY <1>0
    <3>2. saved.nodes[m].k = "app" => saved.nodes[m].a \in 1..j /\ saved.nodes[m].b \in 1..j
      BY <3>1, SavedKinds
    <3> HIDE DEF g
    <3>3. saved.nodes[m].k = "app" =>
            f[saved.nodes[m].a] = g[saved.nodes[m].a] /\ f[saved.nodes[m].b] = g[saved.nodes[m].b]
      BY <2>2, <3>2
    <3> QED BY <3>3 DEF SavedTermOf
  <2>4. g = [m \in 1..(j + 1) |-> SavedTermOf(g, m)]
    BY <2>3
  <2> QED BY <2>4
<1>3. Len(saved.nodes) \in T
  <2>1. T = Nat
    <3>1. T \in SUBSET Nat
      OBVIOUS
    <3> HIDE DEF T
    <3> QED BY <1>1, <1>2, <3>1, Induction
  <2> HIDE DEF T
  <2> QED BY <1>0, <2>1
<1>4. \E f : f = [m \in DOMAIN saved.nodes |-> SavedTermOf(f, m)]
  BY <1>0, <1>3
<1>5. SavedTree = [m \in DOMAIN saved.nodes |-> SavedTermOf(SavedTree, m)]
  BY <1>4 DEF SavedTree, SavedTermOf
<1> QED BY <1>5

\* The next saved node is built again, from nodes that are the terms of its children.
LEMMA RestoreIInv == IInv /\ Restore => IInv' /\ Grows
<1> SUFFICES ASSUME IInv, Restore PROVE IInv' /\ Grows
  OBVIOUS
<1> USE DEF IInv
<1> DEFINE n == Len(out) + 1
           nd == saved.nodes[n]
<1>1. /\ pc = "restore" /\ Len(out) < Len(saved.nodes) /\ ~frozen
      /\ UNCHANGED <<pc, tiers, at, exported, env, slots, saved>>
  BY DEF Restore, Tiered
<1>2. PICK h \in 1..MaxNodes :
        /\ CASE nd.k = "app" -> intern(App(out[nd.a], out[nd.b]), h) /\ UNCHANGED lits
             [] nd.k = "lit" -> intern_lit(nd.a, h)
             [] OTHER -> intern(nd, h) /\ UNCHANGED lits
        /\ out' = Append(out, h)
  BY DEF Restore
<1>3. /\ Len(out) \in Nat /\ n \in DOMAIN saved.nodes /\ n - 1 = Len(out) /\ SavedWell
      /\ h \in Nat /\ out \in Seq(Nat)
      /\ DOMAIN saved.nodes = 1..Len(saved.nodes)
  BY <1>1 DEF TypeOK, Promoted, SavedWell
<1>4. out' \in Seq(Nat) /\ Len(out') = n /\ out'[n] = h /\ \A j \in 1..Len(out) : out'[j] = out[j]
  BY <1>2, <1>3
<1>5. /\ nd.k \in {"const", "lit", "app"}
      /\ nd.k = "const" => \E m \in Atoms : nd = Const(m)
      /\ nd.k = "lit" => nd.a \in Lits
      /\ nd.k = "app" => nd.a \in 1..Len(out) /\ nd.b \in 1..Len(out)
  BY <1>3, SavedKinds
<1>6. SavedTree[n] = IF nd.k = "app" THEN <<"app", SavedTree[nd.a], SavedTree[nd.b]>>
                                     ELSE <<nd.k, nd.a>>
  BY <1>3, SavedTreeDef DEF SavedTermOf
<1> HIDE DEF nd
<1>7. ASSUME NEW new, Adds(new, h), new.k # "fvar"
      PROVE  /\ TypeOK' /\ Built' /\ Distinct' /\ Tiered' /\ Environment' /\ Ruled'
             /\ Grows /\ h \in DOMAIN nodes' /\ nodes'[h] = new
             /\ Described'
             /\ \A j \in 1..Len(out) : out[j] \in DOMAIN nodes' /\ Tree'[out[j]] = SavedTree[j]
  <2>1. /\ TypeOK' /\ Built' /\ Distinct' /\ Tiered' /\ Environment' /\ Ruled'
        /\ Grows /\ h \in DOMAIN nodes' /\ nodes'[h] = new
    BY <1>1, <1>4, <1>7, AddsKeeps
  <2>2. \A j \in 1..Len(out) : out[j] \in DOMAIN nodes' /\ Tree'[out[j]] = SavedTree[j]
    BY <2>1, GrowSame DEF Promoted
  <2> QED BY <2>1, <2>2, DescriptionNext
<1>8. ASSUME NEW new, Adds(new, h), new.k # "fvar", Tree'[h] = SavedTree[n]
      PROVE  IInv' /\ Grows
  <2>1. SavedTree' = SavedTree
    BY <1>1 DEF SavedTree
  <2>2. \A j \in 1..Len(out') : out'[j] \in DOMAIN nodes' /\ Tree'[out'[j]] = SavedTree[j]
    <3>1. \A j \in 1..Len(out') : j \in 1..Len(out) \/ j = n
      BY <1>3, <1>4
    <3> QED BY <1>4, <1>7, <1>8, <3>1
  <2>3. \A j \in DOMAIN saved.nodes : IsSaved(saved.nodes[j], j - 1)'
    BY <1>1 DEF Promoted, IsSaved, IsApp, Const, Lit, App
  <2>4. UNCHANGED <<pc, pending, saved>>
    BY <1>1 DEF slots
  <2>5. Len(out') <= Len(saved.nodes)
    BY <1>1, <1>3, <1>4
  <2>6. Promoted'
    BY <1>1, <2>1, <2>2, <2>3, <2>4, <2>5 DEF Promoted
  <2> QED BY <1>7, <1>8, <2>6
<1>9. CASE nd.k = "app"
  <2> DEFINE new == App(out[nd.a], out[nd.b])
  <2>1. intern(new, h) /\ UNCHANGED lits
    BY <1>2, <1>9, Zenon
  <2>2. out[nd.a] \in DOMAIN nodes /\ out[nd.b] \in DOMAIN nodes
    BY <1>5, <1>9 DEF Promoted
  <2>3. Adds(new, h) /\ new.k = "app" /\ new.a = out[nd.a] /\ new.b = out[nd.b]
    BY <2>1, <2>2 DEF Adds, App
  <2> HIDE DEF new
  <2>4. Tree'[h] = <<"app", Tree'[out[nd.a]], Tree'[out[nd.b]]>>
    BY <1>7, <2>3 DEF Described
  <2>5. Tree'[out[nd.a]] = SavedTree[nd.a] /\ Tree'[out[nd.b]] = SavedTree[nd.b]
    BY <1>5, <1>7, <1>9, <2>3
  <2> QED BY <1>6, <1>8, <1>9, <2>3, <2>4, <2>5
<1>10. CASE nd.k = "lit"
  <2>1. intern_lit(nd.a, h)
    <3>1. nd.k # "app"
      BY <1>10
    <3> QED BY <1>2, <1>10, <3>1, Zenon
  <2>2. PICK j \in 1..(Len(lits) + 1) :
          /\ IF nd.a \in Range(lits) THEN j \in DOMAIN lits /\ lits[j] = nd.a /\ UNCHANGED lits
                                     ELSE j = Len(lits) + 1 /\ lits' = Append(lits, nd.a)
          /\ intern(Lit(j), h)
    BY <2>1 DEF intern_lit
  <2>3. j \in DOMAIN lits' /\ lits'[j] = nd.a
    BY <2>2 DEF TypeOK
  <2>4. UNCHANGED lits \/ (nd.a \notin Range(lits) /\ lits' = Append(lits, nd.a))
    BY <2>2
  <2>5. Adds(Lit(j), h) /\ Lit(j).k = "lit" /\ Lit(j).a = j
    BY <1>5, <1>10, <2>2, <2>3, <2>4 DEF Adds, Lit
  <2>6. Tree'[h] = <<"lit", lits'[j]>>
    BY <1>7, <2>5 DEF Described
  <2> QED BY <1>6, <1>8, <1>10, <2>3, <2>5, <2>6
<1>11. CASE nd.k = "const"
  <2>1. nd.k # "app" /\ nd.k # "lit"
    BY <1>11
  <2>2. intern(nd, h) /\ UNCHANGED lits
    BY <1>2, <2>1, Zenon
  <2>3. Adds(nd, h)
    BY <1>5, <1>11, <2>2 DEF Adds, IsLeaf
  <2>4. Tree'[h] = <<nd.k, nd.a>>
    BY <1>7, <1>11, <2>1, <2>3 DEF Described
  <2> QED BY <1>6, <1>8, <1>11, <2>1, <2>3, <2>4
<1> QED BY <1>5, <1>9, <1>10, <1>11

\* The rules are permanent from here on.
LEMMA FixAfterIInv == IInv /\ fix_after_reclaim => IInv'
<1> SUFFICES ASSUME IInv, fix_after_reclaim PROVE IInv'
  OBVIOUS
<1> USE DEF IInv
<1>1. /\ pc = "restore" /\ ~frozen /\ Len(out) = Len(saved.nodes) /\ NextDecl
      /\ frozen' /\ frozen' \in BOOLEAN /\ wm' = Len(nodes) /\ wmLit' = Len(lits)
      /\ rule' = [c \in Consts |-> IF c \in pending THEN out[saved.roots[c]] ELSE rule[c]]
      /\ state' = [c \in Consts |-> IF c \in pending THEN 3 ELSE state[c]]
      /\ pending' = {} /\ saved' = NoSaved /\ out' = <<>>
      /\ UNCHANGED <<nodes, lits, perm, temp, exported, env, deriving>>
  BY DEF fix_after_reclaim, freeze, table, Tiered
<1>2. Tree' = Tree /\ Parts' = Parts /\ Built' /\ Distinct'
  BY <1>1, TableSame
<1>3. /\ pc' \in {"check", "over"} /\ at' \in 1..(NDecls + 1)
      /\ pc' = "check" => at' \in Consts
      /\ \A c \in Consts : env'[c] # 0 <=> c < at'
  BY <1>1, NextDeclFacts
<1>4. wm \in Nat /\ wm' \in Nat /\ wm <= wm' /\ wmLit' \in Nat /\ DOMAIN nodes = 1..wm'
  BY <1>1 DEF TypeOK, Tiered
<1>5. \A c \in pending : /\ c \in Consts /\ out[saved.roots[c]] \in 1..wm'
                         /\ out[saved.roots[c]] \in Nat
  <2>1. \A c \in pending : c \in Consts /\ saved.roots[c] \in DOMAIN saved.nodes
    BY <1>1 DEF Promoted, TypeOK
  <2>2. DOMAIN saved.nodes = 1..Len(out)
    BY <1>1 DEF TypeOK
  <2>3. \A n \in 1..Len(out) : out[n] \in 1..wm'
    BY <1>4 DEF Promoted
  <2> QED BY <1>4, <2>1, <2>2, <2>3
<1>6. TypeOK'
  <2>1. rule' \in [Consts -> Nat] /\ state' \in [Consts -> 0..4]
    BY <1>1, <1>5 DEF TypeOK
  <2>2. saved'.nodes \in Seq(SavedNodes) /\ out' \in Seq(Nat)
    BY <1>1 DEF NoSaved
  <2> QED BY <1>1, <1>3, <1>4, <2>1, <2>2 DEF TypeOK
<1>7. Tiered'
  <2>1. Top = Len(nodes) /\ TopLit = Len(lits) /\ Top' = wm' /\ TopLit' = wmLit'
    BY <1>1 DEF Top, TopLit
  <2>2. wm' <= Len(nodes) /\ wmLit' <= Len(lits)
    BY <1>1, <1>4
  <2> QED BY <1>1, <1>3, <2>1, <2>2 DEF Tiered
<1>8. Environment'
  <2>1. StandardQuot => \A c \in Consts : env[c] <= wm'
    BY <1>4 DEF Environment, TypeOK
  <2>2. \A c \in Consts : exported[c] \in 1..wm'
    BY <1>1, <1>4 DEF Environment
  <2>3. StandardQuot => \A c \in Quots : Tree[exported[c]] = BuiltIn
    BY <1>1 DEF Environment
  <2> QED BY <1>1, <1>2, <1>3, <2>1, <2>2, <2>3 DEF Environment
<1>9. Ruled'
  <2>1. \A c \in Consts : /\ state'[c] = IF c \in pending THEN 3 ELSE state[c]
                          /\ rule'[c] = IF c \in pending THEN out[saved.roots[c]] ELSE rule[c]
    BY <1>1
  <2>2. \A c \in Consts : state'[c] # 2
    BY <2>1 DEF Ruled
  <2>3. \A c \in Consts : state'[c] # 0 => env[c] # 0
    BY <2>1 DEF Ruled
  <2>4. \A c \in Consts : state'[c] = 1 <=> state[c] = 1
    BY <2>1 DEF Ruled
  <2>5. \A c \in Consts : state'[c] = 3 => rule'[c] \in 1..wm'
    <3>1. \A c \in Consts : state[c] = 3 => rule[c] \in 1..wm'
      BY <1>4 DEF Ruled
    <3> QED BY <1>5, <2>1, <3>1
  <2>6. deriving = <<>>
    BY <1>1 DEF Ruled
  <2>7. pending' = {c \in Consts : state'[c] = 2}
    BY <1>1, <2>2
  <2>8. \A c \in Consts : state'[c] = 1 <=> \E j \in DOMAIN deriving : deriving[j] = c
    BY <2>4 DEF Ruled
  <2>9. \A j, n \in DOMAIN deriving : deriving[j] = deriving[n] => j = n
    BY DEF Ruled
  <2> QED BY <1>1, <2>3, <2>5, <2>6, <2>7, <2>8, <2>9 DEF Ruled
<1>10. Promoted'
  <2>1. Len(out') = 0 /\ DOMAIN saved'.nodes = {} /\ Len(saved'.nodes) = 0
    BY <1>1 DEF NoSaved
  <2> QED BY <1>1, <1>3, <2>1 DEF Promoted
<1> QED BY <1>2, <1>6, <1>7, <1>8, <1>9, <1>10

LEMMA StutterIInv == IInv /\ UNCHANGED vars => IInv'
<1> SUFFICES ASSUME IInv, UNCHANGED vars PROVE IInv'
  OBVIOUS
<1>1. UNCHANGED <<pc, nodes, lits, perm, temp, frozen, wm, wmLit, at, exported, env, state, rule,
                  deriving, pending, saved, out>>
  BY DEF vars, table, tiers, slots, promotion
<1>2. Tree' = Tree /\ Parts' = Parts /\ Built' /\ Distinct' /\ SavedTree' = SavedTree
  BY <1>1, TableSame DEF IInv, SavedTree
<1>3. TypeOK'
  BY <1>1 DEF IInv, TypeOK
<1>4. Tiered'
  BY <1>1, SameTiered DEF IInv
<1>5. Environment'
  BY <1>1, <1>2 DEF IInv, Environment
<1>6. Ruled'
  BY <1>1, <1>2 DEF IInv, Ruled, has_fvar
<1>7. Promoted'
  <2>1. \A n \in DOMAIN saved.nodes : IsSaved(saved.nodes[n], n - 1)'
    BY <1>1 DEF IInv, Promoted, IsSaved, IsApp, Const, Lit, App
  <2> QED BY <1>1, <1>2, <2>1 DEF IInv, Promoted
<1> QED BY <1>2, <1>3, <1>4, <1>5, <1>6, <1>7 DEF IInv

LEMMA NextIInv == RulesSurvive /\ IInv /\ [Next]_vars => IInv'
BY LoadIInv, LoadedIInv, BuildIInv, DeriveIInv, DerivedIInv, AcceptIInv, RejectIInv, EndDeclIInv,
   RestoreIInv, FixAfterIInv, StutterIInv DEF Next, Terminated
-------------------------------------------------------------------------------
(* The theorems.                                                             *)

\* The loader, the checker and the promotion of rules keep the inductive invariant:
\* the permanent tier is what is below the watermark, it needs nothing above it, and
\* no node is in the table twice.
THEOREM Invariance ==
  ASSUME RulesSurvive
  PROVE  Spec => []IInv
<1>1. Init => IInv
  BY InitIInv
<1>2. IInv /\ [Next]_vars => IInv'
  BY NextIInv
<1> QED BY <1>1, <1>2, PTL DEF Spec

\* Equal terms have one handle, whichever tier they are in and however many
\* declarations were reclaimed before: interning looks nodes up in the permanent table
\* only when maybe_perm says so, and that is enough.
THEOREM HashConsing ==
  ASSUME RulesSurvive
  PROVE  Spec => []HashConsed
<1>1. IInv => HashConsed
  BY Tables DEF IInv, HashConsed, Distinct
<1> QED BY <1>1, Invariance, PTL

\* Nothing the environment or a rule holds is dropped by a reclaim, provided the export
\* gives the quotient constants their standard types and no declaration fails after a
\* rule was derived for it.
THEOREM NoDanglingHandle ==
  ASSUME RulesSurvive, StandardQuot
  PROVE  Spec => []NoHandleAcrossReclaim
<1>1. IInv => NoHandleAcrossReclaim
  <2> SUFFICES ASSUME IInv, NEW c \in Consts
               PROVE  /\ c < at => env[c] <= wm
                      /\ state[c] = 3 => rule[c] <= wm
                      /\ state[c] = 2 /\ pc # "restore" => rule[c] \in perm \cup temp
    BY DEF NoHandleAcrossReclaim
  <2>1. env[c] <= wm
    BY DEF IInv, Environment
  <2>2. state[c] = 3 => rule[c] <= wm
    BY DEF IInv, Ruled, TypeOK
  <2>3. state[c] = 2 /\ pc # "restore" => rule[c] \in DOMAIN nodes
    BY DEF IInv, Ruled
  <2>4. DOMAIN nodes \subseteq perm \cup temp
    BY DEF IInv, Tiered, Top, TypeOK
  <2> QED BY <2>1, <2>2, <2>3, <2>4
<1> QED BY <1>1, Invariance, PTL

-------------------------------------------------------------------------------
(* The refinement.                                                           *)

\* The permanent terms stay whatever happens, the others until a reclaim.
LEMMA TermsKept ==
  ASSUME RulesSurvive, IInv, IInv', [Next]_vars
  PROVE  /\ \A g \in 1..wm : g \in DOMAIN nodes' /\ Tree'[g] = Tree[g]
         /\ ~reclaim => \A g \in DOMAIN nodes : g \in DOMAIN nodes' /\ Tree'[g] = Tree[g]
<1>1. 1..wm \subseteq DOMAIN nodes
  BY Tables DEF IInv
<1>2. CASE Grows
  <2>1. \A g \in DOMAIN nodes : g \in DOMAIN nodes' /\ Tree'[g] = Tree[g]
    BY <1>2, GrowSame DEF IInv
  <2> QED BY <1>1, <2>1
<1>3. CASE UNCHANGED <<nodes, lits>>
  BY <1>1, <1>3, TableSame
<1>4. CASE reclaim /\ frozen
  BY <1>4, ReclaimFacts, ReclaimSame DEF IInv
<1>5. Grows \/ UNCHANGED <<nodes, lits>> \/ (reclaim /\ frozen)
  <2>1. CASE Load \/ Build \/ Restore
    BY <2>1, LoadIInv, BuildIInv, RestoreIInv
  <2>2. CASE Loaded \/ (\E c \in Consts : Derive(c)) \/ Derived \/ Accept \/ fix_after_reclaim
    BY <2>2 DEF Loaded, Derive, Derived, Accept, fix_after_reclaim, table
  <2>3. CASE Reject \/ EndDecl
    <3>1. frozen
      BY <2>3 DEF IInv, Tiered, Reject, EndDecl
    <3> QED BY <2>3, <3>1 DEF Reject, EndDecl, table
  <2>4. CASE Terminated \/ UNCHANGED vars
    BY <2>4 DEF Terminated, vars, table
  <2> QED BY <2>1, <2>2, <2>3, <2>4 DEF Next
<1> QED BY <1>2, <1>3, <1>4, <1>5

\* A term is not None.
LEMMA SomeTerm ==
  ASSUME IInv
  PROVE  /\ \A g \in DOMAIN nodes : Tree[g] # None
         /\ \A n \in DOMAIN saved.nodes : SavedTree[n] # None
<1>0. \A a, b : <<a, b>> # None
  BY DEF None
<1>1. \A a, b, c : <<a, b, c>> # None
  BY DEF None
<1>2. ASSUME NEW g \in DOMAIN nodes
      PROVE  Tree[g] # None
  <2>1. \/ \E a, b : Tree[g] = <<a, b>>
        \/ \E a, b, c : Tree[g] = <<a, b, c>>
    BY NodeKinds, TreeFacts DEF IInv
  <2> QED BY <1>0, <1>1, <2>1
<1>3. ASSUME NEW n \in DOMAIN saved.nodes
      PROVE  SavedTree[n] # None
  <2>1. SavedWell
    BY DEF SavedWell, IInv, TypeOK, Promoted
  <2>2. \/ \E a, b : SavedTree[n] = <<a, b>>
        \/ \E a, b, c : SavedTree[n] = <<a, b, c>>
    BY <2>1, SavedTreeDef DEF SavedTermOf
  <2> QED BY <1>0, <1>1, <2>2
<1> QED BY <1>2, <1>3

LEMMA SavedTreeNext ==
  SavedWell' => (\A n \in DOMAIN saved.nodes : SavedTree[n] = SavedTermOf(SavedTree, n))'
<1>1. SavedWell => \A n \in DOMAIN saved.nodes : SavedTree[n] = SavedTermOf(SavedTree, n)
  BY SavedTreeDef
<1> QED BY <1>1, PTL

\* A rule is saved as the term it is.
LEMMA SavedTerms ==
  ASSUME IInv, IInv', pc # "restore", fix_before_reclaim
  PROVE  \A g \in Needed : Rank(g) \in DOMAIN saved'.nodes /\ SavedTree'[Rank(g)] = Tree[g]
<1> DEFINE T == {g \in Needed : SavedTree'[Rank(g)] # Tree[g]}
<1>0. /\ DOMAIN saved'.nodes = 1..Cardinality(Needed)
      /\ \A g \in Needed : Rank(g) \in 1..Cardinality(Needed)
  BY SavedFacts, NeededFacts DEF IInv
<1> SUFFICES ASSUME T # {} PROVE FALSE
  BY <1>0
<1>1. PICK junk : \A g \in Needed : saved'.nodes[Rank(g)] = Save(g, junk)
  BY SavedFacts DEF IInv
<1>2. PICK g \in T : \A m \in T : g <= m
  <2>1. T \in SUBSET Nat
    BY NeededFacts DEF IInv
  <2> HIDE DEF T
  <2> QED BY <2>1, Least
<1>3. g \in Needed /\ SavedTree'[Rank(g)] # Tree[g] /\ g \in DOMAIN nodes /\ g \in Nat
  BY NeededFacts DEF IInv
<1>4. \A m \in Needed : m \in 1..(g - 1) => SavedTree'[Rank(m)] = Tree[m]
  BY <1>2, <1>3
<1> HIDE DEF T
<1>5. SavedTree'[Rank(g)] = IF saved'.nodes[Rank(g)].k = "app"
                              THEN <<"app", SavedTree'[saved'.nodes[Rank(g)].a],
                                            SavedTree'[saved'.nodes[Rank(g)].b]>>
                              ELSE <<saved'.nodes[Rank(g)].k, saved'.nodes[Rank(g)].a>>
  <2>1. SavedWell'
    BY DEF SavedWell, IInv, TypeOK, Promoted
  <2> QED BY <1>0, <1>3, <2>1, SavedTreeNext DEF SavedTermOf
<1>6. saved'.nodes[Rank(g)] = Save(g, junk)
  BY <1>1, <1>3
<1>7. CASE nodes[g].k = "app"
  <2>1. Save(g, junk) = App(Rank(nodes[g].a), Rank(nodes[g].b))
    BY <1>3, <1>7, SaveFacts DEF IInv
  <2>2. SavedTree'[Rank(g)] = <<"app", SavedTree'[Rank(nodes[g].a)], SavedTree'[Rank(nodes[g].b)]>>
    BY <1>5, <1>6, <2>1 DEF App
  <2>3. /\ nodes[g].a \in Needed /\ nodes[g].a \in 1..(g - 1)
        /\ nodes[g].b \in Needed /\ nodes[g].b \in 1..(g - 1)
    BY <1>3, <1>7, NeededFacts, NodeKinds DEF IInv
  <2>4. Tree[g] = <<"app", Tree[nodes[g].a], Tree[nodes[g].b]>>
    BY <1>3, <1>7, TreeFacts DEF IInv
  <2> QED BY <1>3, <1>4, <2>2, <2>3, <2>4
<1>8. CASE nodes[g].k = "lit"
  <2>1. Save(g, junk) = Lit(lits[nodes[g].a])
    BY <1>3, <1>8, SaveFacts DEF IInv
  <2>2. SavedTree'[Rank(g)] = <<"lit", lits[nodes[g].a]>>
    BY <1>5, <1>6, <2>1 DEF Lit
  <2>3. Tree[g] = <<"lit", lits[nodes[g].a]>>
    BY <1>3, <1>8, TreeFacts DEF IInv
  <2> QED BY <1>3, <2>2, <2>3
<1>9. CASE nodes[g].k \in {"const", "fvar"}
  <2>1. Save(g, junk) = nodes[g]
    BY <1>3, <1>9, SaveFacts DEF IInv
  <2>2. SavedTree'[Rank(g)] = <<nodes[g].k, nodes[g].a>>
    BY <1>5, <1>6, <1>9, <2>1
  <2>3. Tree[g] = <<nodes[g].k, nodes[g].a>>
    BY <1>3, <1>9, TreeFacts DEF IInv
  <2> QED BY <1>3, <2>2, <2>3
<1> QED BY <1>3, <1>7, <1>8, <1>9, NodeKinds DEF IInv

Types == [c \in Consts |-> IF env[c] = 0 THEN None ELSE Meaning(env[c])]
Rules == [c \in Consts |-> IF state[c] \in {2, 3} THEN RuleTerm(c) ELSE None]

\* What the environment holds is permanent.
LEMMA HeldIsPermanent ==
  ASSUME IInv, StandardQuot, NEW c \in Consts, env[c] # 0
  PROVE  env[c] \in 1..wm
<1>1. env[c] \in Nat /\ wm \in Nat
  BY DEF IInv, TypeOK
<1>2. env[c] <= wm
  BY DEF IInv, Environment
<1> QED BY <1>1, <1>2

LEMMA TypesKept ==
  ASSUME RulesSurvive, StandardQuot, IInv, IInv', [Next]_vars, NEW c \in Consts,
         env[c] # 0, env'[c] = env[c]
  PROVE  Types'[c] = Types[c]
<1>1. env[c] \in 1..wm
  BY HeldIsPermanent
<1>2. env[c] \in DOMAIN nodes
  BY <1>1, Tables DEF IInv
<1>3. env[c] \in DOMAIN nodes' /\ Tree'[env[c]] = Tree[env[c]]
  BY <1>1, TermsKept
<1> QED BY <1>2, <1>3 DEF Types, Meaning

LEMMA RulesKept ==
  ASSUME RulesSurvive, IInv, IInv', [Next]_vars, NEW c \in Consts, state[c] \in {2, 3}
  PROVE  state'[c] \in {2, 3} /\ RuleTerm(c)' = RuleTerm(c)
<1>0. /\ c \in pending <=> state[c] = 2
      /\ c \in pending' <=> state'[c] = 2
  BY DEF IInv, Ruled
<1>1. CASE fix_after_reclaim
  <2>1. /\ pc = "restore" /\ pc' # "restore" /\ UNCHANGED <<nodes, lits>>
        /\ rule'[c] = IF c \in pending THEN out[saved.roots[c]] ELSE rule[c]
        /\ state'[c] = IF c \in pending THEN 3 ELSE state[c]
        /\ Len(out) = Len(saved.nodes)
    BY <1>1 DEF fix_after_reclaim, table, NextDecl
  <2>2. Tree' = Tree
    BY <2>1, TableSame
  <2>3. CASE c \in pending
    <3>1. saved.roots[c] \in 1..Len(out)
      <4>1. saved.roots[c] \in DOMAIN saved.nodes
        BY <2>1, <2>3 DEF IInv, Promoted
      <4>2. DOMAIN saved.nodes = 1..Len(saved.nodes)
        <5>1. saved.nodes \in Seq(SavedNodes)
          BY DEF IInv, TypeOK
        <5> QED BY <5>1
      <4> QED BY <2>1, <4>1, <4>2
    <3>2. out[saved.roots[c]] \in DOMAIN nodes /\ Tree[out[saved.roots[c]]] = SavedTree[saved.roots[c]]
      BY <3>1 DEF IInv, Promoted
    <3> QED BY <2>1, <2>2, <2>3, <3>2 DEF RuleTerm, Meaning
  <2>4. CASE c \notin pending
    BY <2>1, <2>2, <2>4 DEF RuleTerm, Meaning
  <2> QED BY <2>3, <2>4
<1>2. CASE EndDecl
  <2>1. /\ pc = "end" /\ UNCHANGED <<state, rule, pending>>
        /\ pending # {} => fix_before_reclaim /\ pc' = "restore"
        /\ pc' = "restore" => pending # {}
    BY <1>2 DEF EndDecl, slots, NextDecl
  <2>2. CASE c \in pending
    <3>1. /\ fix_before_reclaim /\ pc' = "restore" /\ rule[c] \in Needed
          /\ saved'.roots[c] = Rank(rule[c]) /\ rule[c] \in DOMAIN nodes
      BY <2>1, <2>2, SavedFacts, NeededFacts DEF IInv
    <3>2. SavedTree'[Rank(rule[c])] = Tree[rule[c]]
      BY <2>1, <3>1, SavedTerms
    <3> QED BY <1>0, <2>1, <2>2, <3>1, <3>2 DEF RuleTerm, Meaning
  <2>3. CASE c \notin pending
    <3>1. rule[c] \in 1..wm
      BY <1>0, <2>3 DEF IInv, Ruled
    <3>2. rule[c] \in DOMAIN nodes /\ rule[c] \in DOMAIN nodes' /\ Tree'[rule[c]] = Tree[rule[c]]
      BY <3>1, TermsKept, Tables DEF IInv
    <3> QED BY <1>0, <2>1, <2>3, <3>2 DEF RuleTerm, Meaning
  <2> QED BY <2>2, <2>3
<1>3. CASE ~fix_after_reclaim /\ ~EndDecl
  <2>1. /\ UNCHANGED saved /\ (pc = "restore" <=> pc' = "restore")
        /\ c \in pending' <=> c \in pending
        /\ state'[c] = state[c] /\ rule'[c] = rule[c]
        /\ pending # {} => (UNCHANGED <<nodes, lits>> \/ ~reclaim)
    <3>1. CASE Load \/ Build \/ Restore
      <4>1. UNCHANGED <<saved, pc, pending, state, rule>>
        BY <3>1 DEF Load, Build, Restore, slots, promotion
      <4>2. Grows
        BY <3>1, LoadIInv, BuildIInv, RestoreIInv
      <4>3. reclaim => UNCHANGED <<nodes, lits>>
        <5>1. reclaim => nodes' = nodes /\ lits' = lits
          <6> SUFFICES ASSUME reclaim PROVE nodes' = nodes /\ lits' = lits
            OBVIOUS
          <6>1. /\ wm \in Nat /\ wmLit \in Nat /\ wm <= Len(nodes) /\ wmLit <= Len(lits)
                /\ nodes \in Seq(Nodes) /\ lits \in Seq(Lits)
            BY DEF IInv, TypeOK, Tiered
          <6>2. Len(nodes') = wm /\ Len(lits') = wmLit
            BY <6>1 DEF reclaim
          <6>3. wm = Len(nodes) /\ wmLit = Len(lits)
            <7>1. /\ Len(nodes) <= Len(nodes') /\ Len(nodes) \in Nat
                  /\ Len(lits) <= Len(lits') /\ Len(lits) \in Nat
              BY <4>2 DEF Grows
            <7> QED BY <6>1, <6>2, <7>1
          <6> QED BY <6>1, <6>3 DEF reclaim
        <5> QED BY <5>1
      <4> QED BY <4>1, <4>3
    <3>2. CASE Loaded \/ Accept \/ Terminated \/ UNCHANGED vars
      BY <3>2 DEF Loaded, Accept, Terminated, vars, table, slots, promotion
    <3>3. CASE \E d \in Consts : Derive(d)
      <4>1. PICK d \in Consts : Derive(d)
        BY <3>3
      <4>2. d # c
        BY <4>1 DEF Derive
      <4> QED BY <4>1, <4>2 DEF Derive, table, promotion, IInv, TypeOK
    <3>4. CASE Derived
      <4> DEFINE d == deriving[Len(deriving)]
      <4>1. d \in Consts /\ state[d] = 1
        <5>1. deriving # <<>> /\ deriving \in Seq(Consts)
          BY <3>4 DEF Derived, IInv, TypeOK
        <5>2. d \in Consts /\ Len(deriving) \in DOMAIN deriving
          BY <5>1
        <5> QED BY <5>2 DEF IInv, Ruled
      <4>2. d # c
        BY <4>1
      <4>3. \/ /\ state' = [state EXCEPT ![d] = 2] /\ pending' = pending \cup {d}
               /\ \E g \in perm \cup temp : rule' = [rule EXCEPT ![d] = g]
            \/ /\ state' = [state EXCEPT ![d] = 4] /\ UNCHANGED <<rule, pending>>
        BY <3>4 DEF Derived
      <4> HIDE DEF d
      <4>4. state'[c] = state[c] /\ rule'[c] = rule[c] /\ (c \in pending' <=> c \in pending)
        BY <4>2, <4>3 DEF IInv, TypeOK
      <4> QED BY <3>4, <4>4 DEF Derived, table, promotion
    <3>5. CASE Reject
      <4>1. UNCHANGED <<saved, pending, state, rule>> /\ pc = "check" /\ pc' \in {"end", "over"}
        BY <3>5 DEF Reject, slots, promotion
      <4>2. pending # {} => UNCHANGED <<nodes, lits>>
        BY <3>5 DEF Reject, table, RulesSurvive
      <4> QED BY <4>1, <4>2
    <3> QED BY <1>3, <3>1, <3>2, <3>3, <3>4, <3>5 DEF Next
  <2>2. SavedTree' = SavedTree
    BY <2>1 DEF SavedTree
  <2>3. CASE pc = "restore" /\ c \in pending
    BY <2>1, <2>2, <2>3 DEF RuleTerm
  <2>4. CASE ~(pc = "restore" /\ c \in pending)
    <3>1. rule[c] \in DOMAIN nodes /\ rule[c] \in DOMAIN nodes' /\ Tree'[rule[c]] = Tree[rule[c]]
      <4>1. CASE c \in pending
        <5>1. rule[c] \in DOMAIN nodes
          BY <2>4, <4>1 DEF IInv, Ruled
        <5>2. CASE UNCHANGED <<nodes, lits>>
          BY <5>1, <5>2, TableSame
        <5>3. CASE ~reclaim
          BY <5>1, <5>3, TermsKept
        <5> QED BY <2>1, <4>1, <5>2, <5>3
      <4>2. CASE c \notin pending
        <5>1. rule[c] \in 1..wm
          BY <1>0, <4>2 DEF IInv, Ruled
        <5> QED BY <5>1, TermsKept, Tables DEF IInv
      <4> QED BY <4>1, <4>2
    <3> QED BY <2>1, <2>4, <3>1 DEF RuleTerm, Meaning
  <2> QED BY <2>1, <2>3, <2>4
<1> QED BY <1>1, <1>2, <1>3

LEMMA TypedConstants ==
  IInv /\ StandardQuot => \A c \in Consts : env[c] # 0 => Types[c] # None
<1> SUFFICES ASSUME IInv, StandardQuot, NEW c \in Consts, env[c] # 0 PROVE Types[c] # None
  OBVIOUS
<1>1. env[c] \in 1..wm
  BY HeldIsPermanent
<1>2. env[c] \in DOMAIN nodes
  BY <1>1, Tables DEF IInv
<1> QED BY <1>2, SomeTerm DEF Types, Meaning

LEMMA TypedConstantsNext ==
  IInv' /\ StandardQuot => \A c \in Consts : env'[c] # 0 => Types'[c] # None
<1>1. IInv /\ StandardQuot => \A c \in Consts : env[c] # 0 => Types[c] # None
  BY TypedConstants
<1>2. (IInv /\ StandardQuot => \A c \in Consts : env[c] # 0 => Types[c] # None)'
  BY <1>1, PTL
<1> QED BY <1>2

LEMMA KnownRules == IInv => \A c \in Consts : state[c] \in {2, 3} => Rules[c] # None
<1> SUFFICES ASSUME IInv, NEW c \in Consts, state[c] \in {2, 3} PROVE RuleTerm(c) # None
  BY DEF Rules
<1>1. CASE pc = "restore" /\ c \in pending
  BY <1>1, SomeTerm DEF RuleTerm, IInv, Promoted
<1>2. CASE ~(pc = "restore" /\ c \in pending)
  <2>1. rule[c] \in DOMAIN nodes
    <3>1. rule[c] \in DOMAIN nodes \/ rule[c] \in 1..wm
      BY <1>2 DEF IInv, Ruled
    <3> QED BY <3>1, Tables DEF IInv
  <2> QED BY <1>2, <2>1, SomeTerm DEF RuleTerm, Meaning
<1> QED BY <1>1, <1>2

LEMMA KnownRulesNext == IInv' => \A c \in Consts : state'[c] \in {2, 3} => Rules'[c] # None
<1>1. IInv => \A c \in Consts : state[c] \in {2, 3} => Rules[c] # None
  BY KnownRules
<1>2. (IInv => \A c \in Consts : state[c] \in {2, 3} => Rules[c] # None)'
  BY <1>1, PTL
<1> QED BY <1>2

LEMMA StoreStep ==
  ASSUME RulesSurvive, StandardQuot, IInv, IInv', [Next]_vars
  PROVE  \/ \E c \in Consts : Store!AddConstant(c) \/ Store!LearnRule(c)
         \/ UNCHANGED <<Types, Rules>>
<1> DEFINE AddsTo(c) == /\ Types[c] = None /\ Types'[c] # None
                        /\ Types' = [Types EXCEPT ![c] = Types'[c]] /\ Rules' = Rules
           LearnsOf(c) == /\ Types[c] # None /\ Rules[c] = None /\ Rules'[c] # None
                          /\ Rules' = [Rules EXCEPT ![c] = Rules'[c]] /\ Types' = Types
<1>0. \A c \in Consts : /\ AddsTo(c) => Store!AddConstant(c)
                        /\ LearnsOf(c) => Store!LearnRule(c)
  BY DEF Types, Rules, Store!AddConstant, Store!LearnRule, Store!Stored
<1>1. /\ Types = [c \in Consts |-> Types[c]] /\ Types' = [c \in Consts |-> Types'[c]]
      /\ Rules = [c \in Consts |-> Rules[c]] /\ Rules' = [c \in Consts |-> Rules'[c]]
  BY DEF Types, Rules
<1>2. \A c \in Consts : /\ env[c] = 0 => Types[c] = None
                        /\ env'[c] = 0 => Types'[c] = None
                        /\ state[c] \notin {2, 3} => Rules[c] = None
                        /\ state'[c] \notin {2, 3} => Rules'[c] = None
  BY DEF Types, Rules
<1>3. \A c \in Consts : env[c] # 0 /\ env'[c] = env[c] => Types'[c] = Types[c]
  BY TypesKept
<1>4. \A c \in Consts : state[c] \in {2, 3} => Rules'[c] = Rules[c]
  BY RulesKept DEF Rules
<1>5. /\ \A c \in Consts : env[c] # 0 => Types[c] # None
      /\ \A c \in Consts : env'[c] # 0 => Types'[c] # None
  BY TypedConstants, TypedConstantsNext
<1> HIDE DEF AddsTo, LearnsOf
<1>6. ASSUME NEW c \in Consts, env[c] = 0, env'[c] # 0, UNCHANGED state,
             \A d \in Consts : d # c => env'[d] = env[d]
      PROVE  AddsTo(c)
  <2>1. \A d \in Consts : d # c => Types'[d] = Types[d]
    BY <1>2, <1>3, <1>6
  <2>2. Rules' = Rules
    <3>1. \A d \in Consts : Rules'[d] = Rules[d]
      BY <1>2, <1>4, <1>6
    <3> QED BY <1>1, <3>1
  <2>3. Types' = [Types EXCEPT ![c] = Types'[c]]
    BY <1>1, <2>1
  <2> QED BY <1>2, <1>5, <1>6, <2>2, <2>3 DEF AddsTo
<1>7. ASSUME NEW c \in Consts, env[c] # 0, UNCHANGED env, state[c] \notin {2, 3}, Rules'[c] # None,
             \A d \in Consts : d # c => state'[d] = state[d]
      PROVE  LearnsOf(c)
  <2>1. \A d \in Consts : d # c => Rules'[d] = Rules[d]
    BY <1>2, <1>4, <1>7
  <2>2. Types' = Types
    <3>1. \A d \in Consts : Types'[d] = Types[d]
      BY <1>2, <1>3, <1>7
    <3> QED BY <1>1, <3>1
  <2>3. Rules' = [Rules EXCEPT ![c] = Rules'[c]]
    BY <1>1, <2>1
  <2> QED BY <1>2, <1>5, <1>7, <2>2, <2>3 DEF LearnsOf
<1>8. ASSUME UNCHANGED env, \A c \in Consts : state[c] \notin {2, 3} => state'[c] \notin {2, 3}
      PROVE  UNCHANGED <<Types, Rules>>
  <2>1. \A d \in Consts : Types'[d] = Types[d]
    BY <1>2, <1>3, <1>8
  <2>2. \A d \in Consts : Rules'[d] = Rules[d]
    BY <1>2, <1>4, <1>8
  <2> QED BY <1>1, <2>1, <2>2
<1>9. CASE Accept \/ (Reject /\ KeepGoing)
  <2>1. /\ at \in Consts /\ env[at] = 0 /\ UNCHANGED state
        /\ \E g : env' = [env EXCEPT ![at] = g]
    <3>1. pc = "check" /\ UNCHANGED state
      BY <1>9 DEF Accept, Reject, slots
    <3>2. at \in Consts /\ at \in Nat
      BY <3>1 DEF IInv, Environment, TypeOK
    <3>3. env[at] = 0
      <4>1. env[at] # 0 <=> (at < at \/ (at = at /\ pc \in {"end", "restore"}))
        BY <3>2 DEF IInv, Environment
      <4> QED BY <4>1, <3>1, <3>2
    <3>4. \E g : env' = [env EXCEPT ![at] = g]
      <4>1. CASE Accept
        BY <4>1 DEF Accept
      <4>2. CASE Reject /\ KeepGoing
        BY <4>2 DEF Reject
      <4> QED BY <1>9, <4>1, <4>2
    <3> QED BY <3>1, <3>2, <3>3, <3>4
  <2>2. env'[at] # 0
    BY <1>9, <2>1 DEF IInv, Environment, Accept, Reject
  <2>3. \A d \in Consts : d # at => env'[d] = env[d]
    BY <2>1 DEF IInv, TypeOK
  <2>4. AddsTo(at)
    BY <1>6, <2>1, <2>2, <2>3
  <2> QED BY <1>0, <2>1, <2>4
<1>10. CASE Derived
  <2> DEFINE c == deriving[Len(deriving)]
  <2>1. c \in Consts /\ state[c] = 1 /\ env[c] # 0 /\ UNCHANGED env
    <3>1. deriving # <<>> /\ deriving \in Seq(Consts)
      BY <1>10 DEF Derived, IInv, TypeOK
    <3>2. c \in Consts /\ Len(deriving) \in DOMAIN deriving
      BY <3>1
    <3>3. state[c] = 1
      BY <3>2 DEF IInv, Ruled
    <3> QED BY <1>10, <3>2, <3>3 DEF IInv, Ruled, Derived
  <2>2. state' = [state EXCEPT ![c] = 2] \/ state' = [state EXCEPT ![c] = 4]
    BY <1>10 DEF Derived
  <2> HIDE DEF c
  <2>3. (\A d \in Consts : d # c => state'[d] = state[d]) /\ state'[c] \in {2, 4}
    BY <2>1, <2>2 DEF IInv, TypeOK
  <2>4. CASE state'[c] = 4
    <3>1. \A d \in Consts : state[d] \notin {2, 3} => state'[d] \notin {2, 3}
      BY <2>3, <2>4
    <3> QED BY <1>8, <2>1, <3>1
  <2>5. CASE state'[c] = 2
    <3>1. Rules'[c] # None
      BY <2>1, <2>5, KnownRulesNext
    <3>2. LearnsOf(c)
      BY <1>7, <2>1, <2>3, <3>1
    <3> QED BY <1>0, <2>1, <3>2
  <2> QED BY <2>3, <2>4, <2>5
<1>11. CASE ~Accept /\ ~(Reject /\ KeepGoing) /\ ~Derived
  <2>1. UNCHANGED env /\ \A c \in Consts : state[c] \notin {2, 3} => state'[c] \notin {2, 3}
    <3>1. CASE Load \/ Loaded \/ Build \/ Reject \/ EndDecl \/ Restore \/ Terminated \/ UNCHANGED vars
      BY <1>11, <3>1 DEF Load, Loaded, Build, Reject, EndDecl, Restore, Terminated, vars, slots
    <3>2. CASE \E c \in Consts : Derive(c)
      BY <3>2 DEF Derive, IInv, TypeOK
    <3>3. CASE fix_after_reclaim
      BY <3>3 DEF fix_after_reclaim, IInv, Ruled
    <3> QED BY <1>11, <3>1, <3>2, <3>3 DEF Next
  <2> QED BY <1>8, <2>1
<1> QED BY <1>9, <1>10, <1>11

\* The table implements the store of terms: a constant's type and a definition's rule
\* are stored once and never change, through reclaims, the reuse of handles and the
\* promotion of rules.
THEOREM Implementation ==
  ASSUME RulesSurvive, StandardQuot
  PROVE  Spec => ImplementsStore
<1>1. Init => Store!StoreInit
  <2>1. Init => \A c \in Consts : env[c] = 0 /\ state[c] \notin {2, 3}
    BY DEF Init
  <2> QED BY <2>1 DEF Store!StoreInit
<1>2. IInv /\ IInv' /\ [Next]_vars
        => [Store!StoreNext]_<<[c \in Consts |-> IF env[c] = 0 THEN None ELSE Meaning(env[c])],
                               [c \in Consts |-> IF state[c] \in {2, 3} THEN RuleTerm(c) ELSE None]>>
  BY StoreStep DEF Store!StoreNext, Types, Rules
<1> QED BY <1>1, <1>2, Invariance, PTL DEF Spec, ImplementsStore, Store!StoreSpec
===============================================================================
