----------------------------- MODULE Levels_proofs -----------------------------
(***************************************************************************)
(* Proofs about universe levels: the constructors, the normal form, the    *)
(* tests and the instantiation keep or respect the value of a level under  *)
(* every assignment, the order of normal forms is a strict total order,    *)
(* and a comparison ends.                                                  *)
(*                                                                         *)
(* Level is the set of all levels over the parameters.  Its members are    *)
(* built by the constructors, so a claim about all of them is proved by    *)
(* induction on their depth.  Of the recursive functions the proofs use    *)
(* one thing, Recursion: each is what its definition computes from its     *)
(* calls.                                                                  *)
(***************************************************************************)
EXTENDS Levels, NaturalOrder, SequenceTheorems, FiniteSetTheorems, FunctionTheorems

(***************************************************************************)
(* Levels.                                                                 *)
(***************************************************************************)

Grow(S) ==
  {Zero} \cup {mk_param(p) : p \in Params} \cup {mk_succ(l) : l \in S}
  \cup {mk_max_raw(l, m) : l \in S, m \in S} \cup {mk_imax_raw(l, m) : l \in S, m \in S}

\* The levels of each depth up to n.
IsDepths(g, n) == g = [i \in 0..n |-> IF i = 0 THEN Grow({}) ELSE Grow(g[i - 1])]
Depths(n) == CHOOSE g : IsDepths(g, n)
OfDepth(n) == Depths(n)[n]
Level == UNION {OfDepth(n) : n \in Nat}

LEMMA DepthsExist ==
  ASSUME NEW n \in Nat
  PROVE  IsDepths(Depths(n), n)
<1> DEFINE T == {k \in Nat : \E g : IsDepths(g, k)}
<1>1. 0 \in T
  <2> DEFINE g == [i \in 0..0 |-> Grow({})]
  <2>1. IsDepths(g, 0)
    BY DEF IsDepths
  <2> QED BY <2>1
<1>2. ASSUME NEW k \in T PROVE k + 1 \in T
  <2>1. PICK g : IsDepths(g, k)
    OBVIOUS
  <2> DEFINE e == [i \in 0..(k + 1) |-> IF i = k + 1 THEN Grow(g[k]) ELSE g[i]]
  <2>2. \A i \in 0..k : e[i] = g[i] /\ g[i] = IF i = 0 THEN Grow({}) ELSE Grow(g[i - 1])
    BY <2>1 DEF IsDepths
  <2>3. \A i \in 0..(k + 1) : e[i] = IF i = 0 THEN Grow({}) ELSE Grow(e[i - 1])
    BY <2>2
  <2> HIDE DEF e
  <2>4. e = [i \in 0..(k + 1) |-> IF i = 0 THEN Grow({}) ELSE Grow(e[i - 1])]
    BY <2>3 DEF e
  <2> QED BY <2>4 DEF IsDepths
<1>3. T = Nat
  BY <1>1, <1>2, Induction, Zenon
<1> QED BY <1>3, Zenon DEF Depths

LEMMA DepthsAgree ==
  ASSUME NEW n \in Nat, NEW k \in Nat, k <= n
  PROVE  Depths(n)[k] = OfDepth(k)
<1> DEFINE T == {i \in Nat : i <= k => Depths(n)[i] = Depths(k)[i]}
<1>1. /\ \A i \in 0..n : Depths(n)[i] = IF i = 0 THEN Grow({}) ELSE Grow(Depths(n)[i - 1])
      /\ \A i \in 0..k : Depths(k)[i] = IF i = 0 THEN Grow({}) ELSE Grow(Depths(k)[i - 1])
  BY DepthsExist DEF IsDepths
<1>2. 0 \in T
  BY <1>1
<1>3. ASSUME NEW i \in T PROVE i + 1 \in T
  BY <1>1
<1>4. T = Nat
  <2> HIDE DEF T
  <2> QED BY <1>2, <1>3, Induction DEF T
<1> QED BY <1>4 DEF OfDepth

LEMMA NextDepth ==
  /\ OfDepth(0) = Grow({})
  /\ \A n \in Nat : OfDepth(n + 1) = Grow(OfDepth(n))
<1>1. OfDepth(0) = Grow({})
  BY DepthsExist DEF IsDepths, OfDepth
<1>2. ASSUME NEW n \in Nat PROVE OfDepth(n + 1) = Grow(OfDepth(n))
  BY DepthsExist, DepthsAgree DEF IsDepths, OfDepth
<1> QED BY <1>1, <1>2

LEMMA Deeper ==
  ASSUME NEW n \in Nat, NEW k \in Nat
  PROVE  OfDepth(n) \subseteq OfDepth(n + k)
<1> DEFINE T == {i \in Nat : OfDepth(i) \subseteq OfDepth(i + 1)}
           U == {i \in Nat : OfDepth(n) \subseteq OfDepth(n + i)}
<1>1. 0 \in T
  BY NextDepth DEF Grow
<1>2. ASSUME NEW i \in T PROVE i + 1 \in T
  <2>1. Grow(OfDepth(i)) \subseteq Grow(OfDepth(i + 1))
    BY DEF Grow
  <2> QED BY <2>1, NextDepth
<1>3. T = Nat
  BY <1>1, <1>2, Induction, Zenon
<1>4. 0 \in U
  OBVIOUS
<1>5. ASSUME NEW i \in U PROVE i + 1 \in U
  <2>1. n + i \in T
    BY <1>3
  <2> QED BY <2>1
<1>6. U = Nat
  BY <1>4, <1>5, Induction, Zenon
<1> QED BY <1>6

\* What the constructors make can be told apart.
LEMMA Shapes ==
  /\ Zero.k = 0
  /\ \A p : mk_param(p).k = 4 /\ mk_param(p).p = p
  /\ \A l : mk_succ(l).k = 1 /\ mk_succ(l).a = l
  /\ \A l, m : mk_max_raw(l, m).k = 2 /\ mk_max_raw(l, m).a = l /\ mk_max_raw(l, m).b = m
  /\ \A l, m : mk_imax_raw(l, m).k = 3 /\ mk_imax_raw(l, m).a = l /\ mk_imax_raw(l, m).b = m
BY DEF Zero, mk_param, mk_succ, mk_max_raw, mk_imax_raw

LEMMA LevelsClosed ==
  /\ Zero \in Level
  /\ \A p \in Params : mk_param(p) \in Level
  /\ \A l \in Level : mk_succ(l) \in Level
  /\ \A l, m \in Level : mk_max_raw(l, m) \in Level /\ mk_imax_raw(l, m) \in Level
<1>1. Zero \in Level /\ \A p \in Params : mk_param(p) \in Level
  BY NextDepth DEF Level, Grow
<1>2. ASSUME NEW l \in Level, NEW m \in Level
      PROVE  \E n \in Nat : l \in OfDepth(n) /\ m \in OfDepth(n)
  <2>1. PICK i \in Nat, j \in Nat : l \in OfDepth(i) /\ m \in OfDepth(j)
    BY DEF Level
  <2>2. l \in OfDepth(i + j) /\ m \in OfDepth(j + i)
    BY <2>1, Deeper
  <2> QED BY <2>2
<1>3. ASSUME NEW l \in Level, NEW m \in Level
      PROVE  mk_succ(l) \in Level /\ mk_max_raw(l, m) \in Level /\ mk_imax_raw(l, m) \in Level
  <2>1. PICK n \in Nat : l \in OfDepth(n) /\ m \in OfDepth(n)
    BY <1>2
  <2>2. {mk_succ(l), mk_max_raw(l, m), mk_imax_raw(l, m)} \subseteq OfDepth(n + 1)
    BY <2>1, NextDepth DEF Grow
  <2> QED BY <2>2 DEF Level
<1> QED BY <1>1, <1>3

LEMMA Grown ==
  ASSUME NEW S, NEW l \in Grow(S)
  PROVE  \/ l = Zero
         \/ \E p \in Params : l = mk_param(p)
         \/ \E m \in S : l = mk_succ(m)
         \/ \E m \in S, m2 \in S : l = mk_max_raw(m, m2) \/ l = mk_imax_raw(m, m2)
BY DEF Grow

LEMMA LevelInduction ==
  ASSUME NEW T \in SUBSET Level,
         Zero \in T,
         \A p \in Params : mk_param(p) \in T,
         \A l \in T : mk_succ(l) \in T,
         \A l, m \in T : mk_max_raw(l, m) \in T /\ mk_imax_raw(l, m) \in T
  PROVE  T = Level
<1> DEFINE U == {n \in Nat : OfDepth(n) \subseteq T}
<1>1. \A S : S \subseteq T => Grow(S) \subseteq T
  BY DEF Grow
<1>2. 0 \in U
  BY <1>1, NextDepth
<1>3. ASSUME NEW n \in U PROVE n + 1 \in U
  BY <1>1, NextDepth
<1>4. U = Nat
  BY <1>2, <1>3, Induction, Zenon
<1> QED BY <1>4 DEF Level

\* Every level is made by one constructor, of levels.
LEMMA Cases ==
  ASSUME NEW l \in Level
  PROVE  \/ l = Zero
         \/ \E p \in Params : l = mk_param(p)
         \/ \E m \in Level : l = mk_succ(m)
         \/ \E m \in Level, m2 \in Level : l = mk_max_raw(m, m2)
         \/ \E m \in Level, m2 \in Level : l = mk_imax_raw(m, m2)
<1>1. PICK n \in Nat : l \in OfDepth(n)
  BY DEF Level
<1>2. PICK S : S \subseteq Level /\ l \in Grow(S)
  <2>1. CASE n = 0
    BY <1>1, <2>1, NextDepth
  <2>2. CASE n # 0
    <3>1. n - 1 \in Nat /\ (n - 1) + 1 = n
      BY <2>2
    <3>2. l \in Grow(OfDepth(n - 1)) /\ OfDepth(n - 1) \subseteq Level
      BY <1>1, <3>1, NextDepth DEF Level
    <3> QED BY <3>2
  <2> QED BY <2>1, <2>2
<1> QED BY <1>2, Grown

LEMMA ByKind ==
  ASSUME NEW l \in Level
  PROVE  /\ l.k \in 0..4
         /\ l.k = 0 <=> l = Zero
         /\ l.k = 1 => l.a \in Level /\ l = mk_succ(l.a)
         /\ l.k = 2 => l.a \in Level /\ l.b \in Level /\ l = mk_max_raw(l.a, l.b)
         /\ l.k = 3 => l.a \in Level /\ l.b \in Level /\ l = mk_imax_raw(l.a, l.b)
         /\ l.k = 4 => l.p \in Params /\ l = mk_param(l.p)
BY Cases, Shapes

(***************************************************************************)
(* The recursive functions.                                                *)
(***************************************************************************)

Substitutions == UNION {[D -> Level] : D \in SUBSET Params}

\* Each function is what its definition computes from its calls.
Recursion ==
  /\ \A l \in Level, n \in Nat : mk_succ_n(l, n) = MkSuccN(l, n)
  /\ \A l \in Level :
       /\ to_offset(l) = ToOffset(l)
       /\ is_never_zero(l) <=> IsNeverZero(l)
       /\ push_max_args(l) = PushMaxArgs(l)
       /\ normalize(l) = Normalized(l)
       /\ lvl_zero(l) <=> LvlZero(l)
       /\ params_of(l) = ParamsOf(l)
       /\ parts(l) = Parts(l)
  /\ \A l, m \in Level : (is_norm_lt(l, m) <=> IsNormLt(l, m)) /\ (is_geq(l, m) <=> IsGeq(l, m))
  /\ \A s \in Seq(Level) : last_of_base(s) = LastOfBase(s) /\ all_args(s) = AllArgs(s)
  /\ \A s \in Seq(Level) \ {<<>>} : mk_max_list(s) = MkMaxList(s)
  /\ \A l \in Level, f \in Assignments : value(l, f) = ValueOf(l, f)
  /\ \A l \in Level, f \in Substitutions : instantiate_level_params(l, f) = Instantiated(l, f)

LEMMA ValueFacts ==
  ASSUME Recursion, NEW f \in Assignments
  PROVE  /\ value(Zero, f) = 0
         /\ \A p \in Params : value(mk_param(p), f) = f[p] /\ f[p] \in Nat
         /\ \A l \in Level : value(mk_succ(l), f) = value(l, f) + 1
         /\ \A l, m \in Level :
              /\ value(mk_max_raw(l, m), f) =
                   IF value(l, f) >= value(m, f) THEN value(l, f) ELSE value(m, f)
              /\ value(mk_imax_raw(l, m), f) =
                   IF value(m, f) = 0 THEN 0
                   ELSE IF value(l, f) >= value(m, f) THEN value(l, f) ELSE value(m, f)
<1>1. \A l \in Level : value(l, f) = ValueOf(l, f)
  BY DEF Recursion
<1>2. \A p \in Params : f[p] \in Nat
  BY LevelsAssumption DEF Assignments
<1> QED BY <1>1, <1>2, Shapes, LevelsClosed DEF ValueOf

LEMMA ValueIsNat ==
  ASSUME Recursion, NEW f \in Assignments, NEW l \in Level
  PROVE  value(l, f) \in Nat
<1> DEFINE T == {m \in Level : value(m, f) \in Nat}
<1> HIDE DEF T
<1>1. Zero \in T /\ \A p \in Params : mk_param(p) \in T
  <2>1. value(Zero, f) = 0 /\ \A p \in Params : value(mk_param(p), f) = f[p] /\ f[p] \in Nat
    BY ValueFacts
  <2> QED BY <2>1, LevelsClosed DEF T
<1>2. \A m \in T : mk_succ(m) \in T
  <2> TAKE m \in T
  <2>1. m \in Level /\ value(m, f) \in Nat
    BY DEF T
  <2>2. value(mk_succ(m), f) = value(m, f) + 1
    BY <2>1, ValueFacts
  <2> QED BY <2>1, <2>2, LevelsClosed DEF T
<1>3. \A m, m2 \in T : mk_max_raw(m, m2) \in T /\ mk_imax_raw(m, m2) \in T
  <2> TAKE m, m2 \in T
  <2>1. m \in Level /\ value(m, f) \in Nat /\ m2 \in Level /\ value(m2, f) \in Nat
    BY DEF T
  <2>2. value(mk_max_raw(m, m2), f) \in Nat /\ value(mk_imax_raw(m, m2), f) \in Nat
    BY <2>1, ValueFacts
  <2> QED BY <2>1, <2>2, LevelsClosed DEF T
<1>4. T = Level
  <2>1. T \in SUBSET Level
    BY DEF T
  <2> QED BY <2>1, <1>1, <1>2, <1>3, LevelInduction
<1> QED BY <1>4 DEF T

LEMMA OffsetFacts ==
  ASSUME Recursion, NEW l \in Level
  PROVE  /\ l.k # 1 => to_offset(l) = [base |-> l, n |-> 0]
         /\ l.k = 1 => to_offset(l) = [to_offset(l.a) EXCEPT !.n = @ + 1]
BY DEF Recursion, ToOffset, is_succ

Offset == [base : {l \in Level : l.k # 1}, n : Nat]

LEMMA OffsetType ==
  ASSUME Recursion, NEW l \in Level
  PROVE  to_offset(l) \in Offset
<1> DEFINE T == {m \in Level : to_offset(m) \in Offset}
<1>1. \A m \in Level : m.k # 1 => m \in T
  BY OffsetFacts DEF Offset
<1>2. \A m \in T : mk_succ(m) \in T
  <2> TAKE m \in T
  <2>1. mk_succ(m) \in Level /\ mk_succ(m).k = 1 /\ mk_succ(m).a = m
    BY Shapes, LevelsClosed
  <2>2. to_offset(mk_succ(m)) = [to_offset(m) EXCEPT !.n = @ + 1]
    BY <2>1, OffsetFacts
  <2> QED BY <2>1, <2>2 DEF Offset
<1>3. T = Level
  <2> HIDE DEF T
  <2>1. T \in SUBSET Level
    BY DEF T
  <2> QED BY <2>1, <1>1, <1>2, LevelInduction, LevelsClosed, Shapes
<1> QED BY <1>3

LEMMA OffsetValue ==
  ASSUME Recursion, NEW l \in Level, NEW f \in Assignments
  PROVE  value(l, f) = value(to_offset(l).base, f) + to_offset(l).n
<1> DEFINE T == {m \in Level : value(m, f) = value(to_offset(m).base, f) + to_offset(m).n}
<1>1. \A m \in Level : m.k # 1 => m \in T
  BY OffsetFacts, ValueIsNat
<1>2. \A m \in T : mk_succ(m) \in T
  <2> TAKE m \in T
  <2>1. mk_succ(m) \in Level /\ mk_succ(m).k = 1 /\ mk_succ(m).a = m
    BY Shapes, LevelsClosed
  <2>2. to_offset(mk_succ(m)) = [to_offset(m) EXCEPT !.n = @ + 1] /\ to_offset(m) \in Offset
    BY <2>1, OffsetFacts, OffsetType
  <2>3. /\ to_offset(mk_succ(m)).base = to_offset(m).base
        /\ to_offset(mk_succ(m)).n = to_offset(m).n + 1
    BY <2>2 DEF Offset
  <2>4. to_offset(m).base \in Level /\ to_offset(m).n \in Nat
    BY <2>2 DEF Offset
  <2> QED BY <2>1, <2>3, <2>4, ValueFacts, ValueIsNat
<1>3. T = Level
  <2> HIDE DEF T
  <2>1. T \in SUBSET Level
    BY DEF T
  <2> QED BY <2>1, <1>1, <1>2, LevelInduction, LevelsClosed, Shapes
<1> QED BY <1>3

\* A level is known by its base and its offset.
LEMMA OffsetInjective ==
  ASSUME Recursion, NEW l \in Level, NEW m \in Level, to_offset(l) = to_offset(m)
  PROVE  l = m
<1> DEFINE T == {x1 \in Level : \A x2 \in Level : to_offset(x1) = to_offset(x2) => x1 = x2}
<1>0. \A x1 \in Level : /\ x1.k # 1 => to_offset(x1).n = 0 /\ to_offset(x1).base = x1
                        /\ x1.k = 1 => to_offset(x1).n # 0
  <2> TAKE x1 \in Level
  <2>1. CASE x1.k # 1
    BY <2>1, OffsetFacts
  <2>2. CASE x1.k = 1
    <3>1. to_offset(x1.a) \in Offset /\ x1.a \in Level
      BY <2>2, OffsetType, ByKind
    <3> QED BY <3>1, <2>2, OffsetFacts DEF Offset
  <2> QED BY <2>1, <2>2
<1>1. \A x1 \in Level : x1.k # 1 => x1 \in T
  BY <1>0
<1>2. \A x1 \in T : mk_succ(x1) \in T
  <2> SUFFICES ASSUME NEW x1 \in T, NEW x2 \in Level, to_offset(mk_succ(x1)) = to_offset(x2)
               PROVE  mk_succ(x1) \in Level /\ mk_succ(x1) = x2
    BY LevelsClosed
  <2>1. mk_succ(x1) \in Level /\ mk_succ(x1).k = 1 /\ mk_succ(x1).a = x1
    BY Shapes, LevelsClosed
  <2>2. x2.k = 1 /\ x2.a \in Level /\ x2 = mk_succ(x2.a)
    BY <2>1, <1>0, ByKind
  <2>3. [to_offset(x1) EXCEPT !.n = @ + 1] = [to_offset(x2.a) EXCEPT !.n = @ + 1]
    BY <2>1, <2>2, OffsetFacts
  <2>4. to_offset(x1) \in Offset /\ to_offset(x2.a) \in Offset
    BY <2>2, OffsetType
  <2>5. to_offset(x1) = to_offset(x2.a)
    BY <2>3, <2>4 DEF Offset
  <2> QED BY <2>1, <2>2, <2>5
<1>3. T = Level
  <2> HIDE DEF T
  <2>1. T \in SUBSET Level
    BY DEF T
  <2> QED BY <2>1, <1>1, <1>2, LevelInduction, LevelsClosed, Shapes
<1> QED BY <1>3

(***************************************************************************)
(* The constructors keep the value.                                        *)
(***************************************************************************)

Larger(v, w) == IF v >= w THEN v ELSE w

LEMMA SuccN ==
  ASSUME Recursion, NEW n \in Nat, NEW l \in Level
  PROVE  /\ mk_succ_n(l, n) \in Level
         /\ \A f \in Assignments : value(mk_succ_n(l, n), f) = value(l, f) + n
         /\ n = 0 => mk_succ_n(l, n) = l
<1> DEFINE P(i, m) == /\ mk_succ_n(m, i) \in Level
                      /\ \A f \in Assignments : value(mk_succ_n(m, i), f) = value(m, f) + i
                      /\ i = 0 => mk_succ_n(m, i) = m
           T == {i \in Nat : \A m \in Level : P(i, m)}
<1>1. 0 \in T
  <2>1. \A m \in Level : mk_succ_n(m, 0) = m
    BY DEF Recursion, MkSuccN
  <2> QED BY <2>1, ValueIsNat
<1>2. ASSUME NEW i \in T PROVE i + 1 \in T
  <2> SUFFICES ASSUME NEW m \in Level PROVE P(i + 1, m)
    OBVIOUS
  <2>1. mk_succ_n(m, i + 1) = mk_succ_n(mk_succ(m), i)
    BY DEF Recursion, MkSuccN
  <2>2. mk_succ(m) \in Level
    BY LevelsClosed
  <2>3. P(i, mk_succ(m))
    BY <2>2
  <2>4. \A f \in Assignments : value(mk_succ(m), f) = value(m, f) + 1 /\ value(m, f) \in Nat
    BY ValueFacts, ValueIsNat
  <2> QED BY <2>1, <2>3, <2>4
<1>3. T = Nat
  <2> HIDE DEF T
  <2>1. T \in SUBSET Nat
    BY DEF T
  <2> QED BY <2>1, <1>1, <1>2, Induction
<1> QED BY <1>3

LEMMA ExplicitValue ==
  ASSUME Recursion, NEW l \in Level, is_explicit(l), NEW f \in Assignments
  PROVE  value(l, f) = to_offset(l).n
<1>1. to_offset(l) \in Offset /\ to_offset(l).base = Zero
  BY OffsetType, ByKind DEF is_explicit, is_zero, Offset
<1> QED BY <1>1, OffsetValue, ValueFacts DEF Offset

LEMMA NeverZero ==
  ASSUME Recursion, NEW l \in Level, is_never_zero(l), NEW f \in Assignments
  PROVE  value(l, f) > 0
<1> DEFINE T == {m \in Level : is_never_zero(m) => value(m, f) > 0}
<1>0. \A m \in Level : (is_never_zero(m) <=> IsNeverZero(m)) /\ value(m, f) \in Nat
  BY ValueIsNat DEF Recursion
<1>1. Zero \in T /\ \A p \in Params : mk_param(p) \in T
  BY <1>0, LevelsClosed, Shapes DEF IsNeverZero
<1>2. \A m \in T : mk_succ(m) \in T
  <2> TAKE m \in T
  <2>1. value(mk_succ(m), f) = value(m, f) + 1
    BY ValueFacts
  <2> QED BY <2>1, <1>0, LevelsClosed
<1>3. \A m, m2 \in T : mk_max_raw(m, m2) \in T /\ mk_imax_raw(m, m2) \in T
  <2> TAKE m, m2 \in T
  <2>1. is_never_zero(mk_max_raw(m, m2)) => is_never_zero(m) \/ is_never_zero(m2)
    BY <1>0, LevelsClosed, Shapes DEF IsNeverZero
  <2>2. is_never_zero(mk_imax_raw(m, m2)) => is_never_zero(m2)
    BY <1>0, LevelsClosed, Shapes DEF IsNeverZero
  <2>3. /\ value(mk_max_raw(m, m2), f) =
             IF value(m, f) >= value(m2, f) THEN value(m, f) ELSE value(m2, f)
        /\ value(mk_imax_raw(m, m2), f) =
             IF value(m2, f) = 0 THEN 0
             ELSE IF value(m, f) >= value(m2, f) THEN value(m, f) ELSE value(m2, f)
    BY ValueFacts
  <2> QED BY <2>1, <2>2, <2>3, <1>0, LevelsClosed
<1>4. T = Level
  <2> HIDE DEF T
  <2>1. T \in SUBSET Level
    BY DEF T
  <2> QED BY <2>1, <1>1, <1>2, <1>3, LevelInduction
<1> QED BY <1>4

\* The larger of two levels, whichever simplification applies (level.cpp:72).
LEMMA MaxValue ==
  ASSUME Recursion, NEW l \in Level, NEW m \in Level
  PROVE  /\ mk_max_s(l, m) \in Level
         /\ \A f \in Assignments : value(mk_max_s(l, m), f) = Larger(value(l, f), value(m, f))
<1>1. mk_max_s(l, m) \in {l, m, mk_max_raw(l, m)}
  BY DEF mk_max_s
<1>2. mk_max_s(l, m) \in Level
  BY <1>1, LevelsClosed
<1> SUFFICES ASSUME NEW f \in Assignments
             PROVE  value(mk_max_s(l, m), f) = Larger(value(l, f), value(m, f))
  BY <1>2
<1> DEFINE v == value(l, f)
           w == value(m, f)
           p == to_offset(l)
           q == to_offset(m)
<1>3. v \in Nat /\ w \in Nat /\ p \in Offset /\ q \in Offset
  BY ValueIsNat, OffsetType
<1>4. CASE is_explicit(l) /\ is_explicit(m)
  <2>1. v = p.n /\ w = q.n /\ mk_max_s(l, m) = IF p.n >= q.n THEN l ELSE m
    BY <1>4, ExplicitValue DEF mk_max_s
  <2> QED BY <2>1, <1>3 DEF Larger
<1>5. CASE ~(is_explicit(l) /\ is_explicit(m)) /\ (l = m \/ is_zero(m))
  <2>1. mk_max_s(l, m) = l
    BY <1>5 DEF mk_max_s
  <2>2. l = m \/ w = 0
    BY <1>5, ByKind, ValueFacts DEF is_zero
  <2> QED BY <2>1, <2>2, <1>3 DEF Larger
<1>6. CASE ~(is_explicit(l) /\ is_explicit(m)) /\ ~(l = m \/ is_zero(m)) /\ is_zero(l)
  <2>1. v = 0 /\ mk_max_s(l, m) = m
    BY <1>6, ByKind, ValueFacts DEF mk_max_s, is_zero
  <2> QED BY <2>1, <1>3 DEF Larger
<1>7. CASE /\ ~(is_explicit(l) /\ is_explicit(m)) /\ ~(l = m \/ is_zero(m)) /\ ~is_zero(l)
           /\ is_max(m) /\ l \in {m.a, m.b}
  <2>1. mk_max_s(l, m) = m
    BY <1>7 DEF mk_max_s
  <2>2. m.a \in Level /\ m.b \in Level /\ m = mk_max_raw(m.a, m.b)
    BY <1>7, ByKind DEF is_max
  <2>3. w = IF value(m.a, f) >= value(m.b, f) THEN value(m.a, f) ELSE value(m.b, f)
    BY <2>2, ValueFacts
  <2>4. value(m.a, f) \in Nat /\ value(m.b, f) \in Nat
    BY <2>2, ValueIsNat
  <2> QED BY <2>1, <2>3, <2>4, <1>7, <1>3 DEF Larger
<1>8. CASE /\ ~(is_explicit(l) /\ is_explicit(m)) /\ ~(l = m \/ is_zero(m)) /\ ~is_zero(l)
           /\ ~(is_max(m) /\ l \in {m.a, m.b})
  <2>1. mk_max_s(l, m) = IF p.base = q.base THEN IF p.n > q.n THEN l ELSE m ELSE mk_max_raw(l, m)
    BY <1>8 DEF mk_max_s
  <2>2. v = value(p.base, f) + p.n /\ w = value(q.base, f) + q.n
    BY OffsetValue
  <2>3. p.n \in Nat /\ q.n \in Nat /\ value(p.base, f) \in Nat
    BY <1>3, ValueIsNat DEF Offset
  <2>4. value(mk_max_raw(l, m), f) = IF v >= w THEN v ELSE w
    BY ValueFacts
  <2> QED BY <2>1, <2>2, <2>3, <2>4, <1>3 DEF Larger
<1> QED BY <1>4, <1>5, <1>6, <1>7, <1>8

\* The sort of a Pi (level.cpp:83).
LEMMA IMaxValue ==
  ASSUME Recursion, NEW l \in Level, NEW m \in Level
  PROVE  /\ mk_imax_s(l, m) \in Level
         /\ \A f \in Assignments :
              value(mk_imax_s(l, m), f) = IF value(m, f) = 0 THEN 0 ELSE Larger(value(l, f), value(m, f))
<1>1. mk_imax_s(l, m) \in {mk_max_s(l, m), l, m, mk_imax_raw(l, m)}
  BY DEF mk_imax_s
<1>2. mk_imax_s(l, m) \in Level
  BY <1>1, MaxValue, LevelsClosed
<1> SUFFICES ASSUME NEW f \in Assignments
             PROVE  value(mk_imax_s(l, m), f) = IF value(m, f) = 0 THEN 0 ELSE Larger(value(l, f), value(m, f))
  BY <1>2
<1>3. value(l, f) \in Nat /\ value(m, f) \in Nat
  BY ValueIsNat
<1>4. CASE is_never_zero(m)
  BY <1>4, <1>3, MaxValue, NeverZero DEF mk_imax_s
<1>5. CASE ~is_never_zero(m) /\ (is_zero(m) \/ is_zero(l) \/ l = mk_succ(Zero))
  <2>1. mk_imax_s(l, m) = m
    BY <1>5 DEF mk_imax_s
  <2>2. /\ value(Zero, f) = 0
        /\ value(mk_succ(Zero), f) = value(Zero, f) + 1
    BY ValueFacts, LevelsClosed
  <2>3. value(m, f) = 0 \/ value(l, f) = 0 \/ value(l, f) = 1
    BY <2>2, <1>5, ByKind DEF is_zero
  <2> QED BY <2>1, <2>3, <1>3 DEF Larger
<1>6. CASE ~is_never_zero(m) /\ ~(is_zero(m) \/ is_zero(l) \/ l = mk_succ(Zero))
  <2>1. mk_imax_s(l, m) = IF l = m THEN l ELSE mk_imax_raw(l, m)
    BY <1>6 DEF mk_imax_s
  <2>2. value(mk_imax_raw(l, m), f) =
          IF value(m, f) = 0 THEN 0
          ELSE IF value(l, f) >= value(m, f) THEN value(l, f) ELSE value(m, f)
    BY ValueFacts
  <2> QED BY <2>1, <2>2, <1>3 DEF Larger
<1> QED BY <1>4, <1>5, <1>6

(***************************************************************************)
(* Lists of levels.                                                        *)
(***************************************************************************)

\* The parts of a level are less deep than it.
LEMMA Smaller ==
  ASSUME NEW n \in Nat, NEW l \in OfDepth(n), l.k \in 1..3
  PROVE  /\ n > 0
         /\ l.a \in OfDepth(n - 1)
         /\ l.k # 1 => l.b \in OfDepth(n - 1)
<1>1. PICK S : l \in Grow(S) /\ IF n = 0 THEN S = {} ELSE S = OfDepth(n - 1)
  <2>1. CASE n = 0
    BY <2>1, NextDepth
  <2>2. CASE n # 0
    <3>1. n - 1 \in Nat /\ (n - 1) + 1 = n
      BY <2>2
    <3> QED BY <3>1, <2>2, NextDepth
  <2> QED BY <2>1, <2>2
<1>2. \/ \E m \in S : l = mk_succ(m)
      \/ \E m \in S, m2 \in S : l = mk_max_raw(m, m2) \/ l = mk_imax_raw(m, m2)
  BY <1>1, Grown, Shapes
<1>3. l.a \in S /\ (l.k # 1 => l.b \in S)
  BY <1>2, Shapes
<1> QED BY <1>1, <1>3

LEMMA DepthIsLevel ==
  ASSUME NEW n \in Nat
  PROVE  OfDepth(n) \subseteq Level /\ OfDepth(n) \subseteq OfDepth(n + 1)
BY Deeper DEF Level

LEMMA BaseDepth ==
  ASSUME Recursion, NEW l \in Level, NEW n \in Nat, l \in OfDepth(n)
  PROVE  to_offset(l).base \in OfDepth(n)
<1> DEFINE T == {m \in Level : \A i \in Nat : m \in OfDepth(i) => to_offset(m).base \in OfDepth(i)}
<1>1. \A m \in Level : m.k # 1 => m \in T
  BY OffsetFacts
<1>2. \A m \in T : mk_succ(m) \in T
  <2> SUFFICES ASSUME NEW m \in T, NEW i \in Nat, mk_succ(m) \in OfDepth(i)
               PROVE  to_offset(mk_succ(m)).base \in OfDepth(i)
    BY LevelsClosed
  <2>1. mk_succ(m) \in Level /\ mk_succ(m).k = 1 /\ mk_succ(m).a = m
    BY Shapes, LevelsClosed
  <2>2. to_offset(mk_succ(m)).base = to_offset(m).base
    BY <2>1, OffsetFacts, OffsetType DEF Offset
  <2>3. i > 0 /\ m \in OfDepth(i - 1)
    BY <2>1, Smaller
  <2>4. to_offset(m).base \in OfDepth(i - 1) /\ OfDepth(i - 1) \subseteq OfDepth((i - 1) + 1)
    BY <2>3, DepthIsLevel
  <2> QED BY <2>2, <2>3, <2>4
<1>3. T = Level
  <2> HIDE DEF T
  <2>1. T \in SUBSET Level
    BY DEF T
  <2> QED BY <2>1, <1>1, <1>2, LevelInduction, LevelsClosed, Shapes
<1> QED BY <1>3

\* No level of the list has a value above v: the largest value of a list is known by its bounds.
Bounds(v, s, f) == \A i \in 1..Len(s) : value(s[i], f) <= v

List == Seq(Level) \ {<<>>}

LEMMA BoundsOfTwo ==
  ASSUME NEW s \in Seq(Level), NEW t \in Seq(Level), NEW f \in Assignments, NEW v \in Nat
  PROVE  Bounds(v, s \o t, f) <=> Bounds(v, s, f) /\ Bounds(v, t, f)
<1>1. /\ Len(s \o t) = Len(s) + Len(t)
      /\ \A i \in 1..Len(s) + Len(t) : (s \o t)[i] = IF i <= Len(s) THEN s[i] ELSE t[i - Len(s)]
      /\ Len(s) \in Nat /\ Len(t) \in Nat
  BY ConcatProperties, LenProperties
<1>2. ASSUME Bounds(v, s \o t, f) PROVE Bounds(v, s, f) /\ Bounds(v, t, f)
  <2>1. \A i \in 1..Len(s) : i \in 1..Len(s \o t) /\ (s \o t)[i] = s[i]
    BY <1>1
  <2>2. \A i \in 1..Len(t) : Len(s) + i \in 1..Len(s \o t) /\ (s \o t)[Len(s) + i] = t[i]
    BY <1>1
  <2> QED BY <2>1, <2>2, <1>2 DEF Bounds
<1>3. ASSUME Bounds(v, s, f), Bounds(v, t, f), NEW i \in 1..Len(s \o t)
      PROVE  value((s \o t)[i], f) <= v
  <2>1. CASE i <= Len(s)
    BY <2>1, <1>1, <1>3 DEF Bounds
  <2>2. CASE i > Len(s)
    BY <2>2, <1>1, <1>3 DEF Bounds
  <2> QED BY <2>1, <2>2, <1>1
<1> QED BY <1>2, <1>3 DEF Bounds

LEMMA BoundsOfOne ==
  ASSUME NEW l, NEW f, NEW v
  PROVE  Bounds(v, <<l>>, f) <=> value(l, f) <= v
BY DEF Bounds

LEMMA BoundsOfMax ==
  ASSUME Recursion, NEW l \in Level, NEW m \in Level, NEW f \in Assignments, NEW v \in Nat
  PROVE  /\ value(mk_max_raw(l, m), f) <= v <=> value(l, f) <= v /\ value(m, f) <= v
         /\ value(mk_max_s(l, m), f) <= v <=> value(l, f) <= v /\ value(m, f) <= v
<1>1. value(l, f) \in Nat /\ value(m, f) \in Nat
  BY ValueIsNat
<1>2. value(mk_max_raw(l, m), f) = Larger(value(l, f), value(m, f))
  BY ValueFacts DEF Larger
<1>3. value(mk_max_s(l, m), f) = Larger(value(l, f), value(m, f))
  BY MaxValue
<1> QED BY <1>1, <1>2, <1>3 DEF Larger

\* The flattened arguments of a maximum are its parts.
HasParts(S) == \A l, m \in Level : mk_max_raw(l, m) \in S => l \in S /\ m \in S

LEMMA Pushed ==
  ASSUME Recursion, NEW S \in SUBSET Level, HasParts(S),
         NEW l0 \in S
  PROVE  push_max_args(l0) \in Seq(S) \ {<<>>}
<1> DEFINE T == {m \in Level : m \in S => push_max_args(m) \in Seq(S) \ {<<>>}}
<1>1. \A m \in Level : m.k # 2 => m \in T
  <2> TAKE m \in Level
  <2>1. m.k # 2 => push_max_args(m) = <<m>>
    BY DEF Recursion, PushMaxArgs, is_max
  <2>2. m \in S => <<m>> \in Seq(S) /\ <<m>> # <<>>
    OBVIOUS
  <2> QED BY <2>1, <2>2
<1>2. ASSUME NEW m \in T, NEW m2 \in T, mk_max_raw(m, m2) \in S
      PROVE  push_max_args(mk_max_raw(m, m2)) \in Seq(S) \ {<<>>}
  <2>1. /\ mk_max_raw(m, m2) \in Level /\ mk_max_raw(m, m2).k = 2
        /\ mk_max_raw(m, m2).a = m /\ mk_max_raw(m, m2).b = m2
    BY <1>2, Shapes
  <2>2. push_max_args(mk_max_raw(m, m2)) = PushMaxArgs(mk_max_raw(m, m2))
    BY <2>1 DEF Recursion
  <2>3. push_max_args(mk_max_raw(m, m2)) = push_max_args(m) \o push_max_args(m2)
    BY <2>1, <2>2, Zenon DEF PushMaxArgs, is_max
  <2>4. push_max_args(m) \in Seq(S) \ {<<>>} /\ push_max_args(m2) \in Seq(S) \ {<<>>}
    BY <1>2 DEF HasParts
  <2> QED BY <2>3, <2>4, ConcatProperties, ConcatEqualIffEmpty
<1>3. \A m, m2 \in T : mk_max_raw(m, m2) \in T
  BY <1>2, LevelsClosed
<1>4. T = Level
  <2> HIDE DEF T
  <2>1. T \in SUBSET Level
    BY DEF T
  <2>2. Zero \in T /\ (\A p \in Params : mk_param(p) \in T) /\ (\A m \in T : mk_succ(m) \in T)
    BY <2>1, <1>1, LevelsClosed, Shapes
  <2>3. \A m, m2 \in T : mk_imax_raw(m, m2) \in T
    BY <2>1, <1>1, LevelsClosed, Shapes
  <2> QED BY <2>1, <2>2, <2>3, <1>3, LevelInduction
<1> QED BY <1>4

LEMMA PushedBounds ==
  ASSUME Recursion, NEW l \in Level
  PROVE  /\ push_max_args(l) \in List
         /\ \A f \in Assignments, v \in Nat : Bounds(v, push_max_args(l), f) <=> value(l, f) <= v
<1> DEFINE P(m) == \A f \in Assignments, v \in Nat :
                     Bounds(v, push_max_args(m), f) <=> value(m, f) <= v
           T == {m \in Level : P(m)}
<1>0. \A m \in Level : push_max_args(m) \in List
  BY Pushed DEF List, HasParts
<1>1. ASSUME NEW m \in Level, m.k # 2 PROVE m \in T
  <2>1. push_max_args(m) = <<m>>
    BY <1>1 DEF Recursion, PushMaxArgs, is_max
  <2> QED BY <2>1, BoundsOfOne
<1>2. ASSUME NEW m \in T, NEW m2 \in T PROVE mk_max_raw(m, m2) \in T
  <2>1. /\ mk_max_raw(m, m2) \in Level /\ mk_max_raw(m, m2).k = 2
        /\ mk_max_raw(m, m2).a = m /\ mk_max_raw(m, m2).b = m2
    BY LevelsClosed, Shapes
  <2>2. push_max_args(mk_max_raw(m, m2)) = PushMaxArgs(mk_max_raw(m, m2))
    BY <2>1 DEF Recursion
  <2>3. push_max_args(mk_max_raw(m, m2)) = push_max_args(m) \o push_max_args(m2)
    BY <2>1, <2>2, Zenon DEF PushMaxArgs, is_max
  <2>4. push_max_args(m) \in Seq(Level) /\ push_max_args(m2) \in Seq(Level)
    BY <1>0 DEF List
  <2>5. ASSUME NEW f \in Assignments, NEW v \in Nat
        PROVE  Bounds(v, push_max_args(mk_max_raw(m, m2)), f) <=> value(mk_max_raw(m, m2), f) <= v
    <3>1. Bounds(v, push_max_args(m) \o push_max_args(m2), f)
            <=> Bounds(v, push_max_args(m), f) /\ Bounds(v, push_max_args(m2), f)
      BY <2>4, BoundsOfTwo
    <3>2. value(mk_max_raw(m, m2), f) <= v <=> value(m, f) <= v /\ value(m2, f) <= v
      BY BoundsOfMax
    <3> QED BY <3>1, <3>2, <2>3
  <2> QED BY <2>1, <2>5
<1>3. T = Level
  <2> HIDE DEF T
  <2>1. T \in SUBSET Level
    BY DEF T
  <2> QED BY <2>1, <1>1, <1>2, LevelInduction, LevelsClosed, Shapes
<1> QED BY <1>0, <1>3

LEMMA AllArgsFacts ==
  ASSUME Recursion, NEW s \in Seq(Level)
  PROVE  /\ s = <<>> => all_args(s) = <<>>
         /\ s # <<>> => all_args(s) = push_max_args(normalize(s[1])) \o all_args(Tail(s))
BY DEF Recursion, AllArgs

LEMMA AllArgsIn ==
  ASSUME Recursion, NEW S \in SUBSET Level, HasParts(S), NEW s \in Seq(Level),
         \A i \in 1..Len(s) : normalize(s[i]) \in S
  PROVE  all_args(s) \in Seq(S) /\ (s # <<>> => all_args(s) # <<>>)
<1> DEFINE P(t) == (\A i \in 1..Len(t) : normalize(t[i]) \in S)
                     => all_args(t) \in Seq(S) /\ (t # <<>> => all_args(t) # <<>>)
           T == {n \in Nat : \A t \in Seq(Level) : Len(t) = n => P(t)}
<1>1. 0 \in T
  <2> SUFFICES ASSUME NEW t \in Seq(Level), Len(t) = 0 PROVE P(t)
    OBVIOUS
  <2>1. t = <<>>
    BY EmptySeq
  <2>2. all_args(t) = <<>>
    BY <2>1, AllArgsFacts
  <2>3. all_args(t) \in Seq(S)
    BY <2>2, EmptySeq
  <2> QED BY <2>1, <2>3, Zenon
<1>2. ASSUME NEW n \in T PROVE n + 1 \in T
  <2> SUFFICES ASSUME NEW t \in Seq(Level), Len(t) = n + 1,
                      \A i \in 1..Len(t) : normalize(t[i]) \in S
               PROVE  all_args(t) \in Seq(S) /\ all_args(t) # <<>>
    OBVIOUS
  <2>1. t # <<>>
    BY EmptySeq
  <2>2. /\ Tail(t) \in Seq(Level) /\ Len(Tail(t)) = n
        /\ \A i \in 1..Len(Tail(t)) : Tail(t)[i] = t[i + 1]
    BY <2>1, HeadTailProperties
  <2>3. \A i \in 1..Len(Tail(t)) : normalize(Tail(t)[i]) \in S
    BY <2>2
  <2>4. all_args(Tail(t)) \in Seq(S)
    BY <2>2, <2>3
  <2>5. push_max_args(normalize(t[1])) \in Seq(S) \ {<<>>}
    <3>1. 1 \in 1..Len(t)
      OBVIOUS
    <3> HIDE DEF T
    <3> QED BY <3>1, Pushed
  <2>6. all_args(t) = push_max_args(normalize(t[1])) \o all_args(Tail(t))
    BY <2>1, AllArgsFacts
  <2> HIDE DEF T
  <2> QED BY <2>4, <2>5, <2>6, ConcatProperties, ConcatEqualIffEmpty
<1>3. T = Nat
  <2> HIDE DEF T
  <2>1. T \in SUBSET Nat
    BY DEF T
  <2> QED BY <2>1, <1>1, <1>2, Induction
<1> QED BY <1>3, LenProperties

\* The normal form of l is a level of the same value.
Kept(l) ==
  /\ normalize(l) \in Level
  /\ \A f \in Assignments : value(normalize(l), f) = value(l, f)

LEMMA AllArgsBounds ==
  ASSUME Recursion, NEW s \in Seq(Level), \A i \in 1..Len(s) : Kept(s[i])
  PROVE  /\ all_args(s) \in Seq(Level) /\ (s # <<>> => all_args(s) # <<>>)
         /\ \A f \in Assignments, v \in Nat : Bounds(v, all_args(s), f) <=> Bounds(v, s, f)
<1> DEFINE P(t) == \A f \in Assignments, v \in Nat : Bounds(v, all_args(t), f) <=> Bounds(v, t, f)
           T == {n \in Nat : \A t \in Seq(Level) :
                   Len(t) = n /\ (\A i \in 1..Len(t) : Kept(t[i])) => P(t)}
<1>0. ASSUME NEW t \in Seq(Level), \A i \in 1..Len(t) : Kept(t[i])
      PROVE  all_args(t) \in Seq(Level) /\ (t # <<>> => all_args(t) # <<>>)
  <2>1. HasParts(Level)
    BY DEF HasParts
  <2> QED BY <1>0, <2>1, AllArgsIn DEF Kept
<1>1. 0 \in T
  <2> SUFFICES ASSUME NEW t \in Seq(Level), Len(t) = 0 PROVE P(t)
    OBVIOUS
  <2>1. t = <<>>
    BY EmptySeq
  <2>2. all_args(t) = <<>>
    BY <2>1, AllArgsFacts
  <2> QED BY <2>1, <2>2
<1>2. ASSUME NEW n \in T PROVE n + 1 \in T
  <2> SUFFICES ASSUME NEW t \in Seq(Level), Len(t) = n + 1, \A i \in 1..Len(t) : Kept(t[i]),
                      NEW f \in Assignments, NEW v \in Nat
               PROVE  Bounds(v, all_args(t), f) <=> Bounds(v, t, f)
    OBVIOUS
  <2>1. t # <<>>
    BY EmptySeq
  <2>2. /\ Tail(t) \in Seq(Level) /\ Len(Tail(t)) = n
        /\ \A i \in 1..Len(Tail(t)) : Tail(t)[i] = t[i + 1]
    BY <2>1, HeadTailProperties
  <2>3. \A i \in 1..Len(Tail(t)) : Kept(Tail(t)[i])
    BY <2>2
  <2>4. Bounds(v, all_args(Tail(t)), f) <=> Bounds(v, Tail(t), f)
    BY <2>2, <2>3
  <2>5. all_args(t) = push_max_args(normalize(t[1])) \o all_args(Tail(t))
    BY <2>1, AllArgsFacts
  <2>6. t[1] \in Level /\ Kept(t[1])
    BY <2>2
  <2> HIDE DEF T
  <2>7. Bounds(v, push_max_args(normalize(t[1])), f) <=> value(t[1], f) <= v
    BY <2>6, PushedBounds DEF Kept
  <2>8. Bounds(v, all_args(t), f) <=>
          Bounds(v, push_max_args(normalize(t[1])), f) /\ Bounds(v, all_args(Tail(t)), f)
    <3>1. push_max_args(normalize(t[1])) \in Seq(Level)
      BY <2>6, PushedBounds DEF Kept, List
    <3>2. all_args(Tail(t)) \in Seq(Level)
      BY <2>2, <2>3, <1>0
    <3> QED BY <2>5, <3>1, <3>2, BoundsOfTwo
  <2>9. Bounds(v, t, f) <=> value(t[1], f) <= v /\ Bounds(v, Tail(t), f)
    <3>1. ASSUME value(t[1], f) <= v, Bounds(v, Tail(t), f), NEW i \in 1..Len(t)
          PROVE  value(t[i], f) <= v
      <4>1. CASE i = 1
        BY <4>1, <3>1
      <4>2. CASE i # 1
        <5>1. i - 1 \in 1..Len(Tail(t)) /\ Tail(t)[i - 1] = t[i]
          BY <4>2, <2>2
        <5> QED BY <5>1, <3>1 DEF Bounds
      <4> QED BY <4>1, <4>2
    <3>2. ASSUME Bounds(v, t, f) PROVE value(t[1], f) <= v /\ Bounds(v, Tail(t), f)
      BY <3>2, <2>2 DEF Bounds
    <3> QED BY <3>1, <3>2 DEF Bounds
  <2> QED BY <2>4, <2>7, <2>8, <2>9
<1>3. T = Nat
  <2> HIDE DEF T
  <2>1. T \in SUBSET Nat
    BY DEF T
  <2> QED BY <2>1, <1>1, <1>2, Induction
<1> QED BY <1>0, <1>3, LenProperties

(***************************************************************************)
(* Sorted lists.                                                           *)
(***************************************************************************)

Sorted(s) == \A i, j \in 1..Len(s) : i < j => is_norm_lt(s[i], s[j]) \/ s[i] = s[j]

LEMMA NormLtFacts ==
  ASSUME Recursion, NEW l \in Level, NEW m \in Level, is_norm_lt(l, m)
  PROVE  LET b == to_offset(l).base
             c == to_offset(m).base
         IN /\ b = c => to_offset(l).n < to_offset(m).n
            /\ b # c => b.k <= c.k
<1>1. is_norm_lt(l, m) <=> IsNormLt(l, m)
  BY DEF Recursion
<1>2. to_offset(l).base \in Level /\ to_offset(m).base \in Level
  BY OffsetType DEF Offset
<1>3. to_offset(l).base.k \in 0..4 /\ to_offset(m).base.k \in 0..4
  BY <1>2, ByKind
<1> QED BY <1>1, <1>3 DEF IsNormLt

LEMMA SameBase ==
  ASSUME Recursion, NEW l \in Level, NEW m \in Level, is_norm_lt(l, m) \/ l = m,
         to_offset(l).base = to_offset(m).base, NEW f \in Assignments
  PROVE  value(l, f) <= value(m, f)
<1>1. to_offset(l) \in Offset /\ to_offset(m) \in Offset
  BY OffsetType
<1>2. to_offset(l).n <= to_offset(m).n
  BY <1>1, NormLtFacts DEF Offset
<1>3. value(to_offset(l).base, f) \in Nat
  BY <1>1, ValueIsNat DEF Offset
<1>4. value(l, f) = value(to_offset(l).base, f) + to_offset(l).n
  BY OffsetValue
<1>5. value(m, f) = value(to_offset(m).base, f) + to_offset(m).n
  BY OffsetValue
<1> QED BY <1>1, <1>2, <1>3, <1>4, <1>5 DEF Offset

\* A set of numbers that has every smaller one is an interval.
LEMMA Interval ==
  ASSUME NEW N \in Nat, NEW D \in SUBSET (1..N), \A j \in D, i \in 1..N : i < j => i \in D
  PROVE  IsFiniteSet(D) /\ Cardinality(D) \in 0..N /\ D = 1..Cardinality(D)
<1> DEFINE U == {u \in Nat : \A d \in D : d <= u}
<1>1. N \in U
  OBVIOUS
<1>2. PICK u \in U : \A w \in U : u <= w
  <2> HIDE DEF U
  <2>1. U \in SUBSET Nat /\ U # {}
    BY <1>1 DEF U
  <2> QED BY <2>1, Least
<1>3. u <= N
  BY <1>1, <1>2
<1>4. u = 0 \/ u \in D
  <2> SUFFICES ASSUME u # 0, u \notin D PROVE FALSE
    OBVIOUS
  <2>1. u - 1 \in Nat /\ \A d \in D : d <= u - 1
    OBVIOUS
  <2>2. u - 1 \in U
    BY <2>1
  <2> QED BY <2>2, <1>2
<1>5. D = 1..u
  <2>1. u \in Nat /\ \A d \in D : d <= u /\ d \in 1..N
    BY <1>2
  <2>2. \A i \in 1..u : i \in D
    BY <1>3, <1>4
  <2> HIDE DEF U
  <2>3. \A d \in D : d \in 1..u
    BY <2>1
  <2> QED BY <2>2, <2>3
<1>6. Cardinality(1..u) = u /\ IsFiniteSet(1..u)
  BY FS_Interval
<1> QED BY <1>3, <1>5, <1>6

\* Numbers come first.
LEMMA ExplicitFirst ==
  ASSUME Recursion, NEW s \in Seq(Level), Sorted(s)
  PROVE  LET n == Cardinality(Explicit(s)) IN n \in 0..Len(s) /\ Explicit(s) = 1..n
<1>1. Len(s) \in Nat /\ Explicit(s) \in SUBSET (1..Len(s))
  BY DEF Explicit
<1>2. ASSUME NEW j \in Explicit(s), NEW i \in 1..Len(s), i < j PROVE i \in Explicit(s)
  <2>1. j \in 1..Len(s) /\ is_explicit(s[j]) /\ s[i] \in Level /\ s[j] \in Level
    BY DEF Explicit
  <2>2. is_norm_lt(s[i], s[j]) \/ s[i] = s[j]
    BY <2>1, <1>2 DEF Sorted
  <2>3. to_offset(s[i]).base \in Level /\ to_offset(s[j]).base \in Level
    BY <2>1, OffsetType DEF Offset
  <2>4. to_offset(s[i]).base.k \in 0..4
    BY <2>3, ByKind
  <2>5. to_offset(s[j]).base.k = 0
    BY <2>1 DEF is_explicit, is_zero
  <2>6. to_offset(s[i]).base.k = 0
    BY <2>1, <2>2, <2>4, <2>5, NormLtFacts
  <2> QED BY <2>6 DEF Explicit, is_explicit, is_zero
<1> QED BY <1>1, <1>2, Interval

LEMMA Suffix ==
  ASSUME NEW s \in Seq(Level), NEW i \in 1..Len(s)
  PROVE  LET t == SubSeq(s, i, Len(s))
         IN /\ t \in List /\ Len(t) = Len(s) - i + 1
            /\ \A j \in 1..Len(t) : t[j] = s[i + j - 1]
<1>1. Len(s) \in Nat /\ \A j \in i..Len(s) : s[j] \in Level
  OBVIOUS
<1>2. /\ SubSeq(s, i, Len(s)) \in Seq(Level)
      /\ Len(SubSeq(s, i, Len(s))) = Len(s) - i + 1
      /\ \A j \in 1..(Len(s) - i + 1) : SubSeq(s, i, Len(s))[j] = s[i + j - 1]
  BY <1>1, SubSeqProperties
<1> QED BY <1>1, <1>2 DEF List

\* Of the numbers only the largest matters, and that only if nothing else is as large.
LEMMA DropBounds ==
  ASSUME Recursion, NEW s \in List, Sorted(s)
  PROVE  /\ drop_explicit(s) \in List /\ Sorted(drop_explicit(s))
         /\ \A f \in Assignments, v \in Nat : Bounds(v, drop_explicit(s), f) <=> Bounds(v, s, f)
<1> DEFINE n == Cardinality(Explicit(s))
           covered == \E j \in (n + 1)..Len(s) : to_offset(s[j]).n >= to_offset(s[n]).n
<1>1. CASE n = 0
  BY <1>1 DEF drop_explicit
<1>2. CASE n # 0
  <2> DEFINE i == IF covered THEN n + 1 ELSE n
             t == SubSeq(s, i, Len(s))
  <2>1. s \in Seq(Level) /\ Len(s) \in Nat
    BY DEF List
  <2>2. n \in 1..Len(s) /\ Explicit(s) = 1..n
    BY <1>2, <2>1, ExplicitFirst
  <2>3. drop_explicit(s) = t
    BY <1>2 DEF drop_explicit
  <2> HIDE DEF n
  <2>4. i \in 1..Len(s)
    BY <2>1, <2>2
  <2>5. t \in List /\ Len(t) = Len(s) - i + 1 /\ \A j \in 1..Len(t) : t[j] = s[i + j - 1]
    BY <2>1, <2>4, Suffix
  <2>6. Sorted(t)
    <3> SUFFICES ASSUME NEW j \in 1..Len(t), NEW k \in 1..Len(t), j < k
                 PROVE  is_norm_lt(t[j], t[k]) \/ t[j] = t[k]
      BY DEF Sorted
    <3> HIDE DEF t, i
    <3>1. i + j - 1 \in 1..Len(s) /\ i + k - 1 \in 1..Len(s) /\ i + j - 1 < i + k - 1
      BY <2>1, <2>4, <2>5
    <3> QED BY <3>1, <2>5 DEF Sorted
  <2>7. ASSUME NEW f \in Assignments, NEW v \in Nat, Bounds(v, s, f) PROVE Bounds(v, t, f)
    <3> SUFFICES ASSUME NEW j \in 1..Len(t) PROVE value(t[j], f) <= v
      BY DEF Bounds
    <3> HIDE DEF t, i
    <3>1. i + j - 1 \in 1..Len(s)
      BY <2>1, <2>4, <2>5
    <3> QED BY <3>1, <2>5, <2>7 DEF Bounds
  <2>8. ASSUME NEW f \in Assignments, NEW v \in Nat, Bounds(v, t, f) PROVE Bounds(v, s, f)
    <3>1. \A j \in i..Len(s) : value(s[j], f) <= v
      <4> HIDE DEF t, i
      <4> TAKE j \in i..Len(s)
      <4>1. j - i + 1 \in 1..Len(t) /\ t[j - i + 1] = s[j]
        BY <2>1, <2>4, <2>5
      <4> QED BY <4>1, <2>8 DEF Bounds
    <3>2. \A j \in 1..n : is_explicit(s[j]) /\ s[j] \in Level /\ value(s[j], f) = to_offset(s[j]).n
                          /\ to_offset(s[j]).n \in Nat
      <4> TAKE j \in 1..n
      <4>1. j \in 1..Len(s) /\ is_explicit(s[j])
        BY <2>1, <2>2 DEF Explicit
      <4>2. s[j] \in Level
        BY <2>1, <4>1
      <4> QED BY <4>1, <4>2, ExplicitValue, OffsetType DEF Offset
    <3>3. value(s[n], f) <= v
      <4>1. CASE ~covered
        <5>1. n \in i..Len(s)
          BY <4>1, <2>1, <2>2
        <5> QED BY <5>1, <3>1
      <4>2. CASE covered
        <5>1. PICK j \in (n + 1)..Len(s) : to_offset(s[j]).n >= to_offset(s[n]).n
          BY <4>2
        <5>2. s[j] \in Level /\ value(s[j], f) <= v
          BY <5>1, <4>2, <3>1, <2>1, <2>2
        <5>3. value(s[j], f) = value(to_offset(s[j]).base, f) + to_offset(s[j]).n
          BY <5>2, OffsetValue
        <5>4. to_offset(s[j]) \in Offset
          BY <5>2, OffsetType
        <5>5. value(to_offset(s[j]).base, f) \in Nat
          BY <5>4, ValueIsNat DEF Offset
        <5>6. to_offset(s[n]).n = value(s[n], f) /\ to_offset(s[n]).n \in Nat
          BY <3>2, <2>2
        <5> QED BY <5>1, <5>2, <5>3, <5>4, <5>5, <5>6 DEF Offset
      <4> QED BY <4>1, <4>2
    <3>4. ASSUME NEW j \in 1..Len(s) PROVE value(s[j], f) <= v
      <4>1. CASE j >= i
        BY <4>1, <3>1, <2>1, <2>4
      <4>2. CASE j < i
        <5>1. j \in 1..n /\ n \in 1..n
          BY <4>2, <2>1, <2>2
        <5>2. to_offset(s[j]).base = to_offset(s[n]).base
          <6>1. /\ to_offset(s[j]).base \in Level /\ to_offset(s[j]).base.k = 0
                /\ to_offset(s[n]).base \in Level /\ to_offset(s[n]).base.k = 0
            BY <5>1, <3>2, OffsetType DEF Offset, is_explicit, is_zero
          <6> QED BY <6>1, ByKind
        <5>3. is_norm_lt(s[j], s[n]) \/ s[j] = s[n]
          BY <5>1, <2>1, <2>2 DEF Sorted
        <5>4. value(s[j], f) <= value(s[n], f)
          BY <5>1, <5>2, <5>3, <3>2, SameBase
        <5>5. value(s[j], f) \in Nat /\ value(s[n], f) \in Nat
          BY <5>1, <3>2
        <5> QED BY <5>4, <5>5, <3>3
      <4> QED BY <4>1, <4>2, <2>1, <2>4
    <3> QED BY <3>4 DEF Bounds
  <2> HIDE DEF t
  <2> QED BY <2>3, <2>5, <2>6, <2>7, <2>8
<1> QED BY <1>1, <1>2

\* A list is bounded when its first level and the others are.
LEMMA FirstAndRest ==
  ASSUME NEW s \in List
  PROVE  /\ s[1] \in Level /\ Tail(s) \in Seq(Level) /\ Len(Tail(s)) = Len(s) - 1
         /\ \A i \in 1..Len(Tail(s)) : Tail(s)[i] = s[i + 1]
         /\ Sorted(s) => Sorted(Tail(s))
         /\ \A f, v : Bounds(v, s, f) <=> value(s[1], f) <= v /\ Bounds(v, Tail(s), f)
<1>1. /\ Tail(s) \in Seq(Level) /\ Len(Tail(s)) = Len(s) - 1
      /\ \A i \in 1..Len(Tail(s)) : Tail(s)[i] = s[i + 1]
  BY HeadTailProperties DEF List
<1>2. s \in Seq(Level) /\ Len(s) \in Nat \ {0} /\ s[1] \in Level
  BY EmptySeq DEF List
<1>3. ASSUME Sorted(s), NEW i \in 1..Len(Tail(s)), NEW j \in 1..Len(Tail(s)), i < j
      PROVE  is_norm_lt(Tail(s)[i], Tail(s)[j]) \/ Tail(s)[i] = Tail(s)[j]
  <2>1. i + 1 \in 1..Len(s) /\ j + 1 \in 1..Len(s) /\ i + 1 < j + 1
    BY <1>1, <1>2, <1>3
  <2> QED BY <2>1, <1>1, <1>3 DEF Sorted
<1>4. ASSUME NEW f, NEW v, value(s[1], f) <= v, Bounds(v, Tail(s), f), NEW i \in 1..Len(s)
      PROVE  value(s[i], f) <= v
  <2>1. CASE i = 1
    BY <2>1, <1>4
  <2>2. CASE i # 1
    <3>1. i - 1 \in 1..Len(Tail(s)) /\ Tail(s)[i - 1] = s[i]
      BY <2>2, <1>1, <1>2
    <3> QED BY <3>1, <1>4 DEF Bounds
  <2> QED BY <2>1, <2>2
<1>5. ASSUME NEW f, NEW v, Bounds(v, s, f) PROVE value(s[1], f) <= v /\ Bounds(v, Tail(s), f)
  <2>1. \A i \in 1..Len(Tail(s)) : i + 1 \in 1..Len(s)
    BY <1>1, <1>2
  <2> QED BY <2>1, <1>1, <1>2, <1>5 DEF Bounds
<1> QED BY <1>1, <1>2, <1>3, <1>4, <1>5 DEF Sorted, Bounds

\* Of the levels over one base only the last matters.
LEMMA LastBounds ==
  ASSUME Recursion, NEW s \in List, Sorted(s)
  PROVE  /\ last_of_base(s) \in List
         /\ \A f \in Assignments, v \in Nat : Bounds(v, last_of_base(s), f) <=> Bounds(v, s, f)
<1> DEFINE P(t) == /\ last_of_base(t) \in List
                   /\ \A f \in Assignments, v \in Nat : Bounds(v, last_of_base(t), f) <=> Bounds(v, t, f)
           T == {n \in Nat : \A t \in List : Len(t) = n + 1 /\ Sorted(t) => P(t)}
<1>1. 0 \in T
  <2> SUFFICES ASSUME NEW t \in List, Len(t) = 1 PROVE P(t)
    OBVIOUS
  <2>1. last_of_base(t) = LastOfBase(t)
    BY DEF Recursion, List
  <2>2. last_of_base(t) = t
    BY <2>1 DEF LastOfBase
  <2> QED BY <2>2
<1>2. ASSUME NEW n \in T PROVE n + 1 \in T
  <2> SUFFICES ASSUME NEW t \in List, Len(t) = (n + 1) + 1, Sorted(t) PROVE P(t)
    OBVIOUS
  <2>0. n \in Nat /\ \A t2 \in List : Len(t2) = n + 1 /\ Sorted(t2) => P(t2)
    OBVIOUS
  <2> HIDE DEF T
  <2>1. /\ t[1] \in Level /\ Tail(t) \in Seq(Level) /\ Len(Tail(t)) = n + 1 /\ Sorted(Tail(t))
        /\ \A i \in 1..Len(Tail(t)) : Tail(t)[i] = t[i + 1]
        /\ \A f, v : Bounds(v, t, f) <=> value(t[1], f) <= v /\ Bounds(v, Tail(t), f)
    BY <2>0, FirstAndRest
  <2>2. Tail(t) \in List
    <3>1. Len(Tail(t)) # 0
      BY <2>0, <2>1
    <3> QED BY <3>1, <2>1, EmptySeq DEF List
  <2>3. P(Tail(t))
    BY <2>0, <2>1, <2>2
  <2>4. last_of_base(t) = IF to_offset(t[1]).base = to_offset(t[2]).base
                          THEN last_of_base(Tail(t)) ELSE <<t[1]>> \o last_of_base(Tail(t))
    <3>1. last_of_base(t) = LastOfBase(t)
      BY DEF Recursion, List
    <3>2. ~(Len(t) <= 1)
      BY <2>0
    <3> QED BY <3>1, <3>2, Zenon DEF LastOfBase
  <2>5. t[2] \in Level /\ t[2] = Tail(t)[1] /\ (is_norm_lt(t[1], t[2]) \/ t[1] = t[2])
    <3>1. 1 \in 1..Len(t) /\ 2 \in 1..Len(t) /\ 1 \in 1..Len(Tail(t))
      BY <2>0, <2>1
    <3>2. is_norm_lt(t[1], t[2]) \/ t[1] = t[2]
      BY <3>1 DEF Sorted
    <3> QED BY <3>1, <3>2, <2>1 DEF List
  <2>6. CASE to_offset(t[1]).base = to_offset(t[2]).base
    <3>1. last_of_base(t) = last_of_base(Tail(t))
      BY <2>4, <2>6
    <3>2. ASSUME NEW f \in Assignments, NEW v \in Nat, Bounds(v, Tail(t), f) PROVE value(t[1], f) <= v
      <4>1. value(t[2], f) <= v
        <5>1. 1 \in 1..Len(Tail(t))
          BY <2>0, <2>1
        <5> QED BY <5>1, <3>2, <2>5 DEF Bounds
      <4>2. value(t[1], f) <= value(t[2], f)
        BY <2>1, <2>5, <2>6, SameBase
      <4>3. value(t[1], f) \in Nat /\ value(t[2], f) \in Nat
        BY <2>1, <2>5, ValueIsNat
      <4> QED BY <4>1, <4>2, <4>3
    <3> QED BY <3>1, <3>2, <2>1, <2>3
  <2>7. CASE to_offset(t[1]).base # to_offset(t[2]).base
    <3>1. last_of_base(t) = <<t[1]>> \o last_of_base(Tail(t))
      BY <2>4, <2>7
    <3>2. <<t[1]>> \in Seq(Level) /\ last_of_base(Tail(t)) \in Seq(Level) /\ last_of_base(Tail(t)) # <<>>
      BY <2>1, <2>3 DEF List
    <3>3. last_of_base(t) \in List
      BY <3>1, <3>2, ConcatProperties, ConcatEqualIffEmpty DEF List
    <3>4. ASSUME NEW f \in Assignments, NEW v \in Nat
          PROVE  Bounds(v, last_of_base(t), f) <=> Bounds(v, t, f)
      <4>1. Bounds(v, last_of_base(t), f) <=> Bounds(v, <<t[1]>>, f) /\ Bounds(v, last_of_base(Tail(t)), f)
        <5>1. Bounds(v, <<t[1]>> \o last_of_base(Tail(t)), f)
                <=> Bounds(v, <<t[1]>>, f) /\ Bounds(v, last_of_base(Tail(t)), f)
          BY <3>2, BoundsOfTwo
        <5> QED BY <5>1, <3>1
      <4>2. Bounds(v, <<t[1]>>, f) <=> value(t[1], f) <= v
        BY BoundsOfOne
      <4> QED BY <4>1, <4>2, <2>1, <2>3
    <3> QED BY <3>3, <3>4
  <2> QED BY <2>6, <2>7
<1>3. T = Nat
  <2> HIDE DEF T
  <2>1. T \in SUBSET Nat
    BY DEF T
  <2> QED BY <2>1, <1>1, <1>2, Induction
<1>4. Len(s) - 1 \in Nat /\ Len(s) = (Len(s) - 1) + 1
  BY EmptySeq DEF List
<1> QED BY <1>3, <1>4

\* The successors are put back.
LEMMA Shifted ==
  ASSUME Recursion, NEW s \in List, NEW n \in Nat
  PROVE  LET t == [i \in DOMAIN s |-> mk_succ_n(s[i], n)]
         IN /\ t \in List
            /\ \A f \in Assignments, v \in Nat :
                 Bounds(v, t, f) <=> n <= v /\ Bounds(v - n, s, f)
<1> DEFINE t == [i \in DOMAIN s |-> mk_succ_n(s[i], n)]
<1>1. s \in Seq(Level) /\ Len(s) \in Nat \ {0} /\ DOMAIN s = 1..Len(s)
  BY EmptySeq DEF List
<1>2. \A i \in 1..Len(s) : s[i] \in Level /\ mk_succ_n(s[i], n) \in Level
  BY <1>1, SuccN
<1>3. t \in List /\ Len(t) = Len(s) /\ \A i \in 1..Len(s) : t[i] = mk_succ_n(s[i], n)
  BY <1>1, <1>2 DEF List
<1> HIDE DEF t
<1>4. ASSUME NEW f \in Assignments, NEW v \in Nat
      PROVE  Bounds(v, t, f) <=> n <= v /\ Bounds(v - n, s, f)
  <2>1. \A i \in 1..Len(s) : value(t[i], f) = value(s[i], f) + n /\ value(s[i], f) \in Nat
    BY <1>2, <1>3, SuccN, ValueIsNat
  <2>2. ASSUME Bounds(v, t, f) PROVE n <= v /\ Bounds(v - n, s, f)
    <3>1. \A i \in 1..Len(s) : value(s[i], f) + n <= v /\ value(s[i], f) \in Nat
      BY <2>1, <2>2, <1>3 DEF Bounds
    <3>2. 1 \in 1..Len(s)
      BY <1>1
    <3>3. n <= v
      BY <3>1, <3>2
    <3> QED BY <3>1, <3>3 DEF Bounds
  <2>3. ASSUME n <= v, Bounds(v - n, s, f) PROVE Bounds(v, t, f)
    BY <2>1, <2>3, <1>3 DEF Bounds
  <2> QED BY <2>2, <2>3
<1> QED BY <1>3, <1>4 DEF t

\* The maximum of a list (level.cpp:121).
LEMMA MaxList ==
  ASSUME Recursion, NEW s \in List
  PROVE  /\ mk_max_list(s) \in Level
         /\ \A f \in Assignments, v \in Nat : value(mk_max_list(s), f) <= v <=> Bounds(v, s, f)
<1> DEFINE P(t) == /\ mk_max_list(t) \in Level
                   /\ \A f \in Assignments, v \in Nat : value(mk_max_list(t), f) <= v <=> Bounds(v, t, f)
           T == {n \in Nat : \A t \in List : Len(t) = n + 1 => P(t)}
<1>1. 0 \in T
  <2> SUFFICES ASSUME NEW t \in List, Len(t) = 1 PROVE P(t)
    OBVIOUS
  <2>1. mk_max_list(t) = t[1] /\ t[1] \in Level
    BY DEF Recursion, MkMaxList, List
  <2> QED BY <2>1 DEF Bounds
<1>2. ASSUME NEW n \in T PROVE n + 1 \in T
  <2> SUFFICES ASSUME NEW t \in List, Len(t) = (n + 1) + 1 PROVE P(t)
    OBVIOUS
  <2>0. n \in Nat /\ \A t2 \in List : Len(t2) = n + 1 => P(t2)
    OBVIOUS
  <2> HIDE DEF T
  <2>1. /\ t[1] \in Level /\ Tail(t) \in Seq(Level) /\ Len(Tail(t)) = n + 1
        /\ \A f, v : Bounds(v, t, f) <=> value(t[1], f) <= v /\ Bounds(v, Tail(t), f)
    BY <2>0, FirstAndRest
  <2>2. Tail(t) \in List
    <3>1. Len(Tail(t)) # 0
      BY <2>0, <2>1
    <3> QED BY <3>1, <2>1, EmptySeq DEF List
  <2>3. P(Tail(t))
    BY <2>0, <2>1, <2>2
  <2>4. mk_max_list(t) = mk_max_s(t[1], mk_max_list(Tail(t)))
    <3>1. mk_max_list(t) = MkMaxList(t)
      BY DEF Recursion, List
    <3>2. Len(t) # 1
      BY <2>0
    <3> QED BY <3>1, <3>2, Zenon DEF MkMaxList
  <2>5. mk_max_list(t) \in Level
    BY <2>1, <2>3, <2>4, MaxValue
  <2>6. ASSUME NEW f \in Assignments, NEW v \in Nat
        PROVE  value(mk_max_list(t), f) <= v <=> Bounds(v, t, f)
    BY <2>1, <2>3, <2>4, BoundsOfMax
  <2> QED BY <2>5, <2>6
<1>3. T = Nat
  <2> HIDE DEF T
  <2>1. T \in SUBSET Nat
    BY DEF T
  <2> QED BY <2>1, <1>1, <1>2, Induction
<1>4. Len(s) - 1 \in Nat /\ Len(s) = (Len(s) - 1) + 1
  BY EmptySeq DEF List
<1> QED BY <1>3, <1>4

(***************************************************************************)
(* The order of names and of levels.                                       *)
(***************************************************************************)

Before(c, d) == IF c.str # d.str THEN ~c.str ELSE c.v < d.v

LEMMA ComponentOrder ==
  /\ \A c, d \in Component : Before(c, d) <=> c # d /\ ~Before(d, c)
  /\ \A c, d, e \in Component : Before(c, d) /\ Before(d, e) => Before(c, e)
BY DEF Component, Before

\* Two names agree before position i, and not there.
PartAt(n, m, i) ==
  /\ i \in Nat /\ 1 <= i /\ i <= Len(n) + 1 /\ i <= Len(m) + 1 /\ (i <= Len(n) \/ i <= Len(m))
  /\ \A j \in 1..(i - 1) : n[j] = m[j]
  /\ i <= Len(n) /\ i <= Len(m) => n[i] # m[i]

LEMMA PartSomewhere ==
  ASSUME NEW n \in Seq(Component), NEW m \in Seq(Component), n # m
  PROVE  \E i : PartAt(n, m, i)
<1> DEFINE U == {i \in Nat : i >= 1 /\ (i > Len(n) \/ i > Len(m) \/ n[i] # m[i])}
<1>1. Len(n) \in Nat /\ Len(m) \in Nat
  OBVIOUS
<1>2. Len(n) + 1 \in U /\ Len(m) + 1 \in U
  BY <1>1
<1>3. PICK i \in U : \A j \in U : i <= j
  <2> HIDE DEF U
  <2>1. U \in SUBSET Nat /\ U # {}
    BY <1>2 DEF U
  <2> QED BY <2>1, Least
<1>4. i \in Nat /\ i >= 1 /\ i <= Len(n) + 1 /\ i <= Len(m) + 1
  BY <1>2, <1>3
<1>5. \A j \in 1..(i - 1) : n[j] = m[j]
  <2> SUFFICES ASSUME NEW j \in 1..(i - 1), n[j] # m[j] PROVE FALSE
    OBVIOUS
  <2>1. j \in U
    BY <1>4
  <2> QED BY <2>1, <1>3, <1>4
<1>6. i <= Len(n) \/ i <= Len(m)
  <2> SUFFICES ASSUME i > Len(n), i > Len(m) PROVE FALSE
    BY <1>1, <1>4
  <2>1. Len(n) = i - 1 /\ Len(m) = i - 1
    BY <1>1, <1>4
  <2>2. n = m
    BY <2>1, <1>5, SeqEqual
  <2> QED BY <2>2
<1>7. i <= Len(n) /\ i <= Len(m) => n[i] # m[i]
  BY <1>1, <1>4
<1> QED BY <1>4, <1>5, <1>6, <1>7 DEF PartAt

LEMMA LtAt ==
  ASSUME NEW n \in Seq(Component), NEW m \in Seq(Component), NEW i, PartAt(n, m, i)
  PROVE  /\ lt(n, m) <=> i <= Len(m) /\ (i <= Len(n) => Before(n[i], m[i]))
         /\ PartAt(m, n, i)
<1>1. Len(n) \in Nat /\ Len(m) \in Nat /\ i \in Nat
  BY DEF PartAt
<1>2. \A j \in 1..Len(n) : n[j] \in Component
  OBVIOUS
<1> DEFINE At(h) == /\ h <= Len(m)
                    /\ \A j \in 1..(h - 1) : n[j] = m[j]
                    /\ h <= Len(n) => Before(n[h], m[h])
<1>3. lt(n, m) <=> \E h \in 1..(Len(n) + 1) : At(h)
  BY Zenon DEF lt, Before
<1>4. ASSUME NEW h \in 1..(Len(n) + 1), At(h)
      PROVE  h = i
  <2>1. CASE h < i
    <3>1. h \in 1..(i - 1) /\ h <= Len(n)
      BY <2>1, <1>1 DEF PartAt
    <3>2. n[h] = m[h] /\ n[h] \in Component /\ Before(n[h], m[h])
      BY <3>1, <1>1, <1>2, <1>4 DEF PartAt
    <3> QED BY <3>2, ComponentOrder
  <2>2. CASE i < h
    <3>1. i \in 1..(h - 1) /\ i <= Len(n) /\ i <= Len(m)
      BY <2>2, <1>1, <1>4 DEF PartAt
    <3> QED BY <3>1, <1>4 DEF PartAt
  <2> QED BY <2>1, <2>2, <1>1
<1>5. i \in 1..(Len(n) + 1) /\ (At(i) <=> i <= Len(m) /\ (i <= Len(n) => Before(n[i], m[i])))
  BY <1>1 DEF PartAt
<1>6. lt(n, m) <=> i <= Len(m) /\ (i <= Len(n) => Before(n[i], m[i]))
  <2> HIDE DEF At
  <2> QED BY <1>3, <1>4, <1>5, Zenon
<1> QED BY <1>1, <1>6 DEF PartAt

LEMMA NameOrder ==
  /\ \A n, m \in Seq(Component) : lt(n, m) <=> n # m /\ ~lt(m, n)
  /\ \A n, m, k \in Seq(Component) : lt(n, m) /\ lt(m, k) => lt(n, k)
<1>1. ASSUME NEW n \in Seq(Component) PROVE ~lt(n, n)
  <2>1. \A i \in 1..(Len(n) + 1) : i <= Len(n) => n[i] \in Component
    OBVIOUS
  <2> QED BY <2>1, ComponentOrder DEF lt, Before
<1>2. ASSUME NEW n \in Seq(Component), NEW m \in Seq(Component), n # m
      PROVE  lt(n, m) <=> ~lt(m, n)
  <2>1. PICK i : PartAt(n, m, i)
    BY <1>2, PartSomewhere
  <2>2. /\ lt(n, m) <=> i <= Len(m) /\ (i <= Len(n) => Before(n[i], m[i]))
        /\ lt(m, n) <=> i <= Len(n) /\ (i <= Len(m) => Before(m[i], n[i]))
    BY <2>1, LtAt
  <2>3. i <= Len(n) /\ i <= Len(m) => (Before(n[i], m[i]) <=> ~Before(m[i], n[i]))
    <3> SUFFICES ASSUME i <= Len(n), i <= Len(m) PROVE Before(n[i], m[i]) <=> ~Before(m[i], n[i])
      OBVIOUS
    <3>1. n[i] \in Component /\ m[i] \in Component /\ n[i] # m[i]
      BY <2>1 DEF PartAt
    <3> QED BY <3>1, ComponentOrder
  <2>4. i <= Len(n) \/ i <= Len(m)
    BY <2>1 DEF PartAt
  <2> QED BY <2>2, <2>3, <2>4
<1>3. ASSUME NEW n \in Seq(Component), NEW m \in Seq(Component), NEW k \in Seq(Component),
             lt(n, m), lt(m, k)
      PROVE  lt(n, k)
  <2>1. n # m /\ m # k
    BY <1>1, <1>3
  <2>2. PICK i : PartAt(n, m, i)
    BY <2>1, PartSomewhere
  <2>3. PICK j : PartAt(m, k, j)
    BY <2>1, PartSomewhere
  <2>4. /\ i <= Len(m) /\ (i <= Len(n) => Before(n[i], m[i]))
        /\ j <= Len(k) /\ (j <= Len(m) => Before(m[j], k[j]))
    BY <1>3, <2>2, <2>3, LtAt
  <2>5. Len(n) \in Nat /\ Len(m) \in Nat /\ Len(k) \in Nat /\ i \in Nat /\ j \in Nat
    BY <2>2, <2>3 DEF PartAt
  <2>6. CASE i < j
    <3>1. PartAt(n, k, i) /\ i <= Len(k) /\ m[i] = k[i]
      BY <2>2, <2>3, <2>4, <2>5, <2>6 DEF PartAt
    <3> QED BY <3>1, <2>4, LtAt
  <2>7. CASE j < i
    <3>1. j <= Len(n) /\ j <= Len(m) /\ n[j] = m[j] /\ Before(m[j], k[j])
      BY <2>2, <2>3, <2>4, <2>5, <2>7 DEF PartAt
    <3>2. n[j] \in Component /\ k[j] \in Component
      BY <3>1, <2>3, <2>4, <2>5 DEF PartAt
    <3>3. n[j] # k[j]
      BY <3>1, <3>2, ComponentOrder
    <3>4. PartAt(n, k, j)
      BY <2>2, <2>3, <2>4, <2>5, <2>7, <3>1, <3>3 DEF PartAt
    <3> QED BY <3>1, <3>4, <2>4, LtAt
  <2>8. CASE i = j
    <3>1. CASE i <= Len(n)
      <4>1. n[i] \in Component /\ m[i] \in Component /\ k[i] \in Component
        BY <3>1, <2>2, <2>4, <2>5, <2>8 DEF PartAt
      <4>2. Before(n[i], m[i]) /\ Before(m[i], k[i])
        BY <3>1, <2>4, <2>8
      <4>3. Before(n[i], k[i]) /\ n[i] # k[i]
        BY <4>1, <4>2, ComponentOrder
      <4>4. PartAt(n, k, i)
        BY <2>2, <2>3, <2>4, <2>5, <2>8, <3>1, <4>3 DEF PartAt
      <4> QED BY <4>3, <4>4, <2>4, <2>8, LtAt
    <3>2. CASE i > Len(n)
      <4>1. PartAt(n, k, i)
        BY <2>2, <2>3, <2>4, <2>5, <2>8, <3>2 DEF PartAt
      <4> QED BY <4>1, <3>2, <2>4, <2>5, <2>8, LtAt
    <3> QED BY <3>1, <3>2, <2>5
  <2> QED BY <2>5, <2>6, <2>7, <2>8
<1> QED BY <1>1, <1>2, <1>3

Ordered(S) ==
  /\ \A l, m \in S : is_norm_lt(l, m) <=> l # m /\ ~is_norm_lt(m, l)
  /\ \A l, m, k \in S : is_norm_lt(l, m) /\ is_norm_lt(m, k) => is_norm_lt(l, k)

\* The order of bases.
BaseLt(b, c) ==
  IF b.k # c.k THEN b.k < c.k
  ELSE IF b.k = 4 THEN lt(b.p, c.p)
  ELSE b.k \in {2, 3} /\ (IF b.a # c.a THEN is_norm_lt(b.a, c.a) ELSE is_norm_lt(b.b, c.b))

Bases(S) == {b \in Level : b.k # 1 /\ (b.k \in {2, 3} => b.a \in S /\ b.b \in S)}

LEMMA BaseOrder ==
  ASSUME NEW S \in SUBSET Level, Ordered(S)
  PROVE  /\ \A b, c \in Bases(S) : BaseLt(b, c) <=> b # c /\ ~BaseLt(c, b)
         /\ \A b, c, d \in Bases(S) : BaseLt(b, c) /\ BaseLt(c, d) => BaseLt(b, d)
<1>1. \A b \in Bases(S) : /\ b.k \in {0, 2, 3, 4}
                          /\ b.k = 4 => b.p \in Params
                          /\ b.k \in {2, 3} => b.a \in S /\ b.b \in S
  BY ByKind DEF Bases
<1>2. ASSUME NEW b \in Bases(S), NEW c \in Bases(S), b.k = c.k
      PROVE  /\ b.k = 0 => b = c
             /\ b.k = 4 => (b = c <=> b.p = c.p)
             /\ b.k \in {2, 3} => (b = c <=> b.a = c.a /\ b.b = c.b)
  <2>1. b \in Level /\ c \in Level
    BY DEF Bases
  <2>2. b.k = 0 => b = c
    BY <2>1, <1>2, ByKind
  <2>3. b.k = 4 => b = mk_param(b.p) /\ c = mk_param(c.p)
    BY <2>1, <1>2, ByKind
  <2>4. b.k = 2 => b = mk_max_raw(b.a, b.b) /\ c = mk_max_raw(c.a, c.b)
    BY <2>1, <1>2, ByKind
  <2>5. b.k = 3 => b = mk_imax_raw(b.a, b.b) /\ c = mk_imax_raw(c.a, c.b)
    BY <2>1, <1>2, ByKind
  <2> QED BY <2>2, <2>3, <2>4, <2>5, Zenon
<1>3. Params \subseteq Seq(Component)
  BY LevelsAssumption
<1>4. \A p, q \in Params : lt(p, q) <=> p # q /\ ~lt(q, p)
  BY <1>3, NameOrder
<1>5. \A p, q, r \in Params : lt(p, q) /\ lt(q, r) => lt(p, r)
  BY <1>3, NameOrder
<1>6. ASSUME NEW b \in Bases(S), NEW c \in Bases(S)
      PROVE  BaseLt(b, c) <=> b # c /\ ~BaseLt(c, b)
  <2>1. CASE b.k # c.k
    BY <2>1, <1>1 DEF BaseLt
  <2>2. CASE b.k = c.k /\ b.k = 4
    BY <2>2, <1>1, <1>2, <1>4 DEF BaseLt
  <2>3. CASE b.k = c.k /\ b.k = 0
    <3>1. b = c
      BY <2>3, <1>2
    <3>2. ~(b.k = 4) /\ ~(b.k \in {2, 3}) /\ ~(b.k # b.k)
      BY <2>3
    <3>3. ~BaseLt(b, b)
      BY <3>2, Zenon DEF BaseLt
    <3> QED BY <3>1, <3>3, Zenon
  <2>4. CASE b.k = c.k /\ b.k \in {2, 3}
    <3>1. /\ BaseLt(b, c) <=> IF b.a # c.a THEN is_norm_lt(b.a, c.a) ELSE is_norm_lt(b.b, c.b)
          /\ BaseLt(c, b) <=> IF c.a # b.a THEN is_norm_lt(c.a, b.a) ELSE is_norm_lt(c.b, b.b)
      BY <2>4 DEF BaseLt
    <3>2. b.a \in S /\ b.b \in S /\ c.a \in S /\ c.b \in S /\ (b = c <=> b.a = c.a /\ b.b = c.b)
      BY <2>4, <1>1, <1>2
    <3>3. /\ is_norm_lt(b.a, c.a) <=> b.a # c.a /\ ~is_norm_lt(c.a, b.a)
          /\ is_norm_lt(b.b, c.b) <=> b.b # c.b /\ ~is_norm_lt(c.b, b.b)
      BY <3>2 DEF Ordered
    <3> QED BY <3>1, <3>2, <3>3, Zenon
  <2> QED BY <2>1, <2>2, <2>3, <2>4, <1>1
<1>7. ASSUME NEW b \in Bases(S), NEW c \in Bases(S), NEW d \in Bases(S), BaseLt(b, c), BaseLt(c, d)
      PROVE  BaseLt(b, d)
  <2>1. CASE b.k # c.k \/ c.k # d.k
    <3>1. b.k <= c.k /\ c.k <= d.k
      BY <1>1, <1>7 DEF BaseLt
    <3>2. b.k < d.k
      BY <3>1, <2>1, <1>1
    <3> QED BY <3>2, <1>1 DEF BaseLt
  <2>2. CASE b.k = c.k /\ c.k = d.k /\ b.k = 4
    BY <2>2, <1>1, <1>5, <1>7 DEF BaseLt
  <2>3. CASE b.k = c.k /\ b.k = 0
    BY <2>3, <1>7 DEF BaseLt
  <2>4. CASE b.k = c.k /\ c.k = d.k /\ b.k \in {2, 3}
    <3>1. /\ BaseLt(b, c) <=> IF b.a # c.a THEN is_norm_lt(b.a, c.a) ELSE is_norm_lt(b.b, c.b)
          /\ BaseLt(c, d) <=> IF c.a # d.a THEN is_norm_lt(c.a, d.a) ELSE is_norm_lt(c.b, d.b)
          /\ BaseLt(b, d) <=> IF b.a # d.a THEN is_norm_lt(b.a, d.a) ELSE is_norm_lt(b.b, d.b)
      BY <2>4 DEF BaseLt
    <3>2. b.a \in S /\ b.b \in S /\ c.a \in S /\ c.b \in S /\ d.a \in S /\ d.b \in S
      BY <2>4, <1>1
    <3>3. /\ is_norm_lt(b.a, c.a) /\ is_norm_lt(c.a, d.a) => is_norm_lt(b.a, d.a)
          /\ is_norm_lt(b.b, c.b) /\ is_norm_lt(c.b, d.b) => is_norm_lt(b.b, d.b)
          /\ is_norm_lt(b.a, c.a) => ~is_norm_lt(c.a, b.a)
      BY <3>2 DEF Ordered
    <3> QED BY <3>1, <3>3, <1>7
  <2> QED BY <2>1, <2>2, <2>3, <2>4, <1>1
<1> QED BY <1>6, <1>7

LEMMA OrderGrows ==
  ASSUME Recursion, NEW S \in SUBSET Level, Ordered(S), NEW R \in SUBSET Level,
         \A l \in R : to_offset(l).base \in Bases(S)
  PROVE  Ordered(R)
<1>1. ASSUME NEW l \in R, NEW m \in R
      PROVE  /\ is_norm_lt(l, m) <=> IF to_offset(l).base = to_offset(m).base
                                     THEN to_offset(l).n < to_offset(m).n
                                     ELSE BaseLt(to_offset(l).base, to_offset(m).base)
             /\ to_offset(l).n \in Nat /\ to_offset(m).n \in Nat
             /\ l = m <=> to_offset(l).base = to_offset(m).base /\ to_offset(l).n = to_offset(m).n
  <2>1. is_norm_lt(l, m) <=> IsNormLt(l, m)
    BY DEF Recursion
  <2>2. to_offset(l) \in Offset /\ to_offset(m) \in Offset
    BY OffsetType
  <2>3. to_offset(l) = to_offset(m) => l = m
    BY OffsetInjective
  <2>4. to_offset(l).base = to_offset(m).base /\ to_offset(l).n = to_offset(m).n
          => to_offset(l) = to_offset(m)
    BY <2>2 DEF Offset
  <2>5. IsNormLt(l, m) <=> IF to_offset(l).base = to_offset(m).base
                           THEN to_offset(l).n < to_offset(m).n
                           ELSE BaseLt(to_offset(l).base, to_offset(m).base)
    BY Zenon DEF IsNormLt, BaseLt
  <2> QED BY <2>1, <2>2, <2>3, <2>4, <2>5 DEF Offset
<1>2. /\ \A b, c \in Bases(S) : BaseLt(b, c) <=> b # c /\ ~BaseLt(c, b)
      /\ \A b, c, d \in Bases(S) : BaseLt(b, c) /\ BaseLt(c, d) => BaseLt(b, d)
  BY BaseOrder
<1>3. ASSUME NEW l \in R, NEW m \in R PROVE is_norm_lt(l, m) <=> l # m /\ ~is_norm_lt(m, l)
  <2>1. CASE to_offset(l).base = to_offset(m).base
    BY <2>1, <1>1
  <2>2. CASE to_offset(l).base # to_offset(m).base
    BY <2>2, <1>1, <1>2
  <2> QED BY <2>1, <2>2
<1>4. ASSUME NEW l \in R, NEW m \in R, NEW k \in R, is_norm_lt(l, m), is_norm_lt(m, k)
      PROVE  is_norm_lt(l, k)
  <2> DEFINE b == to_offset(l).base
             c == to_offset(m).base
             d == to_offset(k).base
  <2>1. b \in Bases(S) /\ c \in Bases(S) /\ d \in Bases(S)
    OBVIOUS
  <2>2. CASE b = c /\ c = d
    BY <2>2, <1>1, <1>4
  <2>3. CASE b # c /\ c = d
    BY <2>3, <1>1, <1>4
  <2>4. CASE b = c /\ c # d
    BY <2>4, <1>1, <1>4
  <2>5. CASE b # c /\ c # d
    <3>1. BaseLt(b, c) /\ BaseLt(c, d)
      BY <2>5, <1>1, <1>4
    <3>2. BaseLt(b, d) /\ ~BaseLt(c, b)
      BY <3>1, <2>1, <1>2
    <3>3. b # d
      BY <3>1, <3>2
    <3> QED BY <3>2, <3>3, <1>1
  <2> QED BY <2>2, <2>3, <2>4, <2>5
<1> QED BY <1>3, <1>4 DEF Ordered

\* The order the normal form is sorted by is a strict total order (level.cpp:93).
LEMMA LevelOrder ==
  ASSUME Recursion
  PROVE  Ordered(Level)
<1> DEFINE T == {n \in Nat : Ordered(OfDepth(n))}
<1>0. ASSUME NEW n \in Nat, NEW S \in SUBSET Level, Ordered(S), n > 0 => S = OfDepth(n - 1)
      PROVE  Ordered(OfDepth(n))
  <2>1. OfDepth(n) \subseteq Level
    BY DepthIsLevel
  <2>2. ASSUME NEW l \in OfDepth(n) PROVE to_offset(l).base \in Bases(S)
    <3>1. /\ to_offset(l).base \in OfDepth(n) /\ to_offset(l).base \in Level
          /\ to_offset(l).base.k # 1
      BY <2>1, <2>2, BaseDepth, OffsetType DEF Offset
    <3>2. to_offset(l).base.k \in {2, 3} => to_offset(l).base.a \in S /\ to_offset(l).base.b \in S
      BY <3>1, <1>0, Smaller
    <3> QED BY <3>1, <3>2 DEF Bases
  <2> QED BY <1>0, <2>1, <2>2, OrderGrows
<1>1. 0 \in T
  <2>1. Ordered({})
    BY DEF Ordered
  <2> QED BY <2>1, <1>0
<1>2. ASSUME NEW n \in T PROVE n + 1 \in T
  <2>1. OfDepth(n) \subseteq Level /\ (n + 1) - 1 = n
    BY DepthIsLevel
  <2> QED BY <2>1, <1>0
<1>3. T = Nat
  <2> HIDE DEF T
  <2>1. T \in SUBSET Nat
    BY DEF T
  <2> QED BY <2>1, <1>1, <1>2, Induction
<1>4. ASSUME NEW l \in Level, NEW m \in Level, NEW k \in Level
      PROVE  \E n \in Nat : l \in OfDepth(n) /\ m \in OfDepth(n) /\ k \in OfDepth(n)
  <2>1. PICK i \in Nat, j \in Nat, h \in Nat : l \in OfDepth(i) /\ m \in OfDepth(j) /\ k \in OfDepth(h)
    BY DEF Level
  <2>2. l \in OfDepth(i + (j + h)) /\ m \in OfDepth(j + (i + h)) /\ k \in OfDepth(h + (i + j))
    BY <2>1, Deeper
  <2>3. i + (j + h) = j + (i + h) /\ h + (i + j) = j + (i + h) /\ i + (j + h) \in Nat
    OBVIOUS
  <2> QED BY <2>2, <2>3
<1>5. ASSUME NEW l \in Level, NEW m \in Level PROVE is_norm_lt(l, m) <=> l # m /\ ~is_norm_lt(m, l)
  <2>1. PICK n \in Nat : l \in OfDepth(n) /\ m \in OfDepth(n)
    BY <1>4
  <2>2. Ordered(OfDepth(n))
    BY <1>3
  <2> QED BY <2>1, <2>2 DEF Ordered
<1>6. ASSUME NEW l \in Level, NEW m \in Level, NEW k \in Level, is_norm_lt(l, m), is_norm_lt(m, k)
      PROVE  is_norm_lt(l, k)
  <2>1. PICK n \in Nat : l \in OfDepth(n) /\ m \in OfDepth(n) /\ k \in OfDepth(n)
    BY <1>4
  <2>2. Ordered(OfDepth(n))
    BY <1>3
  <2> QED BY <2>1, <2>2, <1>6 DEF Ordered
<1> QED BY <1>5, <1>6 DEF Ordered

(***************************************************************************)
(* Sorting.                                                                *)
(***************************************************************************)

\* p puts the first n levels of s in order.
Arranges(p, s, n) ==
  /\ p \in [1..n -> 1..n] /\ \A j \in 1..n : \E i \in 1..n : p[i] = j
  /\ \A i, j \in 1..n : i < j => ~is_norm_lt(s[p[j]], s[p[i]])

LEMMA ArrangedNext ==
  ASSUME Recursion, NEW s \in Seq(Level), NEW n \in Nat, n + 1 <= Len(s), NEW p, Arranges(p, s, n)
  PROVE  \E q : Arranges(q, s, n + 1)
<1> DEFINE z == s[n + 1]
           U == {i \in 1..(n + 1) : i <= n => is_norm_lt(z, s[p[i]])}
<1>0. Ordered(Level)
  BY LevelOrder
<1>1. n + 1 \in U
  <2>1. n + 1 \in 1..(n + 1) /\ ~(n + 1 <= n)
    OBVIOUS
  <2> QED BY <2>1
<1>2. PICK c \in U : \A i \in U : c <= i
  <2> HIDE DEF U
  <2>1. U \subseteq 1..(n + 1) /\ U # {}
    BY <1>1, Zenon DEF U
  <2>2. U \in SUBSET Nat
    BY <2>1
  <2> QED BY <2>1, <2>2, Least
<1>3. /\ c \in 1..(n + 1) /\ (c <= n => is_norm_lt(z, s[p[c]]))
      /\ \A i \in 1..n : i < c => ~is_norm_lt(z, s[p[i]])
  <2>1. c \in Nat /\ c >= 1 /\ c <= n + 1 /\ (c = n + 1 \/ is_norm_lt(z, s[p[c]]))
    BY <1>1, <1>2
  <2>2. ASSUME NEW i \in 1..n, i < c, is_norm_lt(z, s[p[i]]) PROVE FALSE
    <3>1. i \in U
      BY <2>2
    <3> QED BY <3>1, <1>2, <2>1, <2>2
  <2> QED BY <2>1, <2>2
<1> HIDE DEF U
<1>4. /\ \A i \in 1..n : p[i] \in 1..n /\ s[p[i]] \in Level
      /\ z \in Level
  <2>1. Len(s) \in Nat /\ \A i \in 1..Len(s) : s[i] \in Level
    OBVIOUS
  <2>2. n + 1 \in 1..Len(s) /\ \A i \in 1..n : i \in 1..Len(s)
    BY <2>1
  <2>3. \A i \in 1..n : p[i] \in 1..n
    BY DEF Arranges
  <2> QED BY <2>1, <2>2, <2>3
<1> DEFINE q == [i \in 1..(n + 1) |-> IF i < c THEN p[i] ELSE IF i = c THEN n + 1 ELSE p[i - 1]]
<1>5. \A i \in 1..(n + 1) : /\ i < c => i \in 1..n /\ q[i] = p[i]
                            /\ i = c => q[i] = n + 1
                            /\ i > c => i - 1 \in 1..n /\ q[i] = p[i - 1]
  BY <1>3
<1>6. q \in [1..(n + 1) -> 1..(n + 1)]
  BY <1>3, <1>4
<1> HIDE DEF q, z
<1>7. ASSUME NEW j \in 1..(n + 1) PROVE \E i \in 1..(n + 1) : q[i] = j
  <2>1. CASE j = n + 1
    BY <2>1, <1>3, <1>5
  <2>2. CASE j # n + 1
    <3>1. j \in 1..n
      BY <2>2
    <3>2. PICK i \in 1..n : p[i] = j
      BY <3>1 DEF Arranges
    <3>3. CASE i < c
      BY <3>2, <3>3, <1>5
    <3>4. CASE i >= c
      <4>1. i + 1 \in 1..(n + 1) /\ i + 1 > c /\ (i + 1) - 1 = i
        BY <3>4, <1>3
      <4> QED BY <4>1, <3>2, <1>5
    <3> QED BY <3>3, <3>4, <1>3
  <2> QED BY <2>1, <2>2
<1>8. ASSUME NEW i \in 1..(n + 1), NEW j \in 1..(n + 1), i < j
      PROVE  ~is_norm_lt(s[q[j]], s[q[i]])
  <2>1. CASE j < c
    <3>1. i \in 1..n /\ j \in 1..n /\ q[i] = p[i] /\ q[j] = p[j]
      BY <2>1, <1>3, <1>5, <1>8
    <3> QED BY <3>1, <1>8 DEF Arranges
  <2>2. CASE j = c
    <3>1. i \in 1..n /\ q[i] = p[i] /\ q[j] = n + 1 /\ i < c
      BY <2>2, <1>3, <1>5, <1>8
    <3> QED BY <3>1, <1>3 DEF z
  <2>3. CASE j > c /\ i < c
    <3>1. i \in 1..n /\ q[i] = p[i] /\ j - 1 \in 1..n /\ q[j] = p[j - 1] /\ i < j - 1
      BY <2>3, <1>3, <1>5, <1>8
    <3> QED BY <3>1 DEF Arranges
  <2>4. CASE j > c /\ i = c
    <3>1. q[i] = n + 1 /\ j - 1 \in 1..n /\ q[j] = p[j - 1] /\ c \in 1..n /\ c <= j - 1
      BY <2>4, <1>3, <1>5, <1>8
    <3>2. is_norm_lt(z, s[p[c]])
      BY <3>1, <1>3
    <3>3. z \in Level /\ s[p[c]] \in Level /\ s[p[j - 1]] \in Level
      BY <3>1, <1>4
    <3>4. c = j - 1 \/ ~is_norm_lt(s[p[j - 1]], s[p[c]])
      BY <3>1 DEF Arranges
    <3>5. s[p[c]] = s[p[j - 1]] \/ is_norm_lt(s[p[c]], s[p[j - 1]])
      BY <3>3, <3>4, <1>0 DEF Ordered
    <3>6. is_norm_lt(z, s[p[j - 1]])
      BY <3>2, <3>3, <3>5, <1>0 DEF Ordered
    <3>7. ~is_norm_lt(s[p[j - 1]], z)
      BY <3>3, <3>6, <1>0 DEF Ordered
    <3> QED BY <3>1, <3>7 DEF z
  <2>5. CASE i > c
    <3>1. i - 1 \in 1..n /\ q[i] = p[i - 1] /\ j - 1 \in 1..n /\ q[j] = p[j - 1] /\ i - 1 < j - 1
      BY <2>5, <1>3, <1>5, <1>8
    <3> QED BY <3>1 DEF Arranges
  <2> QED BY <2>1, <2>2, <2>3, <2>4, <2>5, <1>3, <1>8
<1> QED BY <1>6, <1>7, <1>8 DEF Arranges

LEMMA CanSort ==
  ASSUME Recursion, NEW s \in Seq(Level)
  PROVE  \E p : Arranges(p, s, Len(s))
<1> DEFINE T == {n \in Nat : n <= Len(s) => \E p : Arranges(p, s, n)}
<1>1. 0 \in T
  <2>1. Arranges([i \in 1..0 |-> i], s, 0)
    BY DEF Arranges
  <2> QED BY <2>1
<1>2. ASSUME NEW n \in T PROVE n + 1 \in T
  <2>1. n \in Nat /\ Len(s) \in Nat /\ (n <= Len(s) => \E p : Arranges(p, s, n))
    OBVIOUS
  <2>2. n + 1 <= Len(s) => \E q : Arranges(q, s, n + 1)
    BY <2>1, ArrangedNext
  <2> QED BY <2>1, <2>2
<1>3. T = Nat
  <2> HIDE DEF T
  <2>1. T \in SUBSET Nat
    BY DEF T
  <2> QED BY <2>1, <1>1, <1>2, Induction
<1>4. Len(s) \in Nat
  OBVIOUS
<1> QED BY <1>3, <1>4

LEMMA SortChoice ==
  ASSUME Recursion, NEW s \in List
  PROVE  \E p \in [1..Len(s) -> 1..Len(s)] :
           /\ sort(s) = [i \in 1..Len(s) |-> s[p[i]]]
           /\ \A j \in 1..Len(s) : \E i \in 1..Len(s) : p[i] = j
           /\ \A i, j \in 1..Len(s) : i < j => ~is_norm_lt(sort(s)[j], sort(s)[i])
<1> DEFINE Orders == {p \in [DOMAIN s -> DOMAIN s] : {p[i] : i \in DOMAIN s} = DOMAIN s}
           C == {[i \in DOMAIN s |-> s[p[i]]] : p \in Orders}
           InOrder(t) == \A i, j \in DOMAIN s : i < j => ~is_norm_lt(t[j], t[i])
<1>1. s \in Seq(Level) /\ Len(s) \in Nat \ {0} /\ DOMAIN s = 1..Len(s)
  BY EmptySeq DEF List
<1>2. \E t \in C : InOrder(t)
  <2>1. PICK p : Arranges(p, s, Len(s))
    BY <1>1, CanSort
  <2>2. p \in Orders /\ \A i, j \in DOMAIN s : i < j => ~is_norm_lt(s[p[j]], s[p[i]])
    <3>1. p \in [DOMAIN s -> DOMAIN s] /\ {p[i] : i \in DOMAIN s} = DOMAIN s
      BY <2>1, <1>1 DEF Arranges
    <3> QED BY <3>1, <2>1, <1>1 DEF Arranges
  <2>3. InOrder([i \in DOMAIN s |-> s[p[i]]])
    BY <2>2
  <2> QED BY <2>2, <2>3
<1>3. sort(s) = CHOOSE t \in C : InOrder(t)
  BY Zenon DEF sort
<1>4. PICK p \in Orders : sort(s) = [i \in DOMAIN s |-> s[p[i]]] /\ InOrder(sort(s))
  <2>1. sort(s) \in C /\ InOrder(sort(s))
    <3> HIDE DEF C, InOrder
    <3> QED BY <1>2, <1>3, Zenon
  <2> QED BY <2>1
<1>5. \A j \in 1..Len(s) : \E i \in 1..Len(s) : p[i] = j
  <2>1. {p[i] : i \in 1..Len(s)} = 1..Len(s)
    BY <1>1
  <2> QED BY <2>1
<1> QED BY <1>1, <1>4, <1>5

LEMMA SortBounds ==
  ASSUME Recursion, NEW s \in List, NEW S \in SUBSET Level, s \in Seq(S)
  PROVE  /\ sort(s) \in List /\ sort(s) \in Seq(S) /\ Sorted(sort(s))
         /\ \A f \in Assignments, v \in Nat : Bounds(v, sort(s), f) <=> Bounds(v, s, f)
<1>1. s \in Seq(Level) /\ Len(s) \in Nat \ {0} /\ DOMAIN s = 1..Len(s)
  BY EmptySeq DEF List
<1>2. PICK p \in [1..Len(s) -> 1..Len(s)] :
        /\ sort(s) = [i \in 1..Len(s) |-> s[p[i]]]
        /\ \A j \in 1..Len(s) : \E i \in 1..Len(s) : p[i] = j
        /\ \A i, j \in 1..Len(s) : i < j => ~is_norm_lt(sort(s)[j], sort(s)[i])
  BY SortChoice
<1> DEFINE t == sort(s)
<1>3. \A i \in 1..Len(s) : p[i] \in 1..Len(s) /\ t[i] = s[p[i]]
  BY <1>1, <1>2
<1>4. t \in [1..Len(s) -> S]
  BY <1>1, <1>2, <1>3
<1>5. t \in Seq(S) /\ t \in Seq(Level) /\ Len(t) = Len(s) /\ t # <<>>
  <2> HIDE DEF t
  <2>1. t \in Seq(S) /\ Len(t) = Len(s)
    BY <1>1, <1>4, SeqDef
  <2>2. t \in Seq(Level)
    BY <2>1, SeqMonotonic
  <2> QED BY <1>1, <2>1, <2>2, EmptySeq
<1>6. ASSUME NEW i \in 1..Len(s), NEW j \in 1..Len(s), i < j
      PROVE  is_norm_lt(t[i], t[j]) \/ t[i] = t[j]
  <2>1. ~is_norm_lt(t[j], t[i])
    BY <1>1, <1>2, <1>6
  <2>2. t[i] \in Level /\ t[j] \in Level
    <3>1. \A h \in 1..Len(s) : s[h] \in Level
      BY <1>1, ElementOfSeq
    <3> HIDE DEF t
    <3> QED BY <3>1, <1>3
  <2> HIDE DEF t
  <2> QED BY <2>1, <2>2, LevelOrder DEF Ordered
<1>7. ASSUME NEW f \in Assignments, NEW v \in Nat
      PROVE  Bounds(v, t, f) <=> Bounds(v, s, f)
  <2> HIDE DEF t
  <2>1. Bounds(v, s, f) => Bounds(v, t, f)
    BY <1>3, <1>5 DEF Bounds
  <2>2. ASSUME Bounds(v, t, f), NEW j \in 1..Len(s) PROVE value(s[j], f) <= v
    <3>1. PICK i \in 1..Len(s) : p[i] = j
      BY <1>2
    <3> QED BY <3>1, <2>2, <1>3, <1>5 DEF Bounds
  <2> QED BY <2>1, <2>2 DEF Bounds
<1> QED BY <1>5, <1>6, <1>7 DEF List, Sorted

(***************************************************************************)
(* The normal form.                                                        *)
(***************************************************************************)

LEMMA NormalizeCases ==
  ASSUME Recursion, NEW l \in Level
  PROVE  LET o == to_offset(l)
             r == o.base
             kept == last_of_base(drop_explicit(sort(all_args(push_max_args(r)))))
         IN /\ r.k = 3 => normalize(l) = mk_succ_n(mk_imax_s(normalize(r.a), normalize(r.b)), o.n)
            /\ r.k = 2 => normalize(l) = mk_max_list([i \in DOMAIN kept |-> mk_succ_n(kept[i], o.n)])
            /\ r.k \notin {2, 3} => normalize(l) = l
<1>1. normalize(l) = Normalized(l)
  BY DEF Recursion
<1>2. to_offset(l).base.k = 3 => ~(to_offset(l).base.k = 2)
  OBVIOUS
<1> DEFINE o == to_offset(l)
           r == o.base
           kept == last_of_base(drop_explicit(sort(all_args(push_max_args(r)))))
<1>3. CASE r.k = 3
  <2>1. normalize(l) = mk_succ_n(mk_imax_s(normalize(r.a), normalize(r.b)), o.n)
    BY <1>1, <1>3 DEF Normalized, is_imax, is_max
  <2> QED BY <2>1, <1>3
<1>4. CASE r.k = 2
  <2>1. normalize(l) = mk_max_list([i \in DOMAIN kept |-> mk_succ_n(kept[i], o.n)])
    BY <1>1, <1>4 DEF Normalized, is_imax, is_max
  <2> QED BY <2>1, <1>4
<1>5. CASE r.k \notin {2, 3}
  <2>1. normalize(l) = l
    BY <1>1, <1>5 DEF Normalized, is_imax, is_max
  <2> QED BY <2>1, <1>5
<1> QED BY <1>3, <1>4, <1>5

\* Two numbers with the same upper bounds are equal.
LEMMA SameBounds ==
  ASSUME NEW a \in Nat, NEW b \in Nat, \A v \in Nat : a <= v <=> b <= v
  PROVE  a = b
BY a <= a, b <= b

LEMMA KeptMax ==
  ASSUME Recursion, NEW l \in Level, to_offset(l).base.k = 2,
         LET s == push_max_args(to_offset(l).base) IN \A i \in 1..Len(s) : Kept(s[i])
  PROVE  Kept(l)
<1> DEFINE n == to_offset(l).n
           r == to_offset(l).base
           s == push_max_args(r)
           t == sort(all_args(s))
           u == last_of_base(drop_explicit(t))
           w == [i \in DOMAIN u |-> mk_succ_n(u[i], n)]
<1>1. r \in Level /\ n \in Nat
  BY OffsetType DEF Offset
<1>2. s \in List /\ \A f \in Assignments, v \in Nat : Bounds(v, s, f) <=> value(r, f) <= v
  BY <1>1, PushedBounds
<1>3. normalize(l) = mk_max_list(w)
  BY NormalizeCases
<1>4. \A i \in 1..Len(s) : Kept(s[i])
  OBVIOUS
<1> HIDE DEF n, r, s
<1>5. /\ all_args(s) \in List
      /\ \A f \in Assignments, v \in Nat : Bounds(v, all_args(s), f) <=> Bounds(v, s, f)
  <2>1. s \in Seq(Level) /\ s # <<>>
    BY <1>2 DEF List
  <2>2. /\ all_args(s) \in Seq(Level) /\ (s # <<>> => all_args(s) # <<>>)
        /\ \A f \in Assignments, v \in Nat : Bounds(v, all_args(s), f) <=> Bounds(v, s, f)
    BY <2>1, <1>4, AllArgsBounds
  <2> QED BY <2>1, <2>2 DEF List
<1>6. /\ t \in List /\ Sorted(t)
      /\ \A f \in Assignments, v \in Nat : Bounds(v, t, f) <=> Bounds(v, all_args(s), f)
  <2>1. all_args(s) \in Seq(Level) /\ Level \in SUBSET Level
    BY <1>5 DEF List
  <2> QED BY <2>1, <1>5, SortBounds
<1> HIDE DEF t
<1>7. /\ drop_explicit(t) \in List /\ Sorted(drop_explicit(t))
      /\ \A f \in Assignments, v \in Nat : Bounds(v, drop_explicit(t), f) <=> Bounds(v, t, f)
  BY <1>6, DropBounds
<1>8. u \in List /\ \A f \in Assignments, v \in Nat : Bounds(v, u, f) <=> Bounds(v, drop_explicit(t), f)
  BY <1>7, LastBounds
<1> HIDE DEF u
<1>9. w \in List /\ \A f \in Assignments, v \in Nat : Bounds(v, w, f) <=> n <= v /\ Bounds(v - n, u, f)
  BY <1>1, <1>8, Shifted
<1> HIDE DEF w
<1>10. /\ mk_max_list(w) \in Level
       /\ \A f \in Assignments, v \in Nat : value(mk_max_list(w), f) <= v <=> Bounds(v, w, f)
  BY <1>9, MaxList
<1>11. ASSUME NEW f \in Assignments PROVE value(normalize(l), f) = value(l, f)
  <2>1. value(normalize(l), f) \in Nat /\ value(l, f) \in Nat /\ value(r, f) \in Nat
    BY <1>1, <1>3, <1>10, ValueIsNat
  <2>2. value(l, f) = value(r, f) + n
    BY OffsetValue DEF r, n
  <2>3. ASSUME NEW v \in Nat PROVE value(normalize(l), f) <= v <=> value(l, f) <= v
    <3>1. value(normalize(l), f) <= v <=> n <= v /\ Bounds(v - n, u, f)
      BY <1>3, <1>9, <1>10
    <3>2. CASE n <= v
      <4>1. v - n \in Nat
        BY <3>2, <1>1
      <4>2. Bounds(v - n, u, f) <=> value(r, f) <= v - n
        BY <4>1, <1>2, <1>5, <1>6, <1>7, <1>8
      <4> QED BY <3>1, <3>2, <4>2, <2>1, <2>2, <1>1
    <3>3. CASE ~(n <= v)
      BY <3>1, <3>3, <2>1, <2>2, <1>1
    <3> QED BY <3>2, <3>3
  <2> QED BY <2>1, <2>3, SameBounds
<1> QED BY <1>3, <1>10, <1>11 DEF Kept

LEMMA KeptIMax ==
  ASSUME Recursion, NEW l \in Level, to_offset(l).base.k = 3,
         Kept(to_offset(l).base.a), Kept(to_offset(l).base.b)
  PROVE  Kept(l)
<1> DEFINE n == to_offset(l).n
           r == to_offset(l).base
           m == mk_imax_s(normalize(r.a), normalize(r.b))
<1>1. r \in Level /\ n \in Nat
  BY OffsetType DEF Offset
<1>2. r.a \in Level /\ r.b \in Level /\ r = mk_imax_raw(r.a, r.b)
  BY <1>1, ByKind
<1>3. normalize(l) = mk_succ_n(m, n)
  BY NormalizeCases
<1>4. normalize(r.a) \in Level /\ normalize(r.b) \in Level /\ m \in Level
  BY IMaxValue DEF Kept
<1>5. normalize(l) \in Level
  BY <1>1, <1>3, <1>4, SuccN
<1>6. ASSUME NEW f \in Assignments PROVE value(normalize(l), f) = value(l, f)
  <2>1. value(normalize(r.a), f) = value(r.a, f) /\ value(normalize(r.b), f) = value(r.b, f)
    BY DEF Kept
  <2>2. value(m, f) = value(r, f)
    <3>1. value(m, f) = IF value(normalize(r.b), f) = 0 THEN 0
                        ELSE Larger(value(normalize(r.a), f), value(normalize(r.b), f))
      BY <1>4, IMaxValue
    <3>2. value(mk_imax_raw(r.a, r.b), f) = IF value(r.b, f) = 0 THEN 0
                                            ELSE Larger(value(r.a, f), value(r.b, f))
      BY <1>2, ValueFacts DEF Larger
    <3> QED BY <3>1, <3>2, <2>1, <1>2
  <2>3. value(normalize(l), f) = value(m, f) + n
    BY <1>1, <1>3, <1>4, SuccN
  <2>4. value(l, f) = value(r, f) + n
    BY OffsetValue
  <2> QED BY <2>2, <2>3, <2>4
<1> QED BY <1>5, <1>6 DEF Kept

LEMMA DepthHasParts ==
  ASSUME NEW n \in Nat
  PROVE  HasParts(OfDepth(n))
<1> SUFFICES ASSUME NEW l \in Level, NEW m \in Level, mk_max_raw(l, m) \in OfDepth(n)
             PROVE  l \in OfDepth(n) /\ m \in OfDepth(n)
  BY DEF HasParts
<1>1. mk_max_raw(l, m).k = 2 /\ mk_max_raw(l, m).a = l /\ mk_max_raw(l, m).b = m
  BY Shapes
<1>2. n > 0 /\ l \in OfDepth(n - 1) /\ m \in OfDepth(n - 1)
  BY <1>1, Smaller
<1>3. OfDepth(n - 1) \subseteq OfDepth((n - 1) + 1)
  BY <1>2, DepthIsLevel
<1> QED BY <1>2, <1>3

\* The arguments of a maximum are less deep than it.
LEMMA ArgumentDepth ==
  ASSUME Recursion, NEW n \in Nat, NEW l \in OfDepth(n), l.k = 2
  PROVE  n > 0 /\ push_max_args(l) \in Seq(OfDepth(n - 1))
<1>1. n > 0 /\ l.a \in OfDepth(n - 1) /\ l.b \in OfDepth(n - 1)
  BY Smaller
<1>2. HasParts(OfDepth(n - 1)) /\ OfDepth(n - 1) \in SUBSET Level
  BY <1>1, DepthHasParts, DepthIsLevel
<1>3. push_max_args(l.a) \in Seq(OfDepth(n - 1)) /\ push_max_args(l.b) \in Seq(OfDepth(n - 1))
  BY <1>1, <1>2, Pushed
<1>4. push_max_args(l) = push_max_args(l.a) \o push_max_args(l.b)
  <2>1. push_max_args(l) = PushMaxArgs(l)
    BY DepthIsLevel DEF Recursion
  <2> QED BY <2>1, Zenon DEF PushMaxArgs, is_max
<1> QED BY <1>1, <1>3, <1>4, ConcatProperties

\* The normal form keeps the value under every assignment (level.cpp:131-168).
LEMMA NormalKept ==
  ASSUME Recursion, NEW l \in Level
  PROVE  Kept(l)
<1> DEFINE T == {n \in Nat : \A m \in OfDepth(n) : Kept(m)}
<1>1. ASSUME NEW n \in Nat, n > 0 => \A m \in OfDepth(n - 1) : Kept(m), NEW m \in OfDepth(n)
      PROVE  Kept(m)
  <2> DEFINE r == to_offset(m).base
  <2>1. m \in Level /\ r \in OfDepth(n) /\ r \in Level
    BY DepthIsLevel, BaseDepth
  <2>2. CASE r.k = 3
    <3>1. n > 0 /\ r.a \in OfDepth(n - 1) /\ r.b \in OfDepth(n - 1)
      BY <2>1, <2>2, Smaller
    <3> QED BY <3>1, <2>1, <2>2, <1>1, KeptIMax
  <2>3. CASE r.k = 2
    <3>1. n > 0 /\ push_max_args(r) \in Seq(OfDepth(n - 1))
      BY <2>1, <2>3, ArgumentDepth
    <3>2. \A i \in 1..Len(push_max_args(r)) : Kept(push_max_args(r)[i])
      BY <3>1, <1>1, ElementOfSeq
    <3> QED BY <3>2, <2>1, <2>3, KeptMax
  <2>4. CASE r.k \notin {2, 3}
    <3>1. normalize(m) = m
      BY <2>1, <2>4, NormalizeCases
    <3> QED BY <3>1, <2>1 DEF Kept
  <2> QED BY <2>2, <2>3, <2>4
<1>2. 0 \in T
  BY <1>1
<1>3. ASSUME NEW n \in T PROVE n + 1 \in T
  <2>1. n \in Nat /\ (n + 1) - 1 = n /\ \A m \in OfDepth((n + 1) - 1) : Kept(m)
    OBVIOUS
  <2>2. \A m \in OfDepth(n + 1) : Kept(m)
    BY <2>1, <1>1
  <2> QED BY <2>1, <2>2
<1>4. T = Nat
  <2> HIDE DEF T
  <2>1. T \in SUBSET Nat
    BY DEF T
  <2> QED BY <2>1, <1>2, <1>3, Induction
<1>5. PICK n \in Nat : l \in OfDepth(n)
  BY DEF Level
<1> QED BY <1>4, <1>5

(***************************************************************************)
(* Zero, parameters, instantiation, parts.                                 *)
(***************************************************************************)

LEMMA LvlZeroFacts ==
  ASSUME Recursion
  PROVE  /\ lvl_zero(Zero)
         /\ \A p \in Params : ~lvl_zero(mk_param(p))
         /\ \A l \in Level : ~lvl_zero(mk_succ(l))
         /\ \A l, m \in Level : /\ lvl_zero(mk_max_raw(l, m)) <=> lvl_zero(l) /\ lvl_zero(m)
                                /\ lvl_zero(mk_imax_raw(l, m)) <=> lvl_zero(m)
<1>1. \A l \in Level : lvl_zero(l) <=> LvlZero(l)
  BY DEF Recursion
<1> QED BY <1>1, Shapes, LevelsClosed DEF LvlZero

\* A level is zero if it is so for some assignment that makes no parameter zero (nbe.cpp:310).
LEMMA LvlZeroValue ==
  ASSUME Recursion, NEW l \in Level
  PROVE  /\ lvl_zero(l) => \A f \in Assignments : value(l, f) = 0
         /\ \A f \in Assignments : (\A p \in Params : f[p] > 0) /\ value(l, f) = 0 => lvl_zero(l)
<1> SUFFICES ASSUME NEW f \in Assignments
             PROVE  /\ lvl_zero(l) => value(l, f) = 0
                    /\ (\A p \in Params : f[p] > 0) /\ value(l, f) = 0 => lvl_zero(l)
  OBVIOUS
<1> DEFINE P(m) == /\ lvl_zero(m) => value(m, f) = 0
                   /\ (\A p \in Params : f[p] > 0) /\ value(m, f) = 0 => lvl_zero(m)
           T == {m \in Level : P(m)}
<1>1. Zero \in T
  BY LevelsClosed, ValueFacts, LvlZeroFacts
<1>2. ASSUME NEW p \in Params PROVE mk_param(p) \in T
  <2>1. value(mk_param(p), f) = f[p] /\ f[p] \in Nat /\ ~lvl_zero(mk_param(p))
    BY ValueFacts, LvlZeroFacts
  <2> QED BY <2>1, LevelsClosed
<1>3. ASSUME NEW m \in T PROVE mk_succ(m) \in T
  <2>1. value(mk_succ(m), f) = value(m, f) + 1 /\ value(m, f) \in Nat /\ ~lvl_zero(mk_succ(m))
    BY ValueFacts, ValueIsNat, LvlZeroFacts
  <2> QED BY <2>1, LevelsClosed
<1>4. ASSUME NEW m \in T, NEW m2 \in T PROVE mk_max_raw(m, m2) \in T /\ mk_imax_raw(m, m2) \in T
  <2>1. value(m, f) \in Nat /\ value(m2, f) \in Nat /\ P(m) /\ P(m2)
    BY ValueIsNat
  <2>2. /\ lvl_zero(mk_max_raw(m, m2)) <=> lvl_zero(m) /\ lvl_zero(m2)
        /\ lvl_zero(mk_imax_raw(m, m2)) <=> lvl_zero(m2)
    BY LvlZeroFacts
  <2>3. /\ value(mk_max_raw(m, m2), f) =
             IF value(m, f) >= value(m2, f) THEN value(m, f) ELSE value(m2, f)
        /\ value(mk_imax_raw(m, m2), f) =
             IF value(m2, f) = 0 THEN 0
             ELSE IF value(m, f) >= value(m2, f) THEN value(m, f) ELSE value(m2, f)
    BY ValueFacts
  <2>4. mk_max_raw(m, m2) \in Level /\ mk_imax_raw(m, m2) \in Level
    BY LevelsClosed
  <2> HIDE DEF T
  <2>5. P(mk_max_raw(m, m2)) /\ P(mk_imax_raw(m, m2))
    BY <2>1, <2>2, <2>3
  <2> QED BY <2>4, <2>5 DEF T
<1>5. T = Level
  <2> HIDE DEF T
  <2>1. T \in SUBSET Level
    BY DEF T
  <2> QED BY <2>1, <1>1, <1>2, <1>3, <1>4, LevelInduction
<1> QED BY <1>5

\* A list of zeros that is not empty has the zero maximum.
LEMMA ZeroList ==
  ASSUME Recursion, NEW s \in List, s \in Seq({Zero})
  PROVE  drop_explicit(s) = <<Zero>>
<1>1. Len(s) \in Nat \ {0} /\ \A i \in 1..Len(s) : s[i] = Zero
  BY EmptySeq, ElementOfSeq DEF List
<1>2. to_offset(Zero) = [base |-> Zero, n |-> 0]
  BY OffsetFacts, LevelsClosed, Shapes
<1>3. is_explicit(Zero)
  BY <1>2, Shapes DEF is_explicit, is_zero
<1>4. Explicit(s) = 1..Len(s)
  BY <1>1, <1>3 DEF Explicit, List
<1>5. Cardinality(Explicit(s)) = Len(s)
  BY <1>1, <1>4, FS_Interval
<1>6. drop_explicit(s) = SubSeq(s, Len(s), Len(s))
  <2> DEFINE n == Cardinality(Explicit(s))
             covered == \E j \in (n + 1)..Len(s) : to_offset(s[j]).n >= to_offset(s[n]).n
  <2>1. n = Len(s) /\ n # 0
    BY <1>1, <1>5
  <2>2. (n + 1)..Len(s) = {}
    BY <2>1, <1>1
  <2>3. ~covered
    BY <2>2
  <2>4. drop_explicit(s) = IF n = 0 THEN s ELSE SubSeq(s, IF covered THEN n + 1 ELSE n, Len(s))
    BY Zenon DEF drop_explicit
  <2> QED BY <2>1, <2>3, <2>4, Zenon
<1>7. \A i \in Len(s)..Len(s) : s[i] \in {Zero}
  BY <1>1
<1>8. /\ SubSeq(s, Len(s), Len(s)) \in Seq({Zero})
      /\ Len(SubSeq(s, Len(s), Len(s))) = 1
  BY <1>1, <1>7, SubSeqProperties
<1> HIDE DEF List
<1>9. SubSeq(s, Len(s), Len(s))[1] = Zero
  BY <1>8, ElementOfSeq
<1>10. <<Zero>> \in Seq({Zero}) /\ Len(<<Zero>>) = 1 /\ <<Zero>>[1] = Zero
  OBVIOUS
<1>11. SubSeq(s, Len(s), Len(s)) = <<Zero>>
  <2> DEFINE t == SubSeq(s, Len(s), Len(s))
  <2> HIDE DEF t
  <2>1. t \in Seq({Zero}) /\ Len(t) = 1 /\ \A i \in 1..Len(t) : t[i] = <<Zero>>[i]
    BY <1>8, <1>9, <1>10 DEF t
  <2>2. t = <<Zero>>
    BY <2>1, <1>10, SeqEqual, Zenon
  <2> QED BY <2>2 DEF t
<1> QED BY <1>6, <1>11

LEMMA ZeroMax ==
  ASSUME Recursion, NEW l \in Level, l.k = 2,
         LET s == push_max_args(l) IN \A i \in 1..Len(s) : normalize(s[i]) = Zero
  PROVE  normalize(l) = Zero
<1> DEFINE s == push_max_args(l)
           t == sort(all_args(s))
           u == last_of_base(drop_explicit(t))
           w == [i \in DOMAIN u |-> mk_succ_n(u[i], 0)]
<1>1. to_offset(l) = [base |-> l, n |-> 0]
  BY OffsetFacts
<1>2. normalize(l) = mk_max_list(w)
  <2>1. to_offset(l).base = l /\ to_offset(l).n = 0
    BY <1>1
  <2> QED BY <2>1, NormalizeCases
<1>3. s \in Seq(Level) /\ s # <<>>
  BY PushedBounds DEF List
<1>4. \A i \in 1..Len(s) : normalize(s[i]) \in {Zero}
  OBVIOUS
<1> HIDE DEF s
<1>5. HasParts({Zero}) /\ {Zero} \in SUBSET Level
  BY Shapes, LevelsClosed DEF HasParts
<1>6. all_args(s) \in Seq({Zero}) /\ all_args(s) # <<>> /\ all_args(s) \in Seq(Level)
  BY <1>3, <1>4, <1>5, AllArgsIn, SeqMonotonic
<1>7. t \in List /\ t \in Seq({Zero})
  BY <1>5, <1>6, SortBounds DEF List
<1>8. drop_explicit(t) = <<Zero>>
  BY <1>7, ZeroList
<1>9. u = <<Zero>>
  <2>1. <<Zero>> \in Seq(Level) /\ Len(<<Zero>>) <= 1
    BY LevelsClosed
  <2>2. last_of_base(<<Zero>>) = LastOfBase(<<Zero>>)
    BY <2>1 DEF Recursion
  <2> QED BY <1>8, <2>1, <2>2, Zenon DEF LastOfBase
<1>10. mk_succ_n(Zero, 0) = Zero
  BY SuccN, LevelsClosed
<1>11. w = <<Zero>>
  BY <1>9, <1>10
<1>12. mk_max_list(<<Zero>>) = Zero
  <2>1. <<Zero>> \in Seq(Level) \ {<<>>} /\ Len(<<Zero>>) = 1 /\ <<Zero>>[1] = Zero
    BY LevelsClosed
  <2>2. mk_max_list(<<Zero>>) = MkMaxList(<<Zero>>)
    BY <2>1 DEF Recursion
  <2> QED BY <2>1, <2>2 DEF MkMaxList
<1> QED BY <1>2, <1>11, <1>12

\* The normal form of a level is zero exactly when the test of proof irrelevance says so.
LEMMA ZeroNormal ==
  ASSUME Recursion, NEW l \in Level, lvl_zero(l)
  PROVE  normalize(l) = Zero
<1> DEFINE Z == {m \in Level : lvl_zero(m)}
           T == {n \in Nat : \A m \in OfDepth(n) : lvl_zero(m) => normalize(m) = Zero}
<1>0. HasParts(Z)
  BY LvlZeroFacts DEF HasParts
<1>1. ASSUME NEW n \in Nat, n > 0 => \A m \in OfDepth(n - 1) : lvl_zero(m) => normalize(m) = Zero,
             NEW m \in OfDepth(n), lvl_zero(m)
      PROVE  normalize(m) = Zero
  <2>1. m \in Level /\ m.k \in 0..4
    BY DepthIsLevel, ByKind
  <2>2. m.k \notin {1, 4}
    BY <1>1, <2>1, ByKind, LvlZeroFacts
  <2>3. to_offset(m) = [base |-> m, n |-> 0]
    BY <2>1, <2>2, OffsetFacts
  <2>4. to_offset(m).base = m /\ to_offset(m).n = 0
    BY <2>3
  <2>5. CASE m.k = 0
    <3>1. to_offset(m).base.k \notin {2, 3}
      BY <2>4, <2>5
    <3>2. normalize(m) = m
      BY <2>1, <3>1, NormalizeCases
    <3> QED BY <3>2, <2>1, <2>5, ByKind
  <2>6. CASE m.k = 3
    <3>1. n > 0 /\ m.a \in OfDepth(n - 1) /\ m.b \in OfDepth(n - 1)
      BY <2>6, Smaller
    <3>2. m = mk_imax_raw(m.a, m.b) /\ m.a \in Level /\ m.b \in Level
      BY <2>1, <2>6, ByKind
    <3>3. lvl_zero(m.b)
      BY <1>1, <3>2, LvlZeroFacts
    <3>4. normalize(m.b) = Zero
      BY <3>1, <3>3, <1>1
    <3>5. normalize(m) = mk_succ_n(mk_imax_s(normalize(m.a), Zero), 0)
      BY <2>1, <2>4, <2>6, <3>4, NormalizeCases
    <3>6. ~is_never_zero(Zero)
      BY LevelsClosed, Shapes DEF Recursion, IsNeverZero
    <3>7. mk_imax_s(normalize(m.a), Zero) = Zero
      BY <3>6, Shapes DEF mk_imax_s, is_zero
    <3> QED BY <3>5, <3>7, SuccN, LevelsClosed
  <2>7. CASE m.k = 2
    <3>1. n > 0 /\ push_max_args(m) \in Seq(OfDepth(n - 1))
      BY <2>7, ArgumentDepth
    <3>2. m \in Z /\ Z \in SUBSET Level
      BY <2>1, <1>1
    <3> HIDE DEF Z
    <3>3. push_max_args(m) \in Seq(Z)
      BY <3>2, <1>0, Pushed
    <3>4. ASSUME NEW i \in 1..Len(push_max_args(m)) PROVE normalize(push_max_args(m)[i]) = Zero
      <4>1. push_max_args(m)[i] \in Z /\ push_max_args(m)[i] \in OfDepth(n - 1)
        BY <3>1, <3>3, ElementOfSeq
      <4>2. lvl_zero(push_max_args(m)[i])
        BY <4>1 DEF Z
      <4> QED BY <4>1, <4>2, <3>1, <1>1
    <3> QED BY <3>4, <2>1, <2>7, ZeroMax
  <2> QED BY <2>1, <2>2, <2>5, <2>6, <2>7
<1>2. 0 \in T
  BY <1>1
<1>3. ASSUME NEW n \in T PROVE n + 1 \in T
  <2>1. n \in Nat /\ (n + 1) - 1 = n /\ \A m \in OfDepth((n + 1) - 1) : lvl_zero(m) => normalize(m) = Zero
    OBVIOUS
  <2>2. \A m \in OfDepth(n + 1) : lvl_zero(m) => normalize(m) = Zero
    BY <2>1, <1>1
  <2> QED BY <2>1, <2>2
<1>4. T = Nat
  <2> HIDE DEF T
  <2>1. T \in SUBSET Nat
    BY DEF T
  <2> QED BY <2>1, <1>2, <1>3, Induction
<1>5. PICK n \in Nat : l \in OfDepth(n)
  BY DEF Level
<1> QED BY <1>4, <1>5

LEMMA ParamsFacts ==
  ASSUME Recursion
  PROVE  /\ \A p \in Params : params_of(mk_param(p)) = {p}
         /\ \A l \in Level : params_of(mk_succ(l)) = params_of(l)
         /\ \A l, m \in Level : /\ params_of(mk_max_raw(l, m)) = params_of(l) \cup params_of(m)
                                /\ params_of(mk_imax_raw(l, m)) = params_of(l) \cup params_of(m)
<1>1. \A l \in Level : params_of(l) = ParamsOf(l)
  BY DEF Recursion
<1> QED BY <1>1, Shapes, LevelsClosed DEF ParamsOf

\* The value depends on the parameters of the level alone (level.cpp:207).
LEMMA SameParams ==
  ASSUME Recursion, NEW l \in Level, NEW f \in Assignments, NEW g \in Assignments,
         \A p \in params_of(l) : f[p] = g[p]
  PROVE  value(l, f) = value(l, g)
<1> DEFINE P(m) == (\A p \in params_of(m) : f[p] = g[p]) => value(m, f) = value(m, g)
           T == {m \in Level : P(m)}
<1>1. Zero \in T
  BY LevelsClosed, ValueFacts
<1>2. ASSUME NEW p \in Params PROVE mk_param(p) \in T
  <2>1. value(mk_param(p), f) = f[p] /\ value(mk_param(p), g) = g[p] /\ params_of(mk_param(p)) = {p}
    BY ValueFacts, ParamsFacts
  <2> QED BY <2>1, LevelsClosed
<1>3. ASSUME NEW m \in T PROVE mk_succ(m) \in T
  <2>1. /\ value(mk_succ(m), f) = value(m, f) + 1 /\ value(mk_succ(m), g) = value(m, g) + 1
        /\ params_of(mk_succ(m)) = params_of(m)
    BY ValueFacts, ParamsFacts
  <2> QED BY <2>1, LevelsClosed
<1>4. ASSUME NEW m \in T, NEW m2 \in T PROVE mk_max_raw(m, m2) \in T /\ mk_imax_raw(m, m2) \in T
  <2>1. m \in Level /\ m2 \in Level /\ P(m) /\ P(m2)
    OBVIOUS
  <2>2. /\ params_of(mk_max_raw(m, m2)) = params_of(m) \cup params_of(m2)
        /\ params_of(mk_imax_raw(m, m2)) = params_of(m) \cup params_of(m2)
    BY <2>1, ParamsFacts
  <2>3. \A h \in Assignments :
          /\ value(mk_max_raw(m, m2), h) =
               IF value(m, h) >= value(m2, h) THEN value(m, h) ELSE value(m2, h)
          /\ value(mk_imax_raw(m, m2), h) =
               IF value(m2, h) = 0 THEN 0
               ELSE IF value(m, h) >= value(m2, h) THEN value(m, h) ELSE value(m2, h)
    BY <2>1, ValueFacts
  <2>4. mk_max_raw(m, m2) \in Level /\ mk_imax_raw(m, m2) \in Level
    BY <2>1, LevelsClosed
  <2> HIDE DEF T
  <2>5. P(mk_max_raw(m, m2)) /\ P(mk_imax_raw(m, m2))
    BY <2>1, <2>2, <2>3
  <2> QED BY <2>4, <2>5 DEF T
<1>5. T = Level
  <2> HIDE DEF T
  <2>1. T \in SUBSET Level
    BY DEF T
  <2> QED BY <2>1, <1>1, <1>2, <1>3, <1>4, LevelInduction
<1> QED BY <1>5

LEMMA InstantiateFacts ==
  ASSUME Recursion, NEW s \in Substitutions
  PROVE  /\ instantiate_level_params(Zero, s) = Zero
         /\ \A p \in Params : instantiate_level_params(mk_param(p), s) =
              IF p \in DOMAIN s THEN s[p] ELSE mk_param(p)
         /\ \A l \in Level : instantiate_level_params(mk_succ(l), s) =
              mk_succ(instantiate_level_params(l, s))
         /\ \A l, m \in Level :
              /\ instantiate_level_params(mk_max_raw(l, m), s) =
                   mk_max_s(instantiate_level_params(l, s), instantiate_level_params(m, s))
              /\ instantiate_level_params(mk_imax_raw(l, m), s) =
                   mk_imax_s(instantiate_level_params(l, s), instantiate_level_params(m, s))
<1>1. \A l \in Level : instantiate_level_params(l, s) = Instantiated(l, s)
  BY DEF Recursion
<1> QED BY <1>1, Shapes, LevelsClosed DEF Instantiated

\* Instantiation: the parameters get the values of their levels (level.cpp:193).
LEMMA InstantiateValue ==
  ASSUME Recursion, NEW l \in Level, NEW s \in Substitutions
  PROVE  /\ instantiate_level_params(l, s) \in Level
         /\ \A f, g \in Assignments :
              (\A p \in Params : g[p] = IF p \in DOMAIN s THEN value(s[p], f) ELSE f[p])
                => value(instantiate_level_params(l, s), f) = value(l, g)
<1> DEFINE J(m) == instantiate_level_params(m, s)
           Match(f, g) == \A p \in Params : g[p] = IF p \in DOMAIN s THEN value(s[p], f) ELSE f[p]
           P(m) == /\ J(m) \in Level
                   /\ \A f, g \in Assignments : Match(f, g) => value(J(m), f) = value(m, g)
           T == {m \in Level : P(m)}
<1>0. \A p \in DOMAIN s : s[p] \in Level
  BY DEF Substitutions
<1>1. Zero \in T
  <2>1. J(Zero) = Zero /\ \A f \in Assignments : value(Zero, f) = 0
    BY InstantiateFacts, ValueFacts
  <2> QED BY <2>1, LevelsClosed
<1>2. ASSUME NEW p \in Params PROVE mk_param(p) \in T
  <2>1. J(mk_param(p)) = IF p \in DOMAIN s THEN s[p] ELSE mk_param(p)
    BY InstantiateFacts
  <2>2. \A f \in Assignments : value(mk_param(p), f) = f[p]
    BY ValueFacts
  <2>3. mk_param(p) \in Level
    BY LevelsClosed
  <2> HIDE DEF J
  <2>4. J(mk_param(p)) \in Level
    BY <1>0, <2>1, <2>3
  <2>5. ASSUME NEW f \in Assignments, NEW g \in Assignments, Match(f, g)
        PROVE  value(J(mk_param(p)), f) = value(mk_param(p), g)
    BY <2>1, <2>2, <2>5
  <2> QED BY <2>3, <2>4, <2>5
<1>3. ASSUME NEW m \in T PROVE mk_succ(m) \in T
  <2>1. m \in Level /\ P(m)
    OBVIOUS
  <2>2. J(mk_succ(m)) = mk_succ(J(m)) /\ mk_succ(J(m)) \in Level /\ mk_succ(m) \in Level
    BY <2>1, InstantiateFacts, LevelsClosed
  <2>3. \A f \in Assignments : /\ value(mk_succ(J(m)), f) = value(J(m), f) + 1
                               /\ value(mk_succ(m), f) = value(m, f) + 1
    BY <2>1, ValueFacts
  <2> HIDE DEF J, T, Match
  <2> QED BY <2>1, <2>2, <2>3 DEF T
<1>4. ASSUME NEW m \in T, NEW m2 \in T PROVE mk_max_raw(m, m2) \in T /\ mk_imax_raw(m, m2) \in T
  <2>1. m \in Level /\ m2 \in Level /\ P(m) /\ P(m2)
    OBVIOUS
  <2>2. /\ J(mk_max_raw(m, m2)) = mk_max_s(J(m), J(m2))
        /\ J(mk_imax_raw(m, m2)) = mk_imax_s(J(m), J(m2))
    BY <2>1, InstantiateFacts
  <2>3. mk_max_s(J(m), J(m2)) \in Level /\ mk_imax_s(J(m), J(m2)) \in Level
    BY <2>1, MaxValue, IMaxValue
  <2>4. \A h \in Assignments :
          /\ value(mk_max_raw(m, m2), h) = Larger(value(m, h), value(m2, h))
          /\ value(mk_imax_raw(m, m2), h) =
               IF value(m2, h) = 0 THEN 0 ELSE Larger(value(m, h), value(m2, h))
    BY <2>1, ValueFacts DEF Larger
  <2>5. \A h \in Assignments :
          /\ value(mk_max_s(J(m), J(m2)), h) = Larger(value(J(m), h), value(J(m2), h))
          /\ value(mk_imax_s(J(m), J(m2)), h) =
               IF value(J(m2), h) = 0 THEN 0 ELSE Larger(value(J(m), h), value(J(m2), h))
    BY <2>1, MaxValue, IMaxValue
  <2>6. mk_max_raw(m, m2) \in Level /\ mk_imax_raw(m, m2) \in Level
    BY <2>1, LevelsClosed
  <2> HIDE DEF T, J, Match
  <2>7. P(mk_max_raw(m, m2)) /\ P(mk_imax_raw(m, m2))
    BY <2>1, <2>2, <2>3, <2>4, <2>5
  <2> QED BY <2>6, <2>7 DEF T
<1>5. T = Level
  <2> HIDE DEF T
  <2>1. T \in SUBSET Level
    BY DEF T
  <2> QED BY <2>1, <1>1, <1>2, <1>3, <1>4, LevelInduction
<1> QED BY <1>5

LEMMA PartsAreLevels ==
  ASSUME Recursion, NEW l \in Level
  PROVE  parts(l) \subseteq Level
<1> DEFINE T == {m \in Level : parts(m) \subseteq Level}
<1>0. \A m \in Level : parts(m) = Parts(m)
  BY DEF Recursion
<1>1. Zero \in T /\ \A p \in Params : mk_param(p) \in T
  BY <1>0, LevelsClosed, Shapes DEF Parts
<1>2. ASSUME NEW m \in T PROVE mk_succ(m) \in T
  BY <1>0, LevelsClosed, Shapes DEF Parts
<1>3. ASSUME NEW m \in T, NEW m2 \in T PROVE mk_max_raw(m, m2) \in T /\ mk_imax_raw(m, m2) \in T
  BY <1>0, LevelsClosed, Shapes DEF Parts
<1>4. T = Level
  <2> HIDE DEF T
  <2>1. T \in SUBSET Level
    BY DEF T
  <2> QED BY <2>1, <1>1, <1>2, <1>3, LevelInduction
<1> QED BY <1>4

(***************************************************************************)
(* Leaves.  The normal form of a level has no more leaves than the level:  *)
(* that is why a comparison, which normalizes at every call, ends.         *)
(***************************************************************************)

IsLeaves(g, n) ==
  /\ g \in [OfDepth(n) -> Nat]
  /\ \A l \in OfDepth(n) : g[l] = IF l.k = 1 THEN g[l.a] ELSE IF l.k \in {2, 3} THEN g[l.a] + g[l.b] ELSE 1

LEMMA PartsInDepth ==
  ASSUME NEW n \in Nat, NEW l \in OfDepth(n)
  PROVE  /\ l.k = 1 => l.a \in OfDepth(n)
         /\ l.k \in {2, 3} => l.a \in OfDepth(n) /\ l.b \in OfDepth(n)
<1> SUFFICES ASSUME l.k \in 1..3 PROVE l.a \in OfDepth(n) /\ (l.k # 1 => l.b \in OfDepth(n))
  OBVIOUS
<1>1. n > 0 /\ l.a \in OfDepth(n - 1) /\ (l.k # 1 => l.b \in OfDepth(n - 1))
  BY Smaller
<1>2. n - 1 \in Nat /\ (n - 1) + 1 = n
  BY <1>1
<1>3. OfDepth(n - 1) \subseteq OfDepth(n)
  BY <1>2, DepthIsLevel
<1> QED BY <1>1, <1>3

LEMMA LeavesExist ==
  ASSUME NEW n \in Nat
  PROVE  \E g : IsLeaves(g, n)
<1> DEFINE T == {i \in Nat : \E g : IsLeaves(g, i)}
           Deep(g, l) == IF l.k = 1 THEN g[l.a] ELSE IF l.k \in {2, 3} THEN g[l.a] + g[l.b] ELSE 1
<1>1. 0 \in T
  <2>1. IsLeaves([l \in OfDepth(0) |-> 1], 0)
    <3>1. \A l \in OfDepth(0) : l.k \notin 1..3
      BY Smaller
    <3> QED BY <3>1 DEF IsLeaves
  <2> QED BY <2>1
<1>2. ASSUME NEW i \in T PROVE i + 1 \in T
  <2>1. PICK g : IsLeaves(g, i)
    OBVIOUS
  <2> DEFINE e == [l \in OfDepth(i + 1) |-> IF l \in OfDepth(i) THEN g[l] ELSE Deep(g, l)]
  <2>2. i \in Nat /\ OfDepth(i) \subseteq OfDepth(i + 1)
    BY DepthIsLevel
  <2>3. \A l \in OfDepth(i) : g[l] \in Nat /\ g[l] = Deep(g, l)
    BY <2>1 DEF IsLeaves
  <2>4. \A l \in OfDepth(i + 1) : /\ l.k = 1 => l.a \in OfDepth(i)
                                  /\ l.k \in {2, 3} => l.a \in OfDepth(i) /\ l.b \in OfDepth(i)
    <3> TAKE l \in OfDepth(i + 1)
    <3>1. i + 1 \in Nat /\ (i + 1) - 1 = i
      BY <2>2
    <3> QED BY <3>1, Smaller
  <2>5. \A l \in OfDepth(i + 1) : e[l] = Deep(g, l) /\ e[l] \in Nat
    BY <2>3, <2>4
  <2>6. \A l \in OfDepth(i) : e[l] = g[l]
    BY <2>2
  <2>7. \A l \in OfDepth(i + 1) : Deep(e, l) = Deep(g, l)
    <3> HIDE DEF e
    <3> QED BY <2>4, <2>6
  <2>8. e \in [OfDepth(i + 1) -> Nat]
    <3>1. \A l \in OfDepth(i + 1) : (IF l \in OfDepth(i) THEN g[l] ELSE Deep(g, l)) \in Nat
      BY <2>5
    <3> HIDE DEF Deep
    <3> QED BY <3>1
  <2>9. IsLeaves(e, i + 1)
    <3> HIDE DEF e
    <3> QED BY <2>5, <2>7, <2>8 DEF IsLeaves
  <2> QED BY <2>9, <2>2
<1>3. T = Nat
  <2> HIDE DEF T
  <2>1. T \in SUBSET Nat
    BY DEF T
  <2> QED BY <2>1, <1>1, <1>2, Induction
<1> QED BY <1>3

LeavesTo(n) == CHOOSE g : IsLeaves(g, n)
DepthOf(l) == CHOOSE n \in Nat : l \in OfDepth(n)
leaves(l) == LeavesTo(DepthOf(l))[l]

LEMMA LeavesAgree ==
  ASSUME NEW n \in Nat, NEW l \in OfDepth(n)
  PROVE  leaves(l) = LeavesTo(n)[l] /\ leaves(l) \in Nat
<1> DEFINE G(i) == LeavesTo(i)
           T == {m \in Level : \A i, j \in Nat : m \in OfDepth(i) /\ m \in OfDepth(j) => G(i)[m] = G(j)[m]}
<1>0. \A i \in Nat : IsLeaves(G(i), i)
  BY LeavesExist, Zenon DEF LeavesTo
<1> HIDE DEF G
<1>1. ASSUME NEW m \in Level, m.k \notin 1..3 PROVE m \in T
  <2>1. \A i \in Nat : m \in OfDepth(i) => G(i)[m] = 1
    BY <1>0, <1>1 DEF IsLeaves
  <2> QED BY <2>1
<1>2. ASSUME NEW m \in T PROVE mk_succ(m) \in T
  <2>1. mk_succ(m) \in Level /\ mk_succ(m).k = 1 /\ mk_succ(m).a = m
    BY Shapes, LevelsClosed
  <2>2. \A i \in Nat : mk_succ(m) \in OfDepth(i) => m \in OfDepth(i) /\ G(i)[mk_succ(m)] = G(i)[m]
    BY <1>0, <2>1, PartsInDepth DEF IsLeaves
  <2> QED BY <2>1, <2>2
<1>3. ASSUME NEW m \in T, NEW m2 \in T, NEW l2 \in {mk_max_raw(m, m2), mk_imax_raw(m, m2)}
      PROVE  l2 \in T
  <2>1. l2 \in Level /\ l2.k \in {2, 3} /\ l2.a = m /\ l2.b = m2
    BY Shapes, LevelsClosed
  <2>2. \A i \in Nat : l2 \in OfDepth(i) => m \in OfDepth(i) /\ m2 \in OfDepth(i) /\ G(i)[l2] = G(i)[m] + G(i)[m2]
    BY <1>0, <2>1, PartsInDepth DEF IsLeaves
  <2>3. \A i, j \in Nat : l2 \in OfDepth(i) /\ l2 \in OfDepth(j) => G(i)[m] = G(j)[m] /\ G(i)[m2] = G(j)[m2]
    BY <2>2
  <2> QED BY <2>1, <2>2, <2>3
<1>4. T = Level
  <2> HIDE DEF T
  <2>1. T \in SUBSET Level
    BY DEF T
  <2>2. Zero \in T /\ \A p \in Params : mk_param(p) \in T
    BY <1>1, LevelsClosed, Shapes
  <2> QED BY <2>1, <2>2, <1>2, <1>3, LevelInduction
<1>5. l \in Level
  BY DEF Level
<1>6. DepthOf(l) \in Nat /\ l \in OfDepth(DepthOf(l))
  BY Zenon DEF DepthOf
<1>7. leaves(l) = G(n)[l]
  BY <1>4, <1>5, <1>6 DEF leaves, G
<1>8. G(n)[l] \in Nat
  BY <1>0 DEF IsLeaves
<1> QED BY <1>7, <1>8 DEF G

LEMMA LeavesFacts ==
  /\ \A l \in Level : leaves(l) \in Nat /\ leaves(l) >= 1
  /\ \A l \in Level : l.k = 1 => leaves(l) = leaves(l.a)
  /\ \A l \in Level : l.k \in {2, 3} => leaves(l) = leaves(l.a) + leaves(l.b)
  /\ \A l \in Level : l.k \in {0, 4} => leaves(l) = 1
<1>1. ASSUME NEW l \in Level
      PROVE  /\ l.k = 1 => leaves(l) = leaves(l.a)
             /\ l.k \in {2, 3} => leaves(l) = leaves(l.a) + leaves(l.b)
             /\ l.k \in {0, 4} => leaves(l) = 1
             /\ leaves(l) \in Nat
  <2>1. PICK n \in Nat : l \in OfDepth(n)
    BY DEF Level
  <2>2. IsLeaves(LeavesTo(n), n)
    BY LeavesExist, Zenon DEF LeavesTo
  <2>3. \A m \in OfDepth(n) : leaves(m) = LeavesTo(n)[m] /\ leaves(m) \in Nat
    BY LeavesAgree
  <2>4. /\ l.k = 1 => l.a \in OfDepth(n)
        /\ l.k \in {2, 3} => l.a \in OfDepth(n) /\ l.b \in OfDepth(n)
    BY <2>1, PartsInDepth
  <2> HIDE DEF leaves
  <2> QED BY <2>1, <2>2, <2>3, <2>4 DEF IsLeaves
<1> DEFINE T == {l \in Level : leaves(l) >= 1}
<1>2. \A l \in Level : l.k \in {0, 4} => l \in T
  BY <1>1
<1>3. ASSUME NEW l \in T PROVE mk_succ(l) \in T
  BY <1>1, Shapes, LevelsClosed
<1>4. ASSUME NEW l \in T, NEW m \in T PROVE mk_max_raw(l, m) \in T /\ mk_imax_raw(l, m) \in T
  <2>1. leaves(l) \in Nat /\ leaves(m) \in Nat /\ leaves(l) >= 1 /\ leaves(m) >= 1
    BY <1>1
  <2>2. leaves(mk_max_raw(l, m)) = leaves(l) + leaves(m) /\ leaves(mk_imax_raw(l, m)) = leaves(l) + leaves(m)
    BY <1>1, Shapes, LevelsClosed
  <2> QED BY <2>1, <2>2, LevelsClosed
<1>5. T = Level
  <2> HIDE DEF T
  <2>1. T \in SUBSET Level
    BY DEF T
  <2>2. Zero \in T /\ \A p \in Params : mk_param(p) \in T
    BY <1>2, LevelsClosed, Shapes
  <2> QED BY <2>1, <2>2, <1>3, <1>4, LevelInduction
<1> QED BY <1>1, <1>5

LEMMA Injected ==
  ASSUME NEW S, NEW T, IsFiniteSet(T), NEW g \in [S -> T], \A a, b \in S : g[a] = g[b] => a = b
  PROVE  IsFiniteSet(S) /\ Cardinality(S) <= Cardinality(T) /\ Cardinality(S) \in Nat /\ Cardinality(T) \in Nat
<1>1. g \in Injection(S, T)
  BY Fun_IsInj
<1> QED BY <1>1, FS_Injection, FS_CardinalityType

\* The leaves of a list, each with the position of its level.
Leaves(s) == {r \in (1..Len(s)) \X Nat : r[2] \in 1..leaves(s[r[1]])}
Total(s) == Cardinality(Leaves(s))

LEMMA LeavesFinite ==
  ASSUME NEW s \in Seq(Level)
  PROVE  IsFiniteSet(Leaves(s)) /\ Total(s) \in Nat
<1> DEFINE U(n) == {r \in Leaves(s) : r[1] <= n}
           T == {n \in Nat : IsFiniteSet(U(n))}
<1>1. 0 \in T
  <2>1. U(0) = {}
    BY DEF Leaves
  <2> QED BY <2>1, FS_EmptySet
<1>2. ASSUME NEW n \in T PROVE n + 1 \in T
  <2> DEFINE A == {n + 1} \X (1..leaves(s[n + 1]))
  <2>1. n \in Nat /\ IsFiniteSet(U(n))
    OBVIOUS
  <2> HIDE DEF T
  <2>2. CASE n + 1 <= Len(s)
    <3>1. leaves(s[n + 1]) \in Nat
      <4>1. n + 1 \in 1..Len(s)
        BY <2>1, <2>2
      <4>2. s[n + 1] \in Level
        BY <4>1
      <4> QED BY <4>2, LeavesFacts
    <3>2. IsFiniteSet(A)
      <4>1. IsFiniteSet(1..leaves(s[n + 1]))
        BY <3>1, FS_Interval
      <4>2. IsFiniteSet({n + 1})
        BY FS_Singleton
      <4> QED BY <4>1, <4>2, FS_Product
    <3>3. U(n + 1) \subseteq U(n) \cup A
      BY <2>1 DEF Leaves
    <3>4. IsFiniteSet(U(n) \cup A)
      BY <2>1, <3>2, FS_Union
    <3>5. IsFiniteSet(U(n + 1))
      BY <3>3, <3>4, FS_Subset
    <3> HIDE DEF U
    <3> QED BY <2>1, <3>5 DEF T
  <2>3. CASE ~(n + 1 <= Len(s))
    <3>1. U(n + 1) = U(n)
      BY <2>1, <2>3 DEF Leaves
    <3> HIDE DEF U
    <3> QED BY <2>1, <3>1 DEF T
  <2> QED BY <2>2, <2>3
<1>3. T = Nat
  <2> HIDE DEF T
  <2>1. T \in SUBSET Nat
    BY DEF T
  <2> QED BY <2>1, <1>1, <1>2, Induction
<1>4. Len(s) \in Nat /\ U(Len(s)) = Leaves(s)
  BY DEF Leaves
<1>5. IsFiniteSet(Leaves(s))
  BY <1>3, <1>4
<1> QED BY <1>5, FS_CardinalityType DEF Total

LEMMA TotalOfOne ==
  ASSUME NEW l \in Level
  PROVE  Total(<<l>>) = leaves(l)
<1>1. leaves(l) \in Nat
  BY LeavesFacts
<1>2. Leaves(<<l>>) = {1} \X (1..leaves(l))
  BY <1>1 DEF Leaves
<1>3. IsFiniteSet({1}) /\ Cardinality({1}) = 1
  BY FS_Singleton
<1>4. IsFiniteSet(1..leaves(l)) /\ Cardinality(1..leaves(l)) = leaves(l)
  BY <1>1, FS_Interval
<1>5. Cardinality({1} \X (1..leaves(l))) = Cardinality({1}) * Cardinality(1..leaves(l))
  BY <1>3, <1>4, FS_Product
<1>6. Cardinality({1} \X (1..leaves(l))) = 1 * leaves(l)
  BY <1>3, <1>4, <1>5
<1>7. 1 * leaves(l) = leaves(l)
  BY <1>1
<1> QED BY <1>2, <1>6, <1>7 DEF Total

LEMMA TotalOfTwo ==
  ASSUME NEW s \in Seq(Level), NEW t \in Seq(Level)
  PROVE  Total(s \o t) = Total(s) + Total(t)
<1> DEFINE n == Len(s)
           B == {r \in Leaves(s \o t) : r[1] > n}
           g == [r \in Leaves(t) |-> <<n + r[1], r[2]>>]
<1>1. /\ s \o t \in Seq(Level) /\ Len(s \o t) = n + Len(t) /\ n \in Nat /\ Len(t) \in Nat
      /\ \A i \in 1..n + Len(t) : (s \o t)[i] = IF i <= n THEN s[i] ELSE t[i - n]
  BY ConcatProperties, LenProperties
<1> HIDE DEF n
<1>2. IsFiniteSet(Leaves(s)) /\ IsFiniteSet(Leaves(t)) /\ IsFiniteSet(Leaves(s \o t))
  BY <1>1, LeavesFinite
<1>3. Leaves(s) = {r \in Leaves(s \o t) : r[1] <= n}
  BY <1>1 DEF Leaves, n
<1>4. Leaves(s \o t) = Leaves(s) \cup B /\ Leaves(s) \cap B = {}
  <2>1. \A r \in Leaves(s \o t) : r[1] \in Nat
    BY <1>1 DEF Leaves
  <2> QED BY <1>1, <1>3, <2>1
<1>5. g \in [Leaves(t) -> B]
  <2> SUFFICES ASSUME NEW r \in Leaves(t) PROVE <<n + r[1], r[2]>> \in B
    OBVIOUS
  <2>1. r[1] \in 1..Len(t) /\ r[2] \in Nat /\ r[2] \in 1..leaves(t[r[1]])
    BY DEF Leaves
  <2>2. n + r[1] \in 1..Len(s \o t) /\ n + r[1] > n /\ (s \o t)[n + r[1]] = t[r[1]]
    BY <1>1, <2>1
  <2> QED BY <2>1, <2>2 DEF Leaves
<1>6. \A a, b \in Leaves(t) : g[a] = g[b] => a = b
  <2> SUFFICES ASSUME NEW a \in Leaves(t), NEW b \in Leaves(t), g[a] = g[b] PROVE a = b
    OBVIOUS
  <2>1. n + a[1] = n + b[1] /\ a[2] = b[2]
    OBVIOUS
  <2>2. a \in Nat \X Nat /\ b \in Nat \X Nat
    BY <1>1 DEF Leaves
  <2> QED BY <2>1, <2>2, <1>1
<1>7. \A b \in B : \E a \in Leaves(t) : g[a] = b
  <2> TAKE b \in B
  <2>1. b[1] \in 1..Len(s \o t) /\ b[1] > n /\ b[2] \in Nat /\ b[2] \in 1..leaves((s \o t)[b[1]])
        /\ b = <<b[1], b[2]>>
    BY DEF Leaves
  <2>2. b[1] - n \in 1..Len(t) /\ (s \o t)[b[1]] = t[b[1] - n]
    BY <1>1, <2>1
  <2>3. <<b[1] - n, b[2]>> \in Leaves(t)
    BY <2>1, <2>2 DEF Leaves
  <2>4. g[<<b[1] - n, b[2]>>] = <<n + (b[1] - n), b[2]>>
    BY <2>3
  <2>5. n + (b[1] - n) = b[1]
    BY <1>1, <2>1
  <2> QED BY <2>1, <2>3, <2>4, <2>5
<1>8. Cardinality(B) = Cardinality(Leaves(t)) /\ IsFiniteSet(B)
  <2> HIDE DEF g, B
  <2>1. g \in Bijection(Leaves(t), B)
    BY <1>5, <1>6, <1>7, Fun_IsBij
  <2>2. ExistsBijection(Leaves(t), B)
    BY <2>1 DEF ExistsBijection
  <2> QED BY <2>2, <1>2, FS_Bijection
<1>9. Cardinality(Leaves(s) \cup B) = Cardinality(Leaves(s)) + Cardinality(B) - Cardinality(Leaves(s) \cap B)
  <2> HIDE DEF B
  <2> QED BY <1>2, <1>8, FS_Union
<1>10. Cardinality({}) = 0 /\ Cardinality(Leaves(s)) \in Nat /\ Cardinality(B) \in Nat
  <2> HIDE DEF B
  <2> QED BY <1>2, <1>8, FS_EmptySet, FS_CardinalityType
<1> HIDE DEF B
<1>11. Cardinality(Leaves(s) \cap B) = 0
  BY <1>4, <1>10
<1>12. Cardinality(Leaves(s \o t)) = Cardinality(Leaves(s)) + Cardinality(B)
  BY <1>4, <1>9, <1>10, <1>11
<1> QED BY <1>8, <1>12 DEF Total

LEMMA TotalOfFirst ==
  ASSUME NEW s \in List
  PROVE  Total(s) = leaves(s[1]) + Total(Tail(s))
<1>1. s[1] \in Level /\ Tail(s) \in Seq(Level) /\ Len(Tail(s)) = Len(s) - 1
      /\ \A i \in 1..Len(Tail(s)) : Tail(s)[i] = s[i + 1]
  BY FirstAndRest
<1>2. s \in Seq(Level) /\ Len(s) \in Nat \ {0}
  BY EmptySeq DEF List
<1>3. <<s[1]>> \in Seq(Level) /\ Len(<<s[1]>>) = 1 /\ <<s[1]>>[1] = s[1]
  BY <1>1
<1> DEFINE t == <<s[1]>> \o Tail(s)
<1>4. /\ t \in Seq(Level) /\ Len(t) = 1 + Len(Tail(s))
      /\ \A i \in 1..(1 + Len(Tail(s))) : t[i] = IF i <= 1 THEN <<s[1]>>[i] ELSE Tail(s)[i - 1]
  BY <1>1, <1>3, ConcatProperties
<1> HIDE DEF t
<1>5. ASSUME NEW i \in 1..Len(s) PROVE s[i] = t[i]
  <2>1. CASE i = 1
    BY <2>1, <1>2, <1>1, <1>3, <1>4
  <2>2. CASE i # 1
    <3>1. i - 1 \in 1..Len(Tail(s)) /\ i \in 1..(1 + Len(Tail(s))) /\ ~(i <= 1) /\ (i - 1) + 1 = i
      BY <2>2, <1>1, <1>2
    <3> QED BY <3>1, <1>1, <1>4
  <2> QED BY <2>1, <2>2
<1>6. s = t
  <2>1. Len(s) = Len(t)
    BY <1>1, <1>2, <1>4
  <2> QED BY <2>1, <1>2, <1>4, <1>5, SeqEqual
<1>7. Total(t) = Total(<<s[1]>>) + Total(Tail(s))
  BY <1>1, <1>3, TotalOfTwo DEF t
<1> QED BY <1>1, <1>6, <1>7, TotalOfOne

\* Any part of a list, in any order, has no more leaves.
LEMMA TotalOfSome ==
  ASSUME NEW s \in Seq(Level), NEW t \in Seq(Level), NEW q \in [1..Len(t) -> 1..Len(s)],
         \A i \in 1..Len(t) : leaves(t[i]) = leaves(s[q[i]]),
         \A i, j \in 1..Len(t) : q[i] = q[j] => i = j
  PROVE  Total(t) <= Total(s)
<1> DEFINE g == [r \in Leaves(t) |-> <<q[r[1]], r[2]>>]
<1>1. \A r \in Leaves(t) : r \in (1..Len(t)) \X Nat /\ r[1] \in 1..Len(t) /\ r[2] \in Nat
                           /\ r[2] \in 1..leaves(t[r[1]]) /\ r = <<r[1], r[2]>>
  BY DEF Leaves
<1>2. g \in [Leaves(t) -> Leaves(s)]
  <2> SUFFICES ASSUME NEW r \in Leaves(t) PROVE <<q[r[1]], r[2]>> \in Leaves(s)
    OBVIOUS
  <2>1. q[r[1]] \in 1..Len(s) /\ leaves(t[r[1]]) = leaves(s[q[r[1]]])
    BY <1>1
  <2>2. r[2] \in 1..leaves(s[q[r[1]]]) /\ r[2] \in Nat
    BY <1>1, <2>1
  <2> QED BY <2>1, <2>2 DEF Leaves
<1>3. ASSUME NEW a \in Leaves(t), NEW b \in Leaves(t), g[a] = g[b] PROVE a = b
  <2>1. q[a[1]] = q[b[1]] /\ a[2] = b[2]
    BY <1>3
  <2>2. a[1] = b[1]
    BY <2>1, <1>1
  <2> QED BY <2>1, <2>2, <1>1
<1>4. IsFiniteSet(Leaves(s))
  BY LeavesFinite
<1> HIDE DEF g
<1> QED BY <1>2, <1>3, <1>4, Injected DEF Total

LEMMA LeavesOfTwo ==
  ASSUME NEW l \in Level, NEW m \in Level
  PROVE  /\ mk_max_s(l, m) \in {l, m, mk_max_raw(l, m)}
         /\ mk_imax_s(l, m) \in {l, m, mk_max_raw(l, m), mk_imax_raw(l, m)}
         /\ leaves(mk_max_raw(l, m)) = leaves(l) + leaves(m)
         /\ leaves(mk_imax_raw(l, m)) = leaves(l) + leaves(m)
         /\ leaves(l) \in Nat /\ leaves(m) \in Nat /\ leaves(l) >= 1 /\ leaves(m) >= 1
<1>1. mk_max_s(l, m) \in {l, m, mk_max_raw(l, m)}
  BY DEF mk_max_s
<1>2. mk_imax_s(l, m) \in {l, m, mk_max_s(l, m), mk_imax_raw(l, m)}
  BY DEF mk_imax_s
<1>3. mk_max_raw(l, m) \in Level /\ mk_imax_raw(l, m) \in Level
  BY LevelsClosed
<1> QED BY <1>1, <1>2, <1>3, LeavesFacts, Shapes

LEMMA LeavesOfSucc ==
  ASSUME Recursion, NEW n \in Nat, NEW l \in Level
  PROVE  leaves(mk_succ_n(l, n)) = leaves(l)
<1> DEFINE T == {i \in Nat : \A m \in Level : leaves(mk_succ_n(m, i)) = leaves(m)}
<1>1. 0 \in T
  BY SuccN
<1>2. ASSUME NEW i \in T PROVE i + 1 \in T
  <2> SUFFICES ASSUME NEW m \in Level PROVE leaves(mk_succ_n(m, i + 1)) = leaves(m)
    OBVIOUS
  <2>1. mk_succ_n(m, i + 1) = mk_succ_n(mk_succ(m), i)
    BY DEF Recursion, MkSuccN
  <2>2. mk_succ(m) \in Level /\ leaves(mk_succ(m)) = leaves(m)
    BY LevelsClosed, LeavesFacts, Shapes
  <2> QED BY <2>1, <2>2
<1>3. T = Nat
  <2> HIDE DEF T
  <2>1. T \in SUBSET Nat
    BY DEF T
  <2> QED BY <2>1, <1>1, <1>2, Induction
<1> QED BY <1>3

LEMMA LeavesOfBase ==
  ASSUME Recursion, NEW l \in Level
  PROVE  leaves(to_offset(l).base) = leaves(l)
<1> DEFINE T == {m \in Level : leaves(to_offset(m).base) = leaves(m)}
<1>1. \A m \in Level : m.k # 1 => m \in T
  BY OffsetFacts
<1>2. \A m \in T : mk_succ(m) \in T
  <2> TAKE m \in T
  <2>1. mk_succ(m) \in Level /\ mk_succ(m).k = 1 /\ mk_succ(m).a = m
    BY Shapes, LevelsClosed
  <2>2. to_offset(mk_succ(m)).base = to_offset(m).base
    BY <2>1, OffsetFacts, OffsetType DEF Offset
  <2>3. leaves(mk_succ(m)) = leaves(m)
    BY <2>1, LeavesFacts
  <2> QED BY <2>1, <2>2, <2>3
<1>3. T = Level
  <2> HIDE DEF T
  <2>1. T \in SUBSET Level
    BY DEF T
  <2> QED BY <2>1, <1>1, <1>2, LevelInduction, LevelsClosed, Shapes
<1> QED BY <1>3

LEMMA TotalPushed ==
  ASSUME Recursion, NEW l \in Level
  PROVE  Total(push_max_args(l)) = leaves(l)
<1> DEFINE T == {m \in Level : Total(push_max_args(m)) = leaves(m)}
<1>1. ASSUME NEW m \in Level, m.k # 2 PROVE m \in T
  <2>1. push_max_args(m) = <<m>>
    BY <1>1 DEF Recursion, PushMaxArgs, is_max
  <2> QED BY <2>1, TotalOfOne
<1>2. ASSUME NEW m \in T, NEW m2 \in T PROVE mk_max_raw(m, m2) \in T
  <2>1. /\ mk_max_raw(m, m2) \in Level /\ mk_max_raw(m, m2).k = 2
        /\ mk_max_raw(m, m2).a = m /\ mk_max_raw(m, m2).b = m2
    BY LevelsClosed, Shapes
  <2>2. push_max_args(mk_max_raw(m, m2)) = PushMaxArgs(mk_max_raw(m, m2))
    BY <2>1 DEF Recursion
  <2>3. push_max_args(mk_max_raw(m, m2)) = push_max_args(m) \o push_max_args(m2)
    BY <2>1, <2>2, Zenon DEF PushMaxArgs, is_max
  <2>4. push_max_args(m) \in Seq(Level) /\ push_max_args(m2) \in Seq(Level)
    BY PushedBounds DEF List
  <2>5. Total(push_max_args(mk_max_raw(m, m2))) = Total(push_max_args(m)) + Total(push_max_args(m2))
    BY <2>3, <2>4, TotalOfTwo
  <2>6. leaves(mk_max_raw(m, m2)) = leaves(m) + leaves(m2)
    BY LeavesOfTwo
  <2> QED BY <2>1, <2>5, <2>6
<1>3. T = Level
  <2> HIDE DEF T
  <2>1. T \in SUBSET Level
    BY DEF T
  <2> QED BY <2>1, <1>1, <1>2, LevelInduction, LevelsClosed, Shapes
<1> QED BY <1>3

LEMMA TotalAllArgs ==
  ASSUME Recursion, NEW s \in Seq(Level),
         \A i \in 1..Len(s) : leaves(normalize(s[i])) <= leaves(s[i])
  PROVE  Total(all_args(s)) <= Total(s) /\ Len(all_args(s)) >= Len(s)
<1> DEFINE P(t) == Total(all_args(t)) <= Total(t) /\ Len(all_args(t)) >= Len(t)
           T == {n \in Nat : \A t \in Seq(Level) :
                   Len(t) = n /\ (\A i \in 1..Len(t) : leaves(normalize(t[i])) <= leaves(t[i])) => P(t)}
<1>0. ASSUME NEW t \in Seq(Level)
      PROVE  all_args(t) \in Seq(Level) /\ Total(all_args(t)) \in Nat /\ Total(t) \in Nat
  <2>1. \A i \in 1..Len(t) : Kept(t[i])
    BY NormalKept
  <2>2. all_args(t) \in Seq(Level)
    BY <2>1, AllArgsBounds
  <2> QED BY <2>2, LeavesFinite
<1>1. 0 \in T
  <2> SUFFICES ASSUME NEW t \in Seq(Level), Len(t) = 0 PROVE P(t)
    OBVIOUS
  <2>1. t = <<>>
    BY EmptySeq
  <2>2. all_args(t) = <<>>
    BY <2>1, AllArgsFacts
  <2>3. Total(t) \in Nat
    BY <1>0
  <2> QED BY <2>1, <2>2, <2>3
<1>2. ASSUME NEW n \in T PROVE n + 1 \in T
  <2> SUFFICES ASSUME NEW t \in Seq(Level), Len(t) = n + 1,
                      \A i \in 1..Len(t) : leaves(normalize(t[i])) <= leaves(t[i])
               PROVE  P(t)
    OBVIOUS
  <2>0. n \in Nat /\ \A t2 \in Seq(Level) :
          Len(t2) = n /\ (\A i \in 1..Len(t2) : leaves(normalize(t2[i])) <= leaves(t2[i])) => P(t2)
    OBVIOUS
  <2> HIDE DEF T
  <2>1. t \in List
    <3>1. Len(t) # 0
      BY <2>0
    <3> QED BY <3>1, EmptySeq DEF List
  <2>2. /\ t[1] \in Level /\ Tail(t) \in Seq(Level) /\ Len(Tail(t)) = n
        /\ \A i \in 1..Len(Tail(t)) : Tail(t)[i] = t[i + 1]
    BY <2>0, <2>1, FirstAndRest
  <2>3. \A i \in 1..Len(Tail(t)) : leaves(normalize(Tail(t)[i])) <= leaves(Tail(t)[i])
    BY <2>2, <2>0
  <2>4. P(Tail(t))
    BY <2>0, <2>2, <2>3
  <2>5. all_args(t) = push_max_args(normalize(t[1])) \o all_args(Tail(t))
    BY <2>1, AllArgsFacts DEF List
  <2>6. normalize(t[1]) \in Level /\ leaves(normalize(t[1])) <= leaves(t[1])
    <3>1. 1 \in 1..Len(t)
      BY <2>0
    <3> QED BY <3>1, <2>2, NormalKept DEF Kept
  <2>7. push_max_args(normalize(t[1])) \in List /\ Total(push_max_args(normalize(t[1]))) = leaves(normalize(t[1]))
    BY <2>6, PushedBounds, TotalPushed
  <2>8. /\ Total(all_args(t)) = leaves(normalize(t[1])) + Total(all_args(Tail(t)))
        /\ Len(all_args(t)) = Len(push_max_args(normalize(t[1]))) + Len(all_args(Tail(t)))
    <3>1. push_max_args(normalize(t[1])) \in Seq(Level) /\ all_args(Tail(t)) \in Seq(Level)
      BY <2>2, <2>7, <1>0 DEF List
    <3>2. Total(push_max_args(normalize(t[1])) \o all_args(Tail(t)))
            = Total(push_max_args(normalize(t[1]))) + Total(all_args(Tail(t)))
      BY <3>1, TotalOfTwo
    <3>3. Len(push_max_args(normalize(t[1])) \o all_args(Tail(t)))
            = Len(push_max_args(normalize(t[1]))) + Len(all_args(Tail(t)))
      BY <3>1, ConcatProperties
    <3> QED BY <2>5, <2>7, <3>2, <3>3
  <2>9. Total(t) = leaves(t[1]) + Total(Tail(t))
    BY <2>1, TotalOfFirst
  <2>10. Len(push_max_args(normalize(t[1]))) >= 1
    BY <2>7, EmptySeq DEF List
  <2>11. /\ leaves(t[1]) \in Nat /\ leaves(normalize(t[1])) \in Nat /\ Total(all_args(Tail(t))) \in Nat
         /\ Total(Tail(t)) \in Nat /\ Len(all_args(Tail(t))) \in Nat /\ Len(push_max_args(normalize(t[1]))) \in Nat
    BY <2>2, <2>6, <2>7, <1>0, LeavesFacts, LenProperties DEF List
  <2>12. Total(all_args(t)) <= Total(t)
    BY <2>4, <2>6, <2>8, <2>9, <2>11
  <2>13. Len(all_args(t)) >= Len(t)
    BY <2>0, <2>2, <2>4, <2>8, <2>10, <2>11
  <2> QED BY <2>12, <2>13
<1>3. T = Nat
  <2> HIDE DEF T
  <2>1. T \in SUBSET Nat
    BY DEF T
  <2> QED BY <2>1, <1>1, <1>2, Induction
<1> QED BY <1>3, LenProperties

LEMMA TotalOfSuffix ==
  ASSUME NEW s \in Seq(Level), NEW i \in 1..Len(s)
  PROVE  LET t == SubSeq(s, i, Len(s)) IN Total(t) <= Total(s) /\ (Len(t) < Len(s) => Total(t) < Total(s))
<1> DEFINE t == SubSeq(s, i, Len(s))
           u == SubSeq(s, 1, i - 1)
<1>1. Len(s) \in Nat /\ i \in Nat /\ i - 1 \in 0..Len(s)
  OBVIOUS
<1>2. t \in Seq(Level) /\ Len(t) = Len(s) - i + 1
  BY Suffix DEF List
<1>3. u \in Seq(Level) /\ Len(u) = i - 1
  <2>1. \A j \in 1..(i - 1) : s[j] \in Level
    BY <1>1
  <2>2. /\ SubSeq(s, 1, i - 1) \in Seq(Level)
        /\ Len(SubSeq(s, 1, i - 1)) = IF 1 <= i - 1 THEN (i - 1) - 1 + 1 ELSE 0
    BY <2>1, <1>1, SubSeqProperties
  <2> QED BY <2>2, <1>1
<1>4. u \o t = s
  <2>1. SubSeq(s, 1, i - 1) \o SubSeq(s, (i - 1) + 1, Len(s)) = SubSeq(s, 1, Len(s))
    <3>1. 1 \in 1..(Len(s) + 1) /\ i - 1 \in (1 - 1)..Len(s) /\ Len(s) \in (i - 1)..Len(s)
      BY <1>1
    <3> QED BY <3>1, ConcatAdjacentSubSeq
  <2>2. SubSeq(s, 1, Len(s)) = s
    BY SubSeqFull
  <2>3. (i - 1) + 1 = i
    BY <1>1
  <2> QED BY <2>1, <2>2, <2>3
<1> HIDE DEF t, u
<1>5. Total(s) = Total(u) + Total(t)
  BY <1>2, <1>3, <1>4, TotalOfTwo
<1>6. Total(u) \in Nat /\ Total(t) \in Nat
  BY <1>2, <1>3, LeavesFinite
<1>7. i > 1 => Total(u) >= 1
  <2> SUFFICES ASSUME i > 1 PROVE Total(u) >= 1
    OBVIOUS
  <2>1. u \in List
    <3>1. Len(u) # 0
      BY <1>1, <1>3
    <3> QED BY <3>1, <1>3, EmptySeq DEF List
  <2>2. u[1] \in Level /\ Tail(u) \in Seq(Level) /\ Total(u) = leaves(u[1]) + Total(Tail(u))
    BY <2>1, FirstAndRest, TotalOfFirst
  <2>3. leaves(u[1]) \in Nat /\ leaves(u[1]) >= 1 /\ Total(Tail(u)) \in Nat
    BY <2>2, LeavesFacts, LeavesFinite
  <2> QED BY <2>2, <2>3
<1>8. Len(t) < Len(s) => i > 1
  BY <1>1, <1>2
<1>9. Total(t) <= Total(s) /\ (Len(t) < Len(s) => Total(t) < Total(s))
  BY <1>5, <1>6, <1>7, <1>8
<1> QED BY <1>9 DEF t

\* A step of the normal form that keeps some levels of a list: leaves go with those it drops.
Fewer(t, s) == Total(t) <= Total(s) /\ Len(t) <= Len(s) /\ (Len(t) < Len(s) => Total(t) < Total(s))

LEMMA TotalDropped ==
  ASSUME Recursion, NEW s \in List, Sorted(s)
  PROVE  Fewer(drop_explicit(s), s)
<1> DEFINE n == Cardinality(Explicit(s))
           covered == \E j \in (n + 1)..Len(s) : to_offset(s[j]).n >= to_offset(s[n]).n
<1>1. s \in Seq(Level) /\ Len(s) \in Nat /\ Total(s) \in Nat
  BY LeavesFinite, LenProperties DEF List
<1>2. CASE n = 0
  <2>1. drop_explicit(s) = s
    BY <1>2 DEF drop_explicit
  <2> QED BY <2>1, <1>1 DEF Fewer
<1>3. CASE n # 0
  <2> DEFINE i == IF covered THEN n + 1 ELSE n
  <2>1. drop_explicit(s) = SubSeq(s, i, Len(s))
    BY <1>3 DEF drop_explicit
  <2>2. n \in 1..Len(s)
    BY <1>1, <1>3, ExplicitFirst
  <2> HIDE DEF n
  <2>3. i \in 1..Len(s)
    BY <1>1, <2>2
  <2> HIDE DEF i
  <2>4. Len(SubSeq(s, i, Len(s))) = Len(s) - i + 1
    BY <1>1, <2>3, Suffix
  <2>5. Len(SubSeq(s, i, Len(s))) <= Len(s)
    BY <1>1, <2>3, <2>4
  <2> QED BY <1>1, <2>1, <2>3, <2>5, TotalOfSuffix DEF Fewer
<1> QED BY <1>2, <1>3

LEMMA TotalLast ==
  ASSUME Recursion, NEW s \in List, Sorted(s)
  PROVE  Fewer(last_of_base(s), s)
<1> DEFINE T == {n \in Nat : \A t \in List : Len(t) = n + 1 /\ Sorted(t) => Fewer(last_of_base(t), t)}
<1>0. ASSUME NEW t \in List PROVE Len(t) \in Nat /\ Total(t) \in Nat /\ t \in Seq(Level)
  BY LeavesFinite, LenProperties DEF List
<1>1. 0 \in T
  <2> SUFFICES ASSUME NEW t \in List, Len(t) = 1 PROVE Fewer(last_of_base(t), t)
    OBVIOUS
  <2>1. last_of_base(t) = LastOfBase(t)
    BY DEF Recursion, List
  <2>2. last_of_base(t) = t
    BY <2>1 DEF LastOfBase
  <2>3. Len(t) \in Nat /\ Total(t) \in Nat
    BY <1>0
  <2> HIDE DEF T
  <2>4. Fewer(t, t)
    BY <2>3 DEF Fewer
  <2> QED BY <2>2, <2>4
<1>2. ASSUME NEW n \in T PROVE n + 1 \in T
  <2> SUFFICES ASSUME NEW t \in List, Len(t) = (n + 1) + 1, Sorted(t) PROVE Fewer(last_of_base(t), t)
    OBVIOUS
  <2>0. n \in Nat /\ \A t2 \in List : Len(t2) = n + 1 /\ Sorted(t2) => Fewer(last_of_base(t2), t2)
    OBVIOUS
  <2> HIDE DEF T
  <2>1. t[1] \in Level /\ Tail(t) \in Seq(Level) /\ Len(Tail(t)) = n + 1 /\ Sorted(Tail(t))
    BY <2>0, FirstAndRest
  <2>2. Tail(t) \in List
    <3>1. Len(Tail(t)) # 0
      BY <2>0, <2>1
    <3> QED BY <3>1, <2>1, EmptySeq DEF List
  <2>3. Fewer(last_of_base(Tail(t)), Tail(t)) /\ last_of_base(Tail(t)) \in List
    BY <2>0, <2>1, <2>2, LastBounds
  <2>4. last_of_base(t) = IF to_offset(t[1]).base = to_offset(t[2]).base
                          THEN last_of_base(Tail(t)) ELSE <<t[1]>> \o last_of_base(Tail(t))
    <3>1. last_of_base(t) = LastOfBase(t)
      BY DEF Recursion, List
    <3>2. ~(Len(t) <= 1)
      BY <2>0
    <3> QED BY <3>1, <3>2, Zenon DEF LastOfBase
  <2>5. Total(t) = leaves(t[1]) + Total(Tail(t)) /\ leaves(t[1]) \in Nat /\ leaves(t[1]) >= 1
    BY <2>1, TotalOfFirst, LeavesFacts
  <2>6. /\ Len(last_of_base(Tail(t))) \in Nat /\ Total(last_of_base(Tail(t))) \in Nat
        /\ Total(Tail(t)) \in Nat
    BY <2>2, <2>3, <1>0
  <2>7. CASE last_of_base(t) = last_of_base(Tail(t))
    <3>1. Total(last_of_base(Tail(t))) < Total(t) /\ Len(last_of_base(Tail(t))) <= Len(t)
      BY <2>0, <2>1, <2>3, <2>5, <2>6 DEF Fewer
    <3> QED BY <3>1, <2>0, <2>5, <2>6, <2>7 DEF Fewer
  <2>8. CASE last_of_base(t) = <<t[1]>> \o last_of_base(Tail(t))
    <3>1. <<t[1]>> \in Seq(Level) /\ Len(<<t[1]>>) = 1 /\ Total(<<t[1]>>) = leaves(t[1])
      BY <2>1, TotalOfOne
    <3>2. last_of_base(Tail(t)) \in Seq(Level)
      BY <2>3, <1>0
    <3>3. /\ Total(<<t[1]>> \o last_of_base(Tail(t))) = leaves(t[1]) + Total(last_of_base(Tail(t)))
          /\ Len(<<t[1]>> \o last_of_base(Tail(t))) = 1 + Len(last_of_base(Tail(t)))
      BY <3>1, <3>2, TotalOfTwo, ConcatProperties
    <3> QED BY <3>3, <2>0, <2>1, <2>3, <2>5, <2>6, <2>8 DEF Fewer
  <2> QED BY <2>4, <2>7, <2>8
<1>3. T = Nat
  <2> HIDE DEF T
  <2>1. T \in SUBSET Nat
    BY DEF T
  <2> QED BY <2>1, <1>1, <1>2, Induction
<1>4. Len(s) - 1 \in Nat /\ Len(s) = (Len(s) - 1) + 1
  BY EmptySeq DEF List
<1> QED BY <1>3, <1>4

LEMMA TotalSorted ==
  ASSUME Recursion, NEW s \in List
  PROVE  Total(sort(s)) <= Total(s) /\ Len(sort(s)) = Len(s)
<1> DEFINE t == sort(s)
<1>1. s \in Seq(Level) /\ Len(s) \in Nat \ {0} /\ DOMAIN s = 1..Len(s)
  BY EmptySeq DEF List
<1>2. PICK p \in [1..Len(s) -> 1..Len(s)] :
        t = [i \in 1..Len(s) |-> s[p[i]]] /\ \A j \in 1..Len(s) : \E i \in 1..Len(s) : p[i] = j
  BY <1>1, SortChoice
<1> HIDE DEF t
<1>3. t \in Seq(Level) /\ Len(t) = Len(s) /\ \A i \in 1..Len(t) : t[i] = s[p[i]]
  <2>1. \A i \in 1..Len(s) : s[p[i]] \in Level
    BY <1>1
  <2> QED BY <1>1, <1>2, <2>1
<1>4. \A i, j \in 1..Len(s) : p[i] = p[j] => i = j
  <2>1. p \in Surjection(1..Len(s), 1..Len(s))
    BY <1>2, Fun_IsSurj
  <2>2. IsFiniteSet(1..Len(s))
    BY <1>1, FS_Interval
  <2>3. p \in Injection(1..Len(s), 1..Len(s))
    BY <2>1, <2>2, FS_SurjSameCardinalityImpliesInj
  <2> QED BY <2>3, Fun_InjectionProperties
<1>5. Total(t) <= Total(s)
  <2>1. p \in [1..Len(t) -> 1..Len(s)]
    BY <1>2, <1>3
  <2>2. \A i \in 1..Len(t) : leaves(t[i]) = leaves(s[p[i]])
    BY <1>3
  <2>3. \A i, j \in 1..Len(t) : p[i] = p[j] => i = j
    BY <1>3, <1>4
  <2> QED BY <1>1, <1>3, <2>1, <2>2, <2>3, TotalOfSome
<1> QED BY <1>3, <1>5 DEF t

LEMMA TotalShifted ==
  ASSUME Recursion, NEW s \in List, NEW n \in Nat
  PROVE  LET t == [i \in DOMAIN s |-> mk_succ_n(s[i], n)] IN Total(t) <= Total(s) /\ Len(t) = Len(s)
<1> DEFINE t == [i \in DOMAIN s |-> mk_succ_n(s[i], n)]
           p == [i \in 1..Len(s) |-> i]
<1>1. s \in Seq(Level) /\ Len(s) \in Nat \ {0} /\ DOMAIN s = 1..Len(s)
  BY EmptySeq DEF List
<1>2. t \in Seq(Level) /\ Len(t) = Len(s) /\ \A i \in 1..Len(s) : t[i] = mk_succ_n(s[i], n)
  <2>1. \A i \in 1..Len(s) : mk_succ_n(s[i], n) \in Level
    BY <1>1, SuccN
  <2> QED BY <1>1, <2>1
<1> HIDE DEF t
<1>3. \A i \in 1..Len(t) : leaves(t[i]) = leaves(s[p[i]])
  BY <1>1, <1>2, LeavesOfSucc
<1>4. p \in [1..Len(t) -> 1..Len(s)] /\ \A i, j \in 1..Len(t) : p[i] = p[j] => i = j
  BY <1>2
<1> HIDE DEF p
<1>5. Total(t) <= Total(s)
  BY <1>1, <1>2, <1>3, <1>4, TotalOfSome
<1> QED BY <1>2, <1>5 DEF t

LEMMA TotalMaxList ==
  ASSUME Recursion, NEW s \in List
  PROVE  /\ leaves(mk_max_list(s)) <= Total(s)
         /\ Len(s) >= 2 /\ mk_max_list(s).k = 1 => leaves(mk_max_list(s)) < Total(s)
<1> DEFINE P(t) == /\ leaves(mk_max_list(t)) <= Total(t)
                   /\ Len(t) >= 2 /\ mk_max_list(t).k = 1 => leaves(mk_max_list(t)) < Total(t)
           T == {n \in Nat : \A t \in List : Len(t) = n + 1 => P(t)}
<1>0. ASSUME NEW t \in List
      PROVE  /\ Len(t) \in Nat /\ Total(t) \in Nat /\ t[1] \in Level /\ Total(t) = leaves(t[1]) + Total(Tail(t))
             /\ leaves(t[1]) \in Nat /\ leaves(t[1]) >= 1 /\ Total(Tail(t)) \in Nat
  <2>1. t[1] \in Level /\ Tail(t) \in Seq(Level) /\ t \in Seq(Level) /\ Len(t) \in Nat
    BY FirstAndRest, LenProperties DEF List
  <2> QED BY <2>1, TotalOfFirst, LeavesFinite, LeavesFacts
<1>1. 0 \in T
  <2> SUFFICES ASSUME NEW t \in List, Len(t) = 1 PROVE P(t)
    OBVIOUS
  <2>1. mk_max_list(t) = t[1]
    BY DEF Recursion, MkMaxList, List
  <2> HIDE DEF T
  <2>2. ~(Len(t) >= 2) /\ leaves(t[1]) <= Total(t)
    BY <1>0
  <2> QED BY <2>1, <2>2
<1>2. ASSUME NEW n \in T PROVE n + 1 \in T
  <2> SUFFICES ASSUME NEW t \in List, Len(t) = (n + 1) + 1 PROVE P(t)
    OBVIOUS
  <2>0. n \in Nat /\ \A t2 \in List : Len(t2) = n + 1 => P(t2)
    OBVIOUS
  <2> HIDE DEF T
  <2>1. t[1] \in Level /\ Tail(t) \in Seq(Level) /\ Len(Tail(t)) = n + 1
    BY <2>0, FirstAndRest
  <2>2. Tail(t) \in List
    <3>1. Len(Tail(t)) # 0
      <4>1. n \in Nat
        BY <2>0
      <4> QED BY <4>1, <2>1
    <3> QED BY <3>1, <2>1, EmptySeq DEF List
  <2> DEFINE m == mk_max_list(Tail(t))
  <2>3. leaves(m) <= Total(Tail(t)) /\ m \in Level
    BY <2>0, <2>1, <2>2, MaxList
  <2>4. mk_max_list(t) = mk_max_s(t[1], m)
    <3>1. mk_max_list(t) = MkMaxList(t)
      BY DEF Recursion, List
    <3>2. Len(t) # 1
      BY <2>0
    <3> QED BY <3>1, <3>2, Zenon DEF MkMaxList
  <2> HIDE DEF m
  <2>5. /\ mk_max_s(t[1], m) \in {t[1], m, mk_max_raw(t[1], m)}
        /\ leaves(mk_max_raw(t[1], m)) = leaves(t[1]) + leaves(m)
        /\ leaves(m) \in Nat /\ leaves(m) >= 1 /\ mk_max_raw(t[1], m).k = 2
    BY <2>1, <2>3, LeavesOfTwo, Shapes
  <2>6. /\ Total(t) = leaves(t[1]) + Total(Tail(t)) /\ leaves(t[1]) \in Nat /\ leaves(t[1]) >= 1
        /\ Total(Tail(t)) \in Nat
    BY <1>0
  <2>7. CASE mk_max_s(t[1], m) \in {t[1], m}
    BY <2>3, <2>4, <2>5, <2>6, <2>7
  <2>8. CASE mk_max_s(t[1], m) = mk_max_raw(t[1], m)
    BY <2>3, <2>4, <2>5, <2>6, <2>8
  <2> QED BY <2>5, <2>7, <2>8
<1>3. T = Nat
  <2> HIDE DEF T
  <2>1. T \in SUBSET Nat
    BY DEF T
  <2> QED BY <2>1, <1>1, <1>2, Induction
<1>4. Len(s) - 1 \in Nat /\ Len(s) = (Len(s) - 1) + 1
  BY EmptySeq DEF List
<1> QED BY <1>3, <1>4

\* The normal form has no more leaves, and fewer when it turns into a successor.
Light(l) ==
  /\ leaves(normalize(l)) <= leaves(l)
  /\ l.k # 1 /\ normalize(l).k = 1 => leaves(normalize(l)) < leaves(l)

LEMMA LightMax ==
  ASSUME Recursion, NEW l \in Level, to_offset(l).base.k = 2,
         LET s == push_max_args(to_offset(l).base) IN \A i \in 1..Len(s) : Light(s[i])
  PROVE  Light(l)
<1> DEFINE n == to_offset(l).n
           r == to_offset(l).base
           s == push_max_args(r)
           a == all_args(s)
           t == sort(a)
           d == drop_explicit(t)
           u == last_of_base(d)
           w == [i \in DOMAIN u |-> mk_succ_n(u[i], n)]
<1>1. r \in Level /\ n \in Nat /\ leaves(r) = leaves(l) /\ leaves(l) \in Nat /\ r.k = 2
  BY OffsetType, LeavesOfBase, LeavesFacts DEF Offset
<1>2. s \in List /\ Total(s) = leaves(l) /\ Len(s) >= 2
  <2>1. r.a \in Level /\ r.b \in Level
    BY <1>1, ByKind
  <2>2. push_max_args(r.a) \in List /\ push_max_args(r.b) \in List /\ s \in List /\ Total(s) = leaves(l)
    BY <1>1, <2>1, PushedBounds, TotalPushed
  <2>3. s = push_max_args(r.a) \o push_max_args(r.b)
    <3>1. push_max_args(r) = PushMaxArgs(r) /\ is_max(r)
      BY <1>1 DEF Recursion, is_max
    <3> QED BY <3>1, Zenon DEF PushMaxArgs
  <2> HIDE DEF s
  <2>4. /\ Len(push_max_args(r.a)) \in Nat \ {0} /\ Len(push_max_args(r.b)) \in Nat \ {0}
        /\ Len(s) = Len(push_max_args(r.a)) + Len(push_max_args(r.b))
    BY <2>2, <2>3, EmptySeq, ConcatProperties DEF List
  <2> QED BY <2>2, <2>4
<1>3. normalize(l) = mk_max_list(w)
  BY NormalizeCases
<1>4. \A i \in 1..Len(s) : leaves(normalize(s[i])) <= leaves(s[i])
  BY DEF Light
<1>5. l.k # 1 => n = 0
  BY OffsetFacts
<1> HIDE DEF n, r, s
<1>6. a \in List /\ Total(a) <= leaves(l) /\ Len(a) >= 2 /\ Total(a) \in Nat /\ Len(a) \in Nat
  <2>1. s \in Seq(Level) /\ s # <<>> /\ Len(s) \in Nat
    BY <1>2, LenProperties DEF List
  <2>2. \A i \in 1..Len(s) : Kept(s[i])
    BY <2>1, NormalKept
  <2>3. a \in Seq(Level) /\ a # <<>>
    BY <2>1, <2>2, AllArgsBounds
  <2>4. Total(a) <= Total(s) /\ Len(a) >= Len(s)
    BY <2>1, <1>4, TotalAllArgs
  <2> HIDE DEF a
  <2>5. Total(a) \in Nat /\ Len(a) \in Nat
    BY <2>3, LeavesFinite, LenProperties
  <2> QED BY <1>2, <2>1, <2>3, <2>4, <2>5 DEF List
<1> HIDE DEF a
<1>7. t \in List /\ Sorted(t) /\ Total(t) <= Total(a) /\ Len(t) = Len(a)
  <2>1. a \in Seq(Level) /\ Level \in SUBSET Level
    BY <1>6 DEF List
  <2> QED BY <2>1, <1>6, SortBounds, TotalSorted
<1> HIDE DEF t
<1>8. d \in List /\ Sorted(d) /\ Fewer(d, t)
  BY <1>7, DropBounds, TotalDropped
<1> HIDE DEF d
<1>9. u \in List /\ Fewer(u, d)
  BY <1>8, LastBounds, TotalLast
<1> HIDE DEF u
<1>10. w \in List /\ Total(w) <= Total(u) /\ Len(w) = Len(u)
  BY <1>1, <1>9, Shifted, TotalShifted
<1> HIDE DEF w
<1>11. /\ leaves(mk_max_list(w)) <= Total(w) /\ leaves(mk_max_list(w)) \in Nat
       /\ Len(w) >= 2 /\ mk_max_list(w).k = 1 => leaves(mk_max_list(w)) < Total(w)
  BY <1>10, TotalMaxList, MaxList, LeavesFacts
<1>12. \A v \in {t, d, u, w} : Total(v) \in Nat /\ Len(v) \in Nat
  <2>1. \A v \in List : Total(v) \in Nat /\ Len(v) \in Nat
    BY LeavesFinite, LenProperties DEF List
  <2> QED BY <2>1, <1>7, <1>8, <1>9, <1>10
<1>13. /\ Total(w) <= leaves(l)
       /\ Len(w) < 2 => Total(w) < leaves(l)
  BY <1>1, <1>6, <1>7, <1>8, <1>9, <1>10, <1>12 DEF Fewer
<1>14. /\ leaves(mk_max_list(w)) <= leaves(l)
       /\ mk_max_list(w).k = 1 => leaves(mk_max_list(w)) < leaves(l)
  BY <1>1, <1>11, <1>12, <1>13
<1> QED BY <1>3, <1>14 DEF Light

LEMMA LightIMax ==
  ASSUME Recursion, NEW l \in Level, to_offset(l).base.k = 3,
         Light(to_offset(l).base.a), Light(to_offset(l).base.b)
  PROVE  Light(l)
<1> DEFINE n == to_offset(l).n
           r == to_offset(l).base
           na == normalize(r.a)
           nb == normalize(r.b)
           m == mk_imax_s(na, nb)
<1>1. r \in Level /\ n \in Nat /\ leaves(r) = leaves(l) /\ leaves(l) \in Nat /\ r.k = 3
  BY OffsetType, LeavesOfBase, LeavesFacts DEF Offset
<1>2. r.a \in Level /\ r.b \in Level /\ leaves(r) = leaves(r.a) + leaves(r.b)
  BY <1>1, ByKind, LeavesFacts
<1>3. normalize(l) = mk_succ_n(m, n)
  BY NormalizeCases
<1>4. na \in Level /\ nb \in Level /\ m \in Level
  BY <1>2, NormalKept, IMaxValue DEF Kept
<1>5. leaves(na) <= leaves(r.a) /\ leaves(nb) <= leaves(r.b)
  BY DEF Light
<1>6. l.k # 1 => n = 0
  BY OffsetFacts
<1> HIDE DEF na, nb, r, n
<1>7. /\ m \in {na, nb, mk_max_raw(na, nb), mk_imax_raw(na, nb)}
      /\ leaves(mk_max_raw(na, nb)) = leaves(na) + leaves(nb)
      /\ leaves(mk_imax_raw(na, nb)) = leaves(na) + leaves(nb)
      /\ leaves(na) \in Nat /\ leaves(nb) \in Nat /\ leaves(na) >= 1 /\ leaves(nb) >= 1
      /\ mk_max_raw(na, nb).k = 2 /\ mk_imax_raw(na, nb).k = 3
  BY <1>4, LeavesOfTwo, Shapes
<1>8. leaves(r.a) \in Nat /\ leaves(r.b) \in Nat
  BY <1>2, LeavesFacts
<1> HIDE DEF m
<1>9. leaves(m) <= leaves(l) /\ (m.k = 1 => leaves(m) < leaves(l))
  <2>1. leaves(na) + leaves(nb) <= leaves(l)
    BY <1>1, <1>2, <1>5, <1>7, <1>8
  <2>2. CASE m \in {na, nb}
    BY <2>1, <2>2, <1>1, <1>7
  <2>3. CASE m \in {mk_max_raw(na, nb), mk_imax_raw(na, nb)}
    BY <2>1, <2>3, <1>1, <1>7
  <2> QED BY <2>2, <2>3, <1>7
<1>10. leaves(mk_succ_n(m, n)) = leaves(m) /\ (n = 0 => mk_succ_n(m, n) = m)
  BY <1>1, <1>4, LeavesOfSucc, SuccN
<1> QED BY <1>3, <1>6, <1>9, <1>10 DEF Light

LEMMA NormalLight ==
  ASSUME Recursion, NEW l \in Level
  PROVE  Light(l)
<1> DEFINE T == {n \in Nat : \A m \in OfDepth(n) : Light(m)}
<1>1. ASSUME NEW n \in Nat, n > 0 => \A m \in OfDepth(n - 1) : Light(m), NEW m \in OfDepth(n)
      PROVE  Light(m)
  <2> DEFINE r == to_offset(m).base
  <2>1. m \in Level /\ r \in OfDepth(n) /\ r \in Level
    BY DepthIsLevel, BaseDepth
  <2>2. CASE r.k = 3
    <3>1. n > 0 /\ r.a \in OfDepth(n - 1) /\ r.b \in OfDepth(n - 1)
      BY <2>1, <2>2, Smaller
    <3> QED BY <3>1, <2>1, <2>2, <1>1, LightIMax
  <2>3. CASE r.k = 2
    <3>1. n > 0 /\ push_max_args(r) \in Seq(OfDepth(n - 1))
      BY <2>1, <2>3, ArgumentDepth
    <3>2. \A i \in 1..Len(push_max_args(r)) : Light(push_max_args(r)[i])
      BY <3>1, <1>1, ElementOfSeq
    <3> QED BY <3>2, <2>1, <2>3, LightMax
  <2>4. CASE r.k \notin {2, 3}
    <3>1. normalize(m) = m
      BY <2>1, <2>4, NormalizeCases
    <3>2. leaves(m) \in Nat
      BY <2>1, LeavesFacts
    <3> QED BY <3>1, <3>2 DEF Light
  <2> QED BY <2>2, <2>3, <2>4
<1>2. 0 \in T
  BY <1>1
<1>3. ASSUME NEW n \in T PROVE n + 1 \in T
  <2>1. n \in Nat /\ (n + 1) - 1 = n /\ \A m \in OfDepth((n + 1) - 1) : Light(m)
    OBVIOUS
  <2>2. \A m \in OfDepth(n + 1) : Light(m)
    BY <2>1, <1>1
  <2> QED BY <2>1, <2>2
<1>4. T = Nat
  <2> HIDE DEF T
  <2>1. T \in SUBSET Nat
    BY DEF T
  <2> QED BY <2>1, <1>2, <1>3, Induction
<1>5. PICK n \in Nat : l \in OfDepth(n)
  BY DEF Level
<1> QED BY <1>4, <1>5

(***************************************************************************)
(* The comparison.                                                         *)
(***************************************************************************)

\* A level weighs its leaves; of two with the same leaves, a successor weighs more.
weight(l) == 2 * leaves(l) + (IF l.k = 1 THEN 1 ELSE 0)

LEMMA NormalWeight ==
  ASSUME Recursion, NEW l \in Level
  PROVE  /\ weight(l) \in Nat /\ weight(normalize(l)) \in Nat
         /\ weight(normalize(l)) <= weight(l)
<1>1. normalize(l) \in Level
  BY NormalKept DEF Kept
<1>2. leaves(l) \in Nat /\ leaves(normalize(l)) \in Nat
  BY <1>1, LeavesFacts
<1>3. Light(l)
  BY NormalLight
<1> QED BY <1>2, <1>3 DEF Light, weight

LEMMA PartWeight ==
  ASSUME NEW l \in Level, l.k \in {2, 3}
  PROVE  /\ l.a \in Level /\ l.b \in Level
         /\ weight(l.a) \in Nat /\ weight(l.b) \in Nat /\ weight(l) \in Nat
         /\ weight(l.a) < weight(l) /\ weight(l.b) < weight(l)
<1>1. l.a \in Level /\ l.b \in Level
  BY ByKind
<1>2. /\ leaves(l.a) \in Nat /\ leaves(l.b) \in Nat /\ leaves(l.a) >= 1 /\ leaves(l.b) >= 1
      /\ leaves(l) = leaves(l.a) + leaves(l.b) /\ leaves(l) \in Nat
  BY <1>1, LeavesFacts
<1> QED BY <1>1, <1>2 DEF weight

LEMMA BaseWeight ==
  ASSUME Recursion, NEW l \in Level, to_offset(l).n > 0
  PROVE  /\ to_offset(l).base \in Level
         /\ weight(to_offset(l).base) \in Nat /\ weight(l) \in Nat
         /\ weight(to_offset(l).base) < weight(l)
<1>1. to_offset(l).base \in Level /\ to_offset(l).base.k # 1
  BY OffsetType DEF Offset
<1>2. l.k = 1
  BY OffsetFacts
<1>3. leaves(to_offset(l).base) = leaves(l) /\ leaves(l) \in Nat
  BY LeavesOfBase, LeavesFacts
<1> QED BY <1>1, <1>2, <1>3 DEF weight

\* The pairs is_geq_core compares to compare l with m.
Calls(l, m) ==
  LET p == to_offset(l)
      q == to_offset(m)
  IN IF l = m \/ is_zero(m) THEN {}
     ELSE IF is_max(m) THEN {<<l, m.a>>, <<l, m.b>>}
     ELSE (IF is_max(l) THEN {<<l.a, m>>, <<l.b, m>>} ELSE {})
          \cup (IF is_imax(m) THEN {<<l, m.a>>, <<l, m.b>>}
                ELSE IF is_imax(l) THEN {<<l.b, m>>}
                ELSE IF p.n = q.n /\ p.n > 0 THEN {<<p.base, q.base>>} ELSE {})

LEMMA CallsWeigh ==
  ASSUME Recursion, NEW l \in Level, NEW m \in Level, NEW c \in Calls(l, m)
  PROVE  /\ c[1] \in Level /\ c[2] \in Level /\ c = <<c[1], c[2]>>
         /\ weight(c[1]) + weight(c[2]) < weight(l) + weight(m)
<1>0. weight(l) \in Nat /\ weight(m) \in Nat
  BY NormalWeight
<1>1. \/ is_max(m) /\ c \in {<<l, m.a>>, <<l, m.b>>}
      \/ is_max(l) /\ c \in {<<l.a, m>>, <<l.b, m>>}
      \/ is_imax(m) /\ c \in {<<l, m.a>>, <<l, m.b>>}
      \/ is_imax(l) /\ c = <<l.b, m>>
      \/ /\ to_offset(l).n = to_offset(m).n /\ to_offset(l).n > 0
         /\ c = <<to_offset(l).base, to_offset(m).base>>
  BY DEF Calls
<1>2. CASE m.k \in {2, 3} /\ c \in {<<l, m.a>>, <<l, m.b>>}
  BY <1>0, <1>2, PartWeight
<1>3. CASE l.k \in {2, 3} /\ c \in {<<l.a, m>>, <<l.b, m>>}
  BY <1>0, <1>3, PartWeight
<1>4. CASE /\ to_offset(l).n = to_offset(m).n /\ to_offset(l).n > 0
           /\ c = <<to_offset(l).base, to_offset(m).base>>
  BY <1>0, <1>4, BaseWeight
<1> QED BY <1>1, <1>2, <1>3, <1>4 DEF is_max, is_imax

Sound(l, m) == is_geq(l, m) => \A f \in Assignments : value(l, f) >= value(m, f)

LEMMA CoreSound ==
  ASSUME Recursion, NEW l \in Level, NEW m \in Level, \A c \in Calls(l, m) : Sound(c[1], c[2]),
         is_geq_core(l, m), NEW f \in Assignments
  PROVE  value(l, f) >= value(m, f)
<1> DEFINE p == to_offset(l)
           q == to_offset(m)
<1>1. value(l, f) \in Nat /\ value(m, f) \in Nat
  BY ValueIsNat
<1>2. \A a, b : <<a, b>> \in Calls(l, m) /\ is_geq(a, b) => value(a, f) >= value(b, f)
  <2> SUFFICES ASSUME NEW a, NEW b, <<a, b>> \in Calls(l, m), is_geq(a, b)
               PROVE  value(a, f) >= value(b, f)
    OBVIOUS
  <2>1. Sound(<<a, b>>[1], <<a, b>>[2])
    OBVIOUS
  <2>2. Sound(a, b)
    BY <2>1
  <2> QED BY <2>2 DEF Sound
<1>3. /\ l.k \in {2, 3} => value(l.a, f) \in Nat /\ value(l.b, f) \in Nat
      /\ m.k \in {2, 3} => value(m.a, f) \in Nat /\ value(m.b, f) \in Nat
  BY PartWeight, ValueIsNat
<1>4. /\ l.k = 2 => l.a \in Level /\ l.b \in Level /\ l = mk_max_raw(l.a, l.b)
      /\ m.k = 2 => m.a \in Level /\ m.b \in Level /\ m = mk_max_raw(m.a, m.b)
      /\ l.k = 3 => l.a \in Level /\ l.b \in Level /\ l = mk_imax_raw(l.a, l.b)
      /\ m.k = 3 => m.a \in Level /\ m.b \in Level /\ m = mk_imax_raw(m.a, m.b)
  BY ByKind
<1>5. /\ l.k = 2 => value(l, f) = Larger(value(l.a, f), value(l.b, f))
      /\ m.k = 2 => value(m, f) = Larger(value(m.a, f), value(m.b, f))
      /\ l.k = 3 => value(l, f) = IF value(l.b, f) = 0 THEN 0 ELSE Larger(value(l.a, f), value(l.b, f))
      /\ m.k = 3 => value(m, f) = IF value(m.b, f) = 0 THEN 0 ELSE Larger(value(m.a, f), value(m.b, f))
  BY <1>4, ValueFacts DEF Larger
<1>6. CASE l = m \/ is_zero(m)
  <2>1. CASE l = m
    BY <2>1, <1>1
  <2>2. CASE is_zero(m)
    <3>1. m = Zero
      BY <2>2, ByKind DEF is_zero
    <3> QED BY <3>1, <1>1, ValueFacts
  <2> QED BY <1>6, <2>1, <2>2
<1>7. CASE ~(l = m \/ is_zero(m)) /\ is_max(m)
  <2>1. is_geq(l, m.a) /\ is_geq(l, m.b) /\ <<l, m.a>> \in Calls(l, m) /\ <<l, m.b>> \in Calls(l, m)
    BY <1>7 DEF is_geq_core, Calls
  <2> QED BY <2>1, <1>1, <1>2, <1>3, <1>5, <1>7 DEF is_max, Larger
<1>8. CASE ~(l = m \/ is_zero(m)) /\ ~is_max(m) /\ is_max(l) /\ (is_geq(l.a, m) \/ is_geq(l.b, m))
  <2>1. <<l.a, m>> \in Calls(l, m) /\ <<l.b, m>> \in Calls(l, m)
    BY <1>8 DEF Calls
  <2> QED BY <2>1, <1>1, <1>2, <1>3, <1>5, <1>8 DEF is_max, Larger
<1>9. CASE /\ ~(l = m \/ is_zero(m)) /\ ~is_max(m) /\ ~(is_max(l) /\ (is_geq(l.a, m) \/ is_geq(l.b, m)))
           /\ is_imax(m)
  <2>1. is_geq(l, m.a) /\ is_geq(l, m.b) /\ <<l, m.a>> \in Calls(l, m) /\ <<l, m.b>> \in Calls(l, m)
    BY <1>9 DEF is_geq_core, Calls
  <2> QED BY <2>1, <1>1, <1>2, <1>3, <1>5, <1>9 DEF is_imax, Larger
<1>10. CASE /\ ~(l = m \/ is_zero(m)) /\ ~is_max(m) /\ ~(is_max(l) /\ (is_geq(l.a, m) \/ is_geq(l.b, m)))
            /\ ~is_imax(m) /\ is_imax(l)
  <2>1. is_geq(l.b, m) /\ <<l.b, m>> \in Calls(l, m)
    BY <1>10 DEF is_geq_core, Calls
  <2> QED BY <2>1, <1>1, <1>2, <1>3, <1>5, <1>10 DEF is_imax, Larger
<1>11. CASE /\ ~(l = m \/ is_zero(m)) /\ ~is_max(m) /\ ~(is_max(l) /\ (is_geq(l.a, m) \/ is_geq(l.b, m)))
            /\ ~is_imax(m) /\ ~is_imax(l)
  <2>1. \/ (p.base = q.base \/ is_zero(q.base)) /\ p.n >= q.n
        \/ p.n = q.n /\ p.n > 0 /\ is_geq(p.base, q.base)
    BY <1>11 DEF is_geq_core
  <2>2. p.base \in Level /\ q.base \in Level /\ p.n \in Nat /\ q.n \in Nat
    BY OffsetType DEF Offset
  <2>3. value(p.base, f) \in Nat /\ value(q.base, f) \in Nat
    BY <2>2, ValueIsNat
  <2>4. value(l, f) = value(p.base, f) + p.n /\ value(m, f) = value(q.base, f) + q.n
    BY OffsetValue
  <2>5. is_zero(q.base) => value(q.base, f) = 0
    BY <2>2, ByKind, ValueFacts DEF is_zero
  <2>6. p.n = q.n /\ p.n > 0 => <<p.base, q.base>> \in Calls(l, m)
    BY <1>11 DEF Calls
  <2>7. p.n = q.n /\ p.n > 0 /\ is_geq(p.base, q.base) => value(p.base, f) >= value(q.base, f)
    BY <2>6, <1>2
  <2> HIDE DEF p, q
  <2> QED BY <2>1, <2>2, <2>3, <2>4, <2>5, <2>7
<1> QED BY <1>6, <1>7, <1>8, <1>9, <1>10, <1>11

\* A level taken to be at least another one is, under every assignment (level.cpp:172-205).
LEMMA GeqSound ==
  ASSUME Recursion, NEW l \in Level, NEW m \in Level
  PROVE  Sound(l, m)
<1> DEFINE T == {n \in Nat : \A a, b \in Level : weight(a) + weight(b) <= n => Sound(a, b)}
<1>1. ASSUME NEW n \in Nat, \A a, b \in Level : weight(a) + weight(b) < n => Sound(a, b),
             NEW a \in Level, NEW b \in Level, weight(a) + weight(b) <= n
      PROVE  Sound(a, b)
  <2> DEFINE c == normalize(a)
             d == normalize(b)
  <2>1. /\ c \in Level /\ \A f \in Assignments : value(c, f) = value(a, f)
        /\ d \in Level /\ \A f \in Assignments : value(d, f) = value(b, f)
    BY NormalKept DEF Kept
  <2>2. is_geq(a, b) <=> is_geq_core(c, d)
    BY DEF Recursion, IsGeq
  <2>3. weight(c) + weight(d) <= n
    <3>1. /\ weight(a) \in Nat /\ weight(c) \in Nat /\ weight(c) <= weight(a)
          /\ weight(b) \in Nat /\ weight(d) \in Nat /\ weight(d) <= weight(b)
      BY NormalWeight
    <3> QED BY <3>1, <1>1
  <2> HIDE DEF c, d
  <2>4. ASSUME NEW e \in Calls(c, d) PROVE Sound(e[1], e[2])
    <3>1. e[1] \in Level /\ e[2] \in Level /\ weight(e[1]) + weight(e[2]) < weight(c) + weight(d)
      BY <2>1, CallsWeigh
    <3>2. \A k \in {c, d, e[1], e[2]} : weight(k) \in Nat
      BY <2>1, <3>1, NormalWeight
    <3>3. weight(e[1]) + weight(e[2]) < n
      BY <2>3, <3>1, <3>2
    <3> QED BY <3>1, <3>3, <1>1
  <2>5. ASSUME is_geq_core(c, d), NEW f \in Assignments PROVE value(c, f) >= value(d, f)
    BY <2>1, <2>4, <2>5, CoreSound
  <2> QED BY <2>1, <2>2, <2>5 DEF Sound
<1>0. \A a, b \in Level : weight(a) + weight(b) \in Nat
  BY NormalWeight
<1>2. 0 \in T
  <2>1. \A a, b \in Level : ~(weight(a) + weight(b) < 0)
    BY <1>0
  <2> QED BY <2>1, <1>1
<1>3. ASSUME NEW n \in T PROVE n + 1 \in T
  <2>1. n \in Nat /\ \A a, b \in Level : weight(a) + weight(b) <= n => Sound(a, b)
    OBVIOUS
  <2>2. \A a, b \in Level : weight(a) + weight(b) < n + 1 => Sound(a, b)
    <3>1. \A a, b \in Level : weight(a) + weight(b) < n + 1 => weight(a) + weight(b) <= n
      BY <1>0, <2>1
    <3> QED BY <2>1, <3>1
  <2>3. n + 1 \in Nat
    BY <2>1
  <2>4. \A a, b \in Level : weight(a) + weight(b) <= n + 1 => Sound(a, b)
    BY <2>2, <2>3, <1>1
  <2> QED BY <2>3, <2>4
<1>4. T = Nat
  <2> HIDE DEF T
  <2>1. T \in SUBSET Nat
    BY DEF T
  <2> QED BY <2>1, <1>2, <1>3, Induction
<1>5. weight(l) + weight(m) \in T
  BY <1>0, <1>4
<1>6. weight(l) + weight(m) <= weight(l) + weight(m)
  BY <1>0
<1> QED BY <1>5, <1>6

(***************************************************************************)
(* The theorems.  Recursion says that the recursive functions compute what *)
(* their definitions say, the second hypothesis that an export holds       *)
(* levels.                                                                 *)
(***************************************************************************)

\* A comparison ends although it normalises at every call: the levels it compares next
\* weigh less than those it was given (level.cpp:172-205).
THEOREM ComparisonEnds ==
  ASSUME Recursion, NEW l \in Level, NEW m \in Level, NEW c \in Calls(normalize(l), normalize(m))
  PROVE  /\ c[1] \in Level /\ c[2] \in Level
         /\ weight(c[1]) + weight(c[2]) \in Nat /\ weight(l) + weight(m) \in Nat
         /\ weight(c[1]) + weight(c[2]) < weight(l) + weight(m)
<1>1. normalize(l) \in Level /\ normalize(m) \in Level
  BY NormalKept DEF Kept
<1>2. /\ c[1] \in Level /\ c[2] \in Level
      /\ weight(c[1]) + weight(c[2]) < weight(normalize(l)) + weight(normalize(m))
  BY <1>1, CallsWeigh
<1>3. /\ weight(l) \in Nat /\ weight(normalize(l)) \in Nat /\ weight(normalize(l)) <= weight(l)
      /\ weight(m) \in Nat /\ weight(normalize(m)) \in Nat /\ weight(normalize(m)) <= weight(m)
      /\ weight(c[1]) \in Nat /\ weight(c[2]) \in Nat
  BY <1>2, NormalWeight
<1> QED BY <1>2, <1>3

\* The levels stay levels, and x means what it must.
LevelsInv ==
  /\ x \in Level /\ y \in Level
  /\ means = Meaning(x)

LEMMA MeaningOf ==
  ASSUME Recursion, NEW l \in Level
  PROVE  /\ Meaning(l) \in [Assignments -> Nat]
         /\ \A f \in Assignments : Meaning(l)[f] = value(l, f) /\ value(l, f) \in Nat
BY ValueIsNat DEF Meaning

LEMMA LevelsInitially ==
  ASSUME Start \subseteq Level \X Level, Init
  PROVE  LevelsInv
<1>1. PICK l \in Start : x = l[1] /\ y = l[2] /\ means = Meaning(x)
  BY DEF Init
<1> QED BY <1>1 DEF LevelsInv

LEMMA LevelsNext ==
  ASSUME Recursion, LevelsInv, [Next]_vars
  PROVE  LevelsInv'
<1>0. x \in Level /\ y \in Level /\ means = Meaning(x)
  BY DEF LevelsInv
<1>1. CASE Normalize
  <2>1. x' = normalize(x) /\ y' = y /\ means' = means
    BY <1>1 DEF Normalize, Step
  <2>2. normalize(x) \in Level /\ \A f \in Assignments : value(normalize(x), f) = value(x, f)
    BY <1>0, NormalKept DEF Kept
  <2>3. Meaning(normalize(x)) = Meaning(x)
    BY <2>2 DEF Meaning
  <2> QED BY <1>0, <2>1, <2>2, <2>3 DEF LevelsInv, Meaning
<1>2. CASE TakeMax
  <2>1. /\ x' = mk_max_s(y, x) /\ y' = y
        /\ means' = [f \in Assignments |-> LET v == value(y, f) IN IF v >= means[f] THEN v ELSE means[f]]
    BY <1>2 DEF TakeMax, Step
  <2>2. /\ mk_max_s(y, x) \in Level
        /\ \A f \in Assignments : value(mk_max_s(y, x), f) = Larger(value(y, f), value(x, f))
    BY <1>0, MaxValue
  <2>3. means' = Meaning(mk_max_s(y, x))
    BY <1>0, <2>1, <2>2, MeaningOf DEF Meaning, Larger
  <2> QED BY <1>0, <2>1, <2>2, <2>3 DEF LevelsInv, Meaning
<1>3. CASE TakeIMax
  <2>1. /\ x' = mk_imax_s(y, x) /\ y' = y
        /\ means' = [f \in Assignments |->
              LET v == value(y, f) IN IF means[f] = 0 \/ means[f] >= v THEN means[f] ELSE v]
    BY <1>3 DEF TakeIMax, Step
  <2>2. /\ mk_imax_s(y, x) \in Level
        /\ \A f \in Assignments :
             value(mk_imax_s(y, x), f) = IF value(x, f) = 0 THEN 0 ELSE Larger(value(y, f), value(x, f))
    BY <1>0, IMaxValue
  <2>3. ASSUME NEW f \in Assignments
        PROVE  value(mk_imax_s(y, x), f) =
                 LET v == value(y, f) IN IF means[f] = 0 \/ means[f] >= v THEN means[f] ELSE v
    <3>1. means[f] = value(x, f) /\ value(x, f) \in Nat /\ value(y, f) \in Nat
      BY <1>0, MeaningOf
    <3> QED BY <2>2, <3>1 DEF Larger
  <2>4. means' = Meaning(mk_imax_s(y, x))
    BY <2>1, <2>3 DEF Meaning
  <2> QED BY <1>0, <2>1, <2>2, <2>4 DEF LevelsInv, Meaning
<1>4. CASE Instantiate
  <2>1. PICK n \in Params :
          /\ \A f \in Assignments : [f EXCEPT ![n] = value(y, f)] \in Assignments
          /\ x' = instantiate_level_params(x, [i \in {n} |-> y]) /\ y' = y
          /\ means' = [f \in Assignments |-> means[[f EXCEPT ![n] = value(y, f)]]]
    BY <1>4 DEF Instantiate, Step
  <2> DEFINE s == [i \in {n} |-> y]
  <2>2. s \in Substitutions
    <3>1. s \in [{n} -> Level] /\ {n} \in SUBSET Params
      BY <1>0
    <3> QED BY <3>1, Zenon DEF Substitutions
  <2>3. ASSUME NEW f \in Assignments
        PROVE  value(instantiate_level_params(x, s), f) = means[[f EXCEPT ![n] = value(y, f)]]
    <3> DEFINE g == [f EXCEPT ![n] = value(y, f)]
    <3>1. g \in Assignments
      BY <2>1
    <3>2. ASSUME NEW p \in Params PROVE g[p] = IF p \in DOMAIN s THEN value(s[p], f) ELSE f[p]
      BY <3>1 DEF Assignments
    <3> HIDE DEF g
    <3>3. value(instantiate_level_params(x, s), f) = value(x, g)
      BY <1>0, <2>2, <3>1, <3>2, InstantiateValue
    <3> QED BY <1>0, <3>1, <3>3, MeaningOf DEF g
  <2>4. instantiate_level_params(x, s) \in Level
    BY <1>0, <2>2, InstantiateValue
  <2>5. means' = Meaning(instantiate_level_params(x, s))
    BY <2>1, <2>3 DEF Meaning
  <2> QED BY <1>0, <2>1, <2>4, <2>5 DEF LevelsInv, Meaning
<1>5. CASE UNCHANGED vars
  BY <1>0, <1>5 DEF LevelsInv, vars, Meaning
<1> QED BY <1>1, <1>2, <1>3, <1>4, <1>5 DEF Next

\* Every level the kernel rewrites stays a level with the value it must have.
LEMMA LevelsAlways ==
  ASSUME Recursion, Start \subseteq Level \X Level
  PROVE  Spec => []LevelsInv
<1>1. Init => LevelsInv
  BY LevelsInitially
<1>2. LevelsInv /\ [Next]_vars => LevelsInv'
  BY LevelsNext
<1> QED BY <1>1, <1>2, PTL DEF Spec

\* Constructors, normal forms and instantiation keep the value of a level under every
\* assignment, and it depends on no parameter but its own (level.cpp:73-90, 131-168, 193-207).
THEOREM MeaningAlways ==
  ASSUME Recursion, Start \subseteq Level \X Level
  PROVE  Spec => []MeaningKept
<1>1. LevelsInv => MeaningKept
  <2> SUFFICES ASSUME LevelsInv PROVE MeaningKept
    OBVIOUS
  <2>1. x \in Level /\ \A f \in Assignments : means[f] = value(x, f)
    BY MeaningOf DEF LevelsInv
  <2>2. ASSUME NEW ps \in SUBSET Params, get_undef_param(x, ps) = {},
               NEW f \in Assignments, NEW g \in Assignments, \A n \in ps : f[n] = g[n]
        PROVE  means[f] = means[g]
    <3>1. \A p \in params_of(x) : f[p] = g[p]
      BY <2>2 DEF get_undef_param
    <3> QED BY <2>1, <3>1, SameParams
  <2> QED BY <2>1, <2>2 DEF MeaningKept
<1> QED BY <1>1, LevelsAlways, PTL

\* Levels with one normal form are equal under every assignment, and the order that
\* std::sort is given is a strict total order of levels (level.cpp:92-129, 170).
THEOREM EquivalentAlways ==
  ASSUME Recursion, Start \subseteq Level \X Level
  PROVE  Spec => []EquivalentSound
<1>1. LevelsInv => EquivalentSound
  <2> SUFFICES ASSUME LevelsInv PROVE EquivalentSound
    OBVIOUS
  <2>1. x \in Level /\ y \in Level /\ means = Meaning(x)
    BY DEF LevelsInv
  <2>2. ASSUME is_equivalent(x, y) PROVE means = Meaning(y)
    <3>1. CASE x = y
      BY <2>1, <3>1
    <3>2. CASE normalize(x) = normalize(y)
      <4>1. \A f \in Assignments : /\ value(normalize(x), f) = value(x, f)
                                   /\ value(normalize(y), f) = value(y, f)
        BY <2>1, NormalKept DEF Kept
      <4>2. \A f \in Assignments : value(x, f) = value(y, f)
        BY <3>2, <4>1
      <4> QED BY <2>1, <4>2 DEF Meaning
    <3> QED BY <2>2, <3>1, <3>2 DEF is_equivalent
  <2>3. parts(x) \subseteq Level /\ parts(y) \subseteq Level
    BY <2>1, PartsAreLevels
  <2>4. Ordered(Level)
    BY LevelOrder
  <2>5. \A l, m \in parts(x) \cup parts(y) : is_norm_lt(l, m) <=> l # m /\ ~is_norm_lt(m, l)
    BY <2>3, <2>4, Zenon DEF Ordered
  <2>6. \A l, m \in parts(x) :
          is_norm_lt(l, m) => \A k \in parts(x) : is_norm_lt(m, k) => is_norm_lt(l, k)
    BY <2>3, <2>4, Zenon DEF Ordered
  <2> QED BY <2>2, <2>5, <2>6 DEF EquivalentSound
<1> QED BY <1>1, LevelsAlways, PTL

\* A level taken to be at least another one is, and the two tests of "zero under every
\* assignment" agree with each other and with the meaning (level.cpp:172-205, nbe.cpp:310).
THEOREM ComparisonsAlways ==
  ASSUME Recursion, Start \subseteq Level \X Level
  PROVE  Spec => []ComparisonsSound
<1>1. LevelsInv => ComparisonsSound
  <2> SUFFICES ASSUME LevelsInv PROVE ComparisonsSound
    OBVIOUS
  <2>1. x \in Level /\ y \in Level /\ \A f \in Assignments : means[f] = value(x, f)
    BY MeaningOf DEF LevelsInv
  <2>2. is_geq(x, y) => \A f \in Assignments : means[f] >= value(y, f)
    BY <2>1, GeqSound DEF Sound
  <2>3. lvl_zero(x) => normalize(x) = Zero
    BY <2>1, ZeroNormal
  <2>4. PICK v \in Values : v > 0
    BY LevelsAssumption
  <2> DEFINE g == [p \in Params |-> v]
  <2>5. g \in Assignments /\ \A p \in Params : g[p] > 0
    BY <2>4 DEF Assignments
  <2> HIDE DEF g
  <2>6. lvl_zero(x) => \A f \in Assignments : means[f] = 0
    BY <2>1, LvlZeroValue
  <2>7. (\A f \in Assignments : means[f] = 0) => lvl_zero(x)
    BY <2>1, <2>5, LvlZeroValue
  <2>8. normalize(x) = Zero => \A f \in Assignments : means[f] = 0
    BY <2>1, NormalKept, ValueFacts DEF Kept
  <2>9. is_zero(normalize(x)) <=> normalize(x) = Zero
    <3>1. normalize(x) \in Level
      BY <2>1, NormalKept DEF Kept
    <3> QED BY <3>1, ByKind, Shapes DEF is_zero
  <2>10. lvl_zero(x) <=> is_zero(normalize(x))
    BY <2>3, <2>7, <2>8, <2>9
  <2>11. lvl_zero(x) <=> \A f \in Assignments : means[f] = 0
    BY <2>6, <2>7
  <2> QED BY <2>2, <2>10, <2>11 DEF ComparisonsSound
<1> QED BY <1>1, LevelsAlways, PTL
===============================================================================
