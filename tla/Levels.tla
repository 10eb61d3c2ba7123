--------------------------------- MODULE Levels ---------------------------------
(***************************************************************************)
(* Universe levels (src/src/level.cpp): the smart constructors, the normal *)
(* form, the tests of equality and order that conversion and the inductive *)
(* checks rely on, the substitution of parameters, and the order of names  *)
(* normal forms are sorted by (src/src/name.cpp lt).                       *)
(*                                                                         *)
(* A level is interned, so that equality of handles is equality of terms:  *)
(* levels are the terms themselves.  The state is a level x that the       *)
(* kernel rewrites, another one y, and what x must mean.                   *)
(*                                                                         *)
(* A function of the source that calls itself is a constant operator of    *)
(* its name, and what it computes from its calls is the definition of the  *)
(* same name in capitals: to_offset is ToOffset.  A configuration makes    *)
(* the first the second, proofs take the equation of the two.              *)
(***************************************************************************)
EXTENDS Naturals, Sequences, FiniteSets

CONSTANTS
  Params,   \* names of the universe parameters
  Start,    \* pairs of levels of the export
  Values,   \* bound: the values parameters are given
  MaxSteps, \* bound: how often x is rewritten
  mk_succ_n(_, _), to_offset(_), is_never_zero(_), is_norm_lt(_, _), push_max_args(_),
  mk_max_list(_), last_of_base(_), all_args(_), normalize(_), is_geq(_, _), lvl_zero(_),
  instantiate_level_params(_, _), params_of(_), value(_, _), parts(_)   \* the recursive functions

\* A component of a name is a number or a string; strings are given by their rank.
Component == [str: BOOLEAN, v: Nat]

ASSUME LevelsAssumption ==
  /\ Params \subseteq Seq(Component) \ {<<>>} /\ IsFiniteSet(Params)
  /\ 0 \in Values /\ Values \subseteq Nat /\ (\E v \in Values : v > 0) /\ MaxSteps \in Nat

Zero == [k |-> 0]
mk_succ(l) == [k |-> 1, a |-> l]
mk_max_raw(l, m) == [k |-> 2, a |-> l, b |-> m]
mk_imax_raw(l, m) == [k |-> 3, a |-> l, b |-> m]
mk_param(n) == [k |-> 4, p |-> n]

is_zero(l) == l.k = 0
is_succ(l) == l.k = 1
is_max(l) == l.k = 2
is_imax(l) == l.k = 3
-------------------------------------------------------------------------------
MkSuccN(l, n) == IF n = 0 THEN l ELSE mk_succ_n(mk_succ(l), n - 1)

\* Base and number of leading successors.
ToOffset(l) ==
  IF is_succ(l) THEN LET o == to_offset(l.a) IN [o EXCEPT !.n = @ + 1]
                ELSE [base |-> l, n |-> 0]
is_explicit(l) == is_zero(to_offset(l).base)

IsNeverZero(l) ==
  CASE l.k = 1 -> TRUE
    [] l.k = 2 -> is_never_zero(l.a) \/ is_never_zero(l.b)
    [] l.k = 3 -> is_never_zero(l.b)
    [] OTHER -> FALSE

\* The code tests in this order.
mk_max_s(l, m) ==
  LET p == to_offset(l)
      q == to_offset(m)
  IN IF is_explicit(l) /\ is_explicit(m) THEN (IF p.n >= q.n THEN l ELSE m)
     ELSE IF l = m \/ is_zero(m) THEN l
     ELSE IF is_zero(l) \/ (is_max(m) /\ l \in {m.a, m.b}) THEN m
     ELSE IF p.base = q.base THEN (IF p.n > q.n THEN l ELSE m)
     ELSE mk_max_raw(l, m)

mk_imax_s(l, m) ==
  IF is_never_zero(m) THEN mk_max_s(l, m)
  ELSE IF is_zero(m) \/ is_zero(l) \/ l = mk_succ(Zero) THEN m
  ELSE IF l = m THEN l ELSE mk_imax_raw(l, m)
-------------------------------------------------------------------------------
(* The order of names and of levels, for sorting.                            *)

\* Names are compared from the root; a number comes before a string, a prefix first.
lt(n, m) ==
  \E i \in 1..(Len(n) + 1) :
    /\ i <= Len(m)
    /\ \A j \in 1..(i - 1) : n[j] = m[j]
    /\ i <= Len(n) => IF n[i].str # m[i].str THEN ~n[i].str ELSE n[i].v < m[i].v

\* Slip: a maximum is compared by its first argument alone.
FirstArgumentOnly(l, m) ==
  LET p == to_offset(l)
      q == to_offset(m)
      b == p.base
      c == q.base
  IN IF b = c THEN p.n < q.n
     ELSE IF b.k # c.k THEN b.k < c.k
     ELSE IF b.k = 4 THEN lt(b.p, c.p)
     ELSE b.k \in {2, 3} /\ is_norm_lt(b.a, c.a)

IsNormLt(l, m) ==
  LET p == to_offset(l)
      q == to_offset(m)
      b == p.base
      c == q.base
  IN IF b = c THEN p.n < q.n
     ELSE IF b.k # c.k THEN b.k < c.k
     ELSE IF b.k = 4 THEN lt(b.p, c.p)
     ELSE b.k \in {2, 3} /\ (IF b.a # c.a THEN is_norm_lt(b.a, c.a) ELSE is_norm_lt(b.b, c.b))

PushMaxArgs(l) == IF is_max(l) THEN push_max_args(l.a) \o push_max_args(l.b) ELSE <<l>>

MkMaxList(s) == IF Len(s) = 1 THEN s[1] ELSE mk_max_s(s[1], mk_max_list(Tail(s)))

\* Of sorted arguments, the last of those over one base is the largest.
LastOfBase(s) ==
  IF Len(s) <= 1 THEN s
  ELSE LET r == last_of_base(Tail(s))
       IN IF to_offset(s[1]).base = to_offset(s[2]).base THEN r ELSE <<s[1]>> \o r

Explicit(s) == {j \in DOMAIN s : is_explicit(s[j])}

\* Slip: the number is dropped for any other argument.
DropsExplicit(s) ==
  LET n == Cardinality(Explicit(s))
  IN IF n = 0 THEN s ELSE SubSeq(s, IF n < Len(s) THEN n + 1 ELSE n, Len(s))

\* Numbers come first: the largest is kept, unless some argument has as many successors.
drop_explicit(s) ==
  LET n == Cardinality(Explicit(s))
      covered == \E j \in (n + 1)..Len(s) : to_offset(s[j]).n >= to_offset(s[n]).n
  IN IF n = 0 THEN s ELSE SubSeq(s, IF covered THEN n + 1 ELSE n, Len(s))

\* std::sort: a rearrangement with no pair out of order.
sort(s) ==
  LET Orders == {p \in [DOMAIN s -> DOMAIN s] : {p[i] : i \in DOMAIN s} = DOMAIN s}
  IN CHOOSE t \in {[i \in DOMAIN s |-> s[p[i]]] : p \in Orders} :
       \A i, j \in DOMAIN s : i < j => ~is_norm_lt(t[j], t[i])

AllArgs(s) == IF s = <<>> THEN <<>> ELSE push_max_args(normalize(s[1])) \o all_args(Tail(s))

Normalized(l) ==
  LET o == to_offset(l)
      r == o.base
  IN CASE is_imax(r) -> mk_succ_n(mk_imax_s(normalize(r.a), normalize(r.b)), o.n)
       [] is_max(r) ->
            LET args == sort(all_args(push_max_args(r)))
                kept == last_of_base(drop_explicit(args))
            IN mk_max_list([i \in DOMAIN kept |-> mk_succ_n(kept[i], o.n)])
       [] OTHER -> l
-------------------------------------------------------------------------------
(* The tests.                                                                *)

is_equivalent(l, m) == l = m \/ normalize(l) = normalize(m)

\* Slip: an imax is as large as its first argument.
GeqByEither(l, m) ==
  \/ l = m \/ is_zero(m)
  \/ is_max(l) /\ (is_geq(l.a, m) \/ is_geq(l.b, m))
  \/ is_imax(l) /\ (is_geq(l.a, m) \/ is_geq(l.b, m))

is_geq_core(l, m) ==
  IF l = m \/ is_zero(m) THEN TRUE
  ELSE IF is_max(m) THEN is_geq(l, m.a) /\ is_geq(l, m.b)
  ELSE IF is_max(l) /\ (is_geq(l.a, m) \/ is_geq(l.b, m)) THEN TRUE
  ELSE IF is_imax(m) THEN is_geq(l, m.a) /\ is_geq(l, m.b)
  ELSE IF is_imax(l) THEN is_geq(l.b, m)
  ELSE LET p == to_offset(l)
           q == to_offset(m)
       IN \/ (p.base = q.base \/ is_zero(q.base)) /\ p.n >= q.n
          \/ ~(p.base = q.base \/ is_zero(q.base)) /\ p.n = q.n /\ p.n > 0
             /\ is_geq(p.base, q.base)

IsGeq(l, m) == is_geq_core(normalize(l), normalize(m))

LvlZero(l) ==
  CASE l.k = 0 -> TRUE
    [] l.k = 2 -> lvl_zero(l.a) /\ lvl_zero(l.b)
    [] l.k = 3 -> lvl_zero(l.b)
    [] OTHER -> FALSE

\* f gives levels for some parameters.
Instantiated(l, f) ==
  CASE l.k = 1 -> mk_succ(instantiate_level_params(l.a, f))
    [] l.k = 2 -> mk_max_s(instantiate_level_params(l.a, f), instantiate_level_params(l.b, f))
    [] l.k = 3 -> mk_imax_s(instantiate_level_params(l.a, f), instantiate_level_params(l.b, f))
    [] l.k = 4 -> IF l.p \in DOMAIN f THEN f[l.p] ELSE l
    [] OTHER -> l

ParamsOf(l) ==
  CASE l.k = 1 -> params_of(l.a)
    [] l.k \in {2, 3} -> params_of(l.a) \cup params_of(l.b)
    [] l.k = 4 -> {l.p}
    [] OTHER -> {}

\* The code returns one of these, or NIL if there is none.
get_undef_param(l, ps) == params_of(l) \ ps
-------------------------------------------------------------------------------
(* What levels mean: a number for every assignment.                          *)

Assignments == [Params -> Values]

ValueOf(l, f) ==
  CASE l.k = 0 -> 0
    [] l.k = 1 -> value(l.a, f) + 1
    [] l.k = 4 -> f[l.p]
    [] OTHER -> LET v == value(l.a, f)
                    w == value(l.b, f)
                IN IF l.k = 3 /\ w = 0 THEN 0 ELSE IF v >= w THEN v ELSE w
Meaning(l) == [f \in Assignments |-> value(l, f)]

VARIABLES x, y, means, steps
vars == <<x, y, means, steps>>

Init == \E l \in Start : x = l[1] /\ y = l[2] /\ means = Meaning(x) /\ steps = 0

Step == steps < MaxSteps /\ steps' = steps + 1 /\ UNCHANGED y

\* x is replaced by its normal form.
Normalize == Step /\ x' = normalize(x) /\ UNCHANGED means

\* x becomes the sort of a Pi from y, or joins y.
TakeMax == Step /\ x' = mk_max_s(y, x)
           /\ means' = [f \in Assignments |-> LET v == value(y, f) IN IF v >= means[f] THEN v ELSE means[f]]
TakeIMax == Step /\ x' = mk_imax_s(y, x)
            /\ means' = [f \in Assignments |->
                 LET v == value(y, f) IN IF means[f] = 0 \/ means[f] >= v THEN means[f] ELSE v]

\* A parameter of x is instantiated with a level whose value is in the bounds.
Instantiate ==
  \E n \in Params :
    LET Given(f) == [f EXCEPT ![n] = value(y, f)]
    IN /\ \A f \in Assignments : Given(f) \in Assignments
       /\ Step /\ x' = instantiate_level_params(x, [i \in {n} |-> y])
       /\ means' = [f \in Assignments |-> means[Given(f)]]

Next == Normalize \/ TakeMax \/ TakeIMax \/ Instantiate
Spec == Init /\ [][Next]_vars
-------------------------------------------------------------------------------
Parts(l) ==
  {l} \cup CASE l.k = 1 -> parts(l.a) [] l.k \in {2, 3} -> parts(l.a) \cup parts(l.b) [] OTHER -> {}

\* Constructors, normal forms and instantiation keep the value of a level under every
\* assignment, although each of them simplifies (level.cpp:73-90, 131-168, 193-205), and
\* the value depends on no parameter but those get_undef_param would find (level.cpp:207).
MeaningKept ==
  /\ \A f \in Assignments : value(x, f) = means[f]
  /\ \A ps \in SUBSET Params :
       get_undef_param(x, ps) = {} =>
         \A f, g \in Assignments : (\A n \in ps : f[n] = g[n]) => means[f] = means[g]

\* Levels with one normal form are equal for every assignment, and the sort that decides
\* on the normal form is that of a strict total order: std::sort is undefined without.
EquivalentSound ==
  /\ is_equivalent(x, y) => means = Meaning(y)
  /\ \A l, m \in parts(x) \cup parts(y) :
       (is_norm_lt(l, m) <=> l # m /\ ~is_norm_lt(m, l))
  /\ \A l, m \in parts(x) :
       is_norm_lt(l, m) => \A k \in parts(x) : is_norm_lt(m, k) => is_norm_lt(l, k)

\* A level taken to be at least another one is, for every assignment: a constructor's
\* field is never let into too small a universe (inductive.cpp:323-351).  And "l is zero
\* under every assignment of its parameters (exactly: is_zero(normalize(l)))" (nbe.cpp:310):
\* the three agree, so that no proof irrelevance is missed or invented.
ComparisonsSound ==
  /\ is_geq(x, y) => \A f \in Assignments : means[f] >= value(y, f)
  /\ lvl_zero(x) <=> is_zero(normalize(x))
  /\ lvl_zero(x) <=> \A f \in Assignments : means[f] = 0
===============================================================================
