-------------------------------- MODULE TermForms --------------------------------
(***************************************************************************)
(* The forms of terms (src/src/expr.h) and the facts about constants that  *)
(* do not need a look inside a term.                                       *)
(*                                                                         *)
(* Universe levels, binder names and types are left out.                   *)
(***************************************************************************)
EXTENDS Naturals, Sequences, TLC

CONSTANTS
  Decls,    \* what the environment has: a function from names to constants
  LetVars   \* the let-bound free variables: a function to their values

BVar(i) == [k |-> "bvar", i |-> i]
FVar(x) == [k |-> "fvar", name |-> x]
Const(c) == [k |-> "const", c |-> c]
LitNat(n) == [k |-> "lit", n |-> n]
App(f, x) == [k |-> "app", f |-> f, x |-> x]
Lam(b) == [k |-> "lam", b |-> b]
Let(v, b) == [k |-> "let", v |-> v, b |-> b]
Proj(i, e) == [k |-> "proj", i |-> i, e |-> e]

IsConst(t) == t.k = "const"
KindOf(t) == IF IsConst(t) /\ t.c \in DOMAIN Decls THEN Decls[t.c].kind ELSE "none"

\* The first `major` arguments of a recursor are parameters, motives, minor premises and
\* indices; the first `nbefore` of them are passed to a rule.
rec_major_idx(d) == d.nbefore + d.nindices

\* A numeral as a constructor application: what a recursor sees.
nat_lit_to_ctor(n) == IF n = 0 THEN Const("zero") ELSE App(Const("succ"), LitNat(n - 1))

\* Local variables: the parameters x1, x2, ..., the fields f1, ..., the varying arguments
\* y1, ... of a recursive call, its result r1, ...
Locals(s, n) == [i \in 1..n |-> s \o ToString(i)] \o <<>>
AsTerms(xs) == [i \in DOMAIN xs |-> FVar(xs[i])]
==================================================================================
