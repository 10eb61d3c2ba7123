--------------------------------- MODULE Binding ---------------------------------
(***************************************************************************)
(* Terms with bound variables as indices and free variables as nodes:      *)
(* instantiation, abstraction, applications and telescopes (src/src/expr.h,*)
(* expr.cpp) and closing over local declarations (kernel.cpp).  A free     *)
(* variable carries its type, for which the code asks the local context.   *)
(*                                                                         *)
(* Left out: binder names, let bindings, and the suspension of a closed    *)
(* substitution in a closure node, which changes no term (module Tiers has *)
(* the nodes).                                                             *)
(***************************************************************************)
EXTENDS Naturals, Sequences, SequencesExt, FiniteSets

Sort(u) == [k |-> "sort", u |-> u]
Const(c) == [k |-> "const", c |-> c]
BVar(i) == [k |-> "bvar", i |-> i]
FVar(id, t) == [k |-> "fvar", id |-> id, t |-> t]
App(f, x) == [k |-> "app", f |-> f, x |-> x]
Lam(t, b) == [k |-> "lam", t |-> t, b |-> b]
Pi(t, b) == [k |-> "pi", t |-> t, b |-> b]
IsBinder(e) == e.k \in {"lam", "pi"}

RECURSIVE get_app_fn(_)
get_app_fn(e) == IF e.k = "app" THEN get_app_fn(e.f) ELSE e
RECURSIVE get_app_args(_)
get_app_args(e) == IF e.k = "app" THEN Append(get_app_args(e.f), e.x) ELSE <<>>
mk_apps(f, args) == FoldLeft(App, f, args)

Drop(s, n) == SubSeq(s, n + 1, Len(s))
Take(s, n) == SubSeq(s, 1, n)

\* The constants of a term.
RECURSIVE ConstsOf(_)
ConstsOf(e) ==
  CASE e.k = "const" -> {e.c}
    [] e.k = "app" -> ConstsOf(e.f) \cup ConstsOf(e.x)
    [] IsBinder(e) -> ConstsOf(e.t) \cup ConstsOf(e.b)
    [] OTHER -> {}
occurs_const(e, c) == c \in ConstsOf(e)

\* One more than the largest index that is not bound, or 0.
RECURSIVE loose_bvar_range(_)
loose_bvar_range(e) ==
  LET Larger(m, n) == IF m > n THEN m ELSE n
  IN CASE e.k = "bvar" -> e.i + 1
       [] e.k = "app" -> Larger(loose_bvar_range(e.f), loose_bvar_range(e.x))
       [] IsBinder(e) -> LET n == loose_bvar_range(e.b) IN Larger(loose_bvar_range(e.t), IF n = 0 THEN 0 ELSE n - 1)
       [] OTHER -> 0
has_loose_bvars(e) == loose_bvar_range(e) > 0

RECURSIVE lift_loose_bvars(_, _, _)
lift_loose_bvars(e, s, d) ==
  CASE e.k = "bvar" -> IF e.i < s THEN e ELSE BVar(e.i + d)
    [] e.k = "app" -> App(lift_loose_bvars(e.f, s, d), lift_loose_bvars(e.x, s, d))
    [] IsBinder(e) -> [e EXCEPT !.t = lift_loose_bvars(@, s, d), !.b = lift_loose_bvars(@, s + 1, d)]
    [] OTHER -> e

\* Under off binders: the innermost of the outer variables becomes the last of args.
RECURSIVE InstantiateAt(_, _, _)
InstantiateAt(e, args, off) ==
  CASE e.k = "bvar" ->
         IF e.i < off THEN e
         ELSE IF e.i - off < Len(args) THEN lift_loose_bvars(args[Len(args) - (e.i - off)], 0, off)
         ELSE BVar(e.i - Len(args))
    [] e.k = "app" -> App(InstantiateAt(e.f, args, off), InstantiateAt(e.x, args, off))
    [] IsBinder(e) -> [e EXCEPT !.t = InstantiateAt(@, args, off), !.b = InstantiateAt(@, args, off + 1)]
    [] OTHER -> e
instantiate_rev(e, args) == IF args = <<>> THEN e ELSE InstantiateAt(e, args, 0)

RECURSIVE AbstractAt(_, _, _)
AbstractAt(e, fvars, off) ==
  CASE e.k = "fvar" ->
         IF e \in Range(fvars) THEN BVar(off + Len(fvars) - (CHOOSE i \in DOMAIN fvars : fvars[i] = e)) ELSE e
    [] e.k = "app" -> App(AbstractAt(e.f, fvars, off), AbstractAt(e.x, fvars, off))
    [] IsBinder(e) -> [e EXCEPT !.t = AbstractAt(@, fvars, off), !.b = AbstractAt(@, fvars, off + 1)]
    [] OTHER -> e
abstract_fvars(e, fvars) == AbstractAt(e, fvars, 0)

\* The binders of fvars around body; each type is closed over the variables before it.
mk_pi(fvars, body) ==
  FoldRightDomain(LAMBDA i, e : Pi(abstract_fvars(fvars[i].t, Take(fvars, i - 1)), e), fvars, abstract_fvars(body, fvars))
mk_lambda(fvars, body) ==
  FoldRightDomain(LAMBDA i, e : Lam(abstract_fvars(fvars[i].t, Take(fvars, i - 1)), e), fvars, abstract_fvars(body, fvars))

\* Beta at the head, and everywhere (equality of normal forms is definitional equality here).
RECURSIVE head_beta(_)
head_beta(e) ==
  IF e.k # "app" THEN e
  ELSE LET f == head_beta(e.f) IN IF f.k = "lam" THEN head_beta(instantiate_rev(f.b, <<e.x>>)) ELSE App(f, e.x)
RECURSIVE Nf(_)
Nf(e) ==
  LET w == head_beta(e)
  IN CASE w.k = "app" -> App(Nf(w.f), Nf(w.x))
       [] IsBinder(w) -> [w EXCEPT !.t = Nf(@), !.b = Nf(@)]
       [] OTHER -> w
is_def_eq(e1, e2) == Nf(e1) = Nf(e2)

\* The leading binders of e as variables, named by a role and numbers, and what is under them;
\* reduce: the binders it has after head_beta.
RECURSIVE OpenFrom(_, _, _, _, _)
OpenFrom(e, reduce, role, d, fvars) ==
  LET w == IF reduce THEN head_beta(e) ELSE e
  IN IF ~IsBinder(w) THEN [fvars |-> fvars, body |-> w]
     ELSE LET x == FVar([role |-> role, d |-> d, i |-> Len(fvars) + 1], w.t)
          IN OpenFrom(instantiate_rev(w.b, <<x>>), reduce, role, d, Append(fvars, x))
Open(e, role, d) == OpenFrom(e, FALSE, role, d, <<>>)
OpenReduced(e, role, d) == OpenFrom(e, TRUE, role, d, <<>>)

RECURSIVE num_pis(_)
num_pis(e) == IF IsBinder(e) THEN 1 + num_pis(e.b) ELSE 0
\* e without n binders, args for their variables.
RECURSIVE instantiate_pis(_, _, _)
instantiate_pis(e, n, args) ==
  IF n = 0 THEN instantiate_rev(e, args) ELSE instantiate_pis(e.b, n - 1, args)
==================================================================================
