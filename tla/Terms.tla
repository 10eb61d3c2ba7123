--------------------------------- MODULE Terms ---------------------------------
(***************************************************************************)
(* The terms the lazy machine reduces (src/src/expr.h), and what reducing  *)
(* them means: the kernel's reduction by substitution, arguments           *)
(* unevaluated, naturals in unary.  The machine (module Kam) computes the  *)
(* same with closures, sharing, literals and rules of its own.             *)
(***************************************************************************)
EXTENDS TermForms, SequencesExt, FiniteSets

CONSTANTS
  Refls,    \* free variables whose type makes a K-like recursor reduce
  Structs   \* free variables of a structure type

RECURSIVE GetAppFn(_)
GetAppFn(t) == IF t.k = "app" THEN GetAppFn(t.f) ELSE t
RECURSIVE GetAppArgs(_)
GetAppArgs(t) == IF t.k = "app" THEN Append(GetAppArgs(t.f), t.x) ELSE <<>>
RECURSIVE MkApps(_, _)
MkApps(f, args) == IF args = <<>> THEN f ELSE App(MkApps(f, Front(args)), Last(args))

\* Variables below which a term is open.
Under(n) == IF n > 0 THEN n - 1 ELSE 0
Larger(m, n) == IF m > n THEN m ELSE n
RECURSIVE LooseBVarRange(_)
LooseBVarRange(t) ==
  CASE t.k = "bvar" -> t.i + 1
    [] t.k = "app" -> Larger(LooseBVarRange(t.f), LooseBVarRange(t.x))
    [] t.k = "lam" -> Under(LooseBVarRange(t.b))
    [] t.k = "let" -> Larger(LooseBVarRange(t.v), Under(LooseBVarRange(t.b)))
    [] t.k = "proj" -> LooseBVarRange(t.e)
    [] OTHER -> 0
HasLooseBVars(t) == LooseBVarRange(t) > 0

RECURSIVE lift_loose_bvars(_, _, _)
lift_loose_bvars(t, s, d) ==
  CASE t.k = "bvar" -> IF t.i < s THEN t ELSE BVar(t.i + d)
    [] t.k = "app" -> App(lift_loose_bvars(t.f, s, d), lift_loose_bvars(t.x, s, d))
    [] t.k = "lam" -> Lam(lift_loose_bvars(t.b, s + 1, d))
    [] t.k = "let" -> Let(lift_loose_bvars(t.v, s, d), lift_loose_bvars(t.b, s + 1, d))
    [] t.k = "proj" -> Proj(t.i, lift_loose_bvars(t.e, s, d))
    [] OTHER -> t

\* Terms s for the variables of t from depth d on, the nearest first; those beyond move down.
RECURSIVE InstantiateAt(_, _, _)
InstantiateAt(t, s, d) ==
  CASE t.k = "bvar" ->
         IF t.i < d THEN t
         ELSE IF t.i - d < Len(s) THEN lift_loose_bvars(s[t.i - d + 1], 0, d)
         ELSE BVar(t.i - Len(s))
    [] t.k = "app" -> App(InstantiateAt(t.f, s, d), InstantiateAt(t.x, s, d))
    [] t.k = "lam" -> Lam(InstantiateAt(t.b, s, d + 1))
    [] t.k = "let" -> Let(InstantiateAt(t.v, s, d), InstantiateAt(t.b, s, d + 1))
    [] t.k = "proj" -> Proj(t.i, InstantiateAt(t.e, s, d))
    [] OTHER -> t
Instantiate(t, s) == IF HasLooseBVars(t) THEN InstantiateAt(t, s, 0) ELSE t

\* Whether variable i occurs in t.
RECURSIVE Occurs(_, _)
Occurs(t, i) ==
  CASE t.k = "bvar" -> t.i = i
    [] t.k = "app" -> Occurs(t.f, i) \/ Occurs(t.x, i)
    [] t.k = "lam" -> Occurs(t.b, i + 1)
    [] t.k = "let" -> Occurs(t.v, i) \/ Occurs(t.b, i + 1)
    [] t.k = "proj" -> Occurs(t.e, i)
    [] OTHER -> FALSE

\* The free variables xs, a sequence of names, as variables below d binders, the last nearest.
RECURSIVE AbstractAt(_, _, _)
AbstractAt(t, xs, d) ==
  CASE t.k = "fvar" ->
         IF t.name \in Range(xs) THEN BVar(d + Len(xs) - (CHOOSE i \in DOMAIN xs : xs[i] = t.name)) ELSE t
    [] t.k = "app" -> App(AbstractAt(t.f, xs, d), AbstractAt(t.x, xs, d))
    [] t.k = "lam" -> Lam(AbstractAt(t.b, xs, d + 1))
    [] t.k = "let" -> Let(AbstractAt(t.v, xs, d), AbstractAt(t.b, xs, d + 1))
    [] t.k = "proj" -> Proj(t.i, AbstractAt(t.e, xs, d))
    [] OTHER -> t
abstract_fvars(t, xs) == AbstractAt(t, xs, 0)

\* Term p, without loose variables, replaced by q wherever it occurs in t.
RECURSIVE ReplaceIn(_, _, _)
ReplaceIn(t, p, q) ==
  CASE t = p -> q
    [] t # p /\ t.k = "app" -> App(ReplaceIn(t.f, p, q), ReplaceIn(t.x, p, q))
    [] t # p /\ t.k = "lam" -> Lam(ReplaceIn(t.b, p, q))
    [] t # p /\ t.k = "let" -> Let(ReplaceIn(t.v, p, q), ReplaceIn(t.b, p, q))
    [] t # p /\ t.k = "proj" -> Proj(t.i, ReplaceIn(t.e, p, q))
    [] OTHER -> t
-------------------------------------------------------------------------------
(* Reduction.                                                                *)

RECURSIVE Whnf(_, _)

\* A K-like recursor's major premise becomes the constructor its type forces.
OnlyCtor(d) == Const(CHOOSE c \in DOMAIN d.rules : TRUE)
ForcesCtor(d, hd) == hd = OnlyCtor(d) \/ (hd.k = "fvar" /\ hd.name \in Refls)
ToCtorWhenK(d, m) == IF ForcesCtor(d, GetAppFn(Whnf(m, TRUE))) THEN OnlyCtor(d) ELSE m

\* A structure's major premise becomes its constructor applied to its projections.
IsStruct(hd) == hd.k = "fvar" /\ hd.name \in Structs
ToCtorWhenStruct(d, m) ==
  IF d.struct /\ IsStruct(GetAppFn(Whnf(m, TRUE)))
    THEN MkApps(OnlyCtor(d), [i \in 1..d.rules[OnlyCtor(d).c].nfields |-> Proj(i - 1, m)])
    ELSE m

AsCtor(m) == LET hd == GetAppFn(m)
             IN IF hd.k = "lit" THEN MkApps(nat_lit_to_ctor(hd.n), GetAppArgs(m)) ELSE m
Fields(m, n) == LET a == GetAppArgs(m) IN SubSeq(a, Len(a) - n + 1, Len(a))
HasRule(d, m) == LET hd == GetAppFn(m)
                 IN IsConst(hd) /\ hd.c \in DOMAIN d.rules
                    /\ d.rules[hd.c].nfields <= Len(GetAppArgs(m))

\* f applied to what is left of the arguments after the first n.
Rest(f, args, n) == MkApps(f, SubSeq(args, n + 1, Len(args)))

Selects(d, m) == IF HasRule(d, m) THEN m ELSE ToCtorWhenStruct(d, m)
ByRule(d, args, m) ==
  LET r == d.rules[GetAppFn(m).c]
  IN Rest(MkApps(r.rhs, SubSeq(args, 1, d.nbefore) \o Fields(m, r.nfields)), args, rec_major_idx(d) + 1)
Iota(t, d, m, delta) == IF HasRule(d, m) THEN Whnf(ByRule(d, GetAppArgs(t), m), delta) ELSE t

Lifts(t, m, delta) ==
  IF GetAppFn(m) = Const("Quot.mk") /\ Len(GetAppArgs(m)) = 3
    THEN Whnf(Rest(App(GetAppArgs(t)[4], GetAppArgs(m)[3]), GetAppArgs(t), 6), delta)
    ELSE t
Projects(t, i, m, delta) ==
  LET hd == GetAppFn(m)
      at == Decls[hd.c].nparams + i + 1
  IN IF KindOf(hd) = "ctor" /\ at <= Len(GetAppArgs(m))
       THEN Whnf(Rest(GetAppArgs(m)[at], GetAppArgs(t), 0), delta)
       ELSE t

\* Head reduction of t, head hd applied to args; a major premise is reduced with definitions
\* whatever `delta` says.
HeadReduce(t, hd, args, delta) ==
  CASE hd.k = "lam" /\ args # <<>> -> Whnf(Rest(Instantiate(hd.b, <<args[1]>>), args, 1), delta)
    [] hd.k = "let" -> Whnf(Rest(Instantiate(hd.b, <<hd.v>>), args, 0), delta)
    [] hd.k = "fvar" /\ hd.name \in DOMAIN LetVars -> Whnf(Rest(LetVars[hd.name], args, 0), delta)
    [] hd.k = "proj" -> Projects(t, hd.i, AsCtor(Whnf(hd.e, TRUE)), delta)
    [] KindOf(hd) = "rec" /\ Len(args) > rec_major_idx(Decls[hd.c]) ->
         LET d == Decls[hd.c]
             m == args[rec_major_idx(d) + 1]
         IN Iota(t, d, Selects(d, AsCtor(Whnf(IF d.k THEN ToCtorWhenK(d, m) ELSE m, TRUE))), delta)
    [] KindOf(hd) = "lift" /\ Len(args) > 5 -> Lifts(t, Whnf(args[6], TRUE), delta)
    [] KindOf(hd) = "def" /\ delta -> Whnf(Rest(Decls[hd.c].value, args, 0), delta)
    [] OTHER -> t
Whnf(t, delta) == HeadReduce(t, GetAppFn(t), GetAppArgs(t), delta)

\* The normal form: equal for terms that reduction identifies.  Binders are opened with
\* variables numbered by their depth.
RECURSIVE NormalAt(_, _)
NormalHead(hd, n) ==
  CASE hd.k = "lam" -> Lam(NormalAt(Instantiate(hd.b, <<[k |-> "fresh", n |-> n]>>), n + 1))
    [] hd.k = "proj" -> Proj(hd.i, NormalAt(hd.e, n))
    [] OTHER -> hd
NormalArgs(args, n) == [i \in DOMAIN args |-> NormalAt(args[i], n)] \o <<>>
NormalOf(w, n) == MkApps(NormalHead(GetAppFn(w), n), NormalArgs(GetAppArgs(w), n))
NormalAt(t, n) == NormalOf(AsCtor(Whnf(t, TRUE)), n)
Normal(t) == NormalAt(t, 0)
===============================================================================
