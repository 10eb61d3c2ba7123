------------------------------- MODULE ValueForms -------------------------------
(***************************************************************************)
(* The forms of the values of the checking engine (src/src/nbe.cpp), and   *)
(* what is told from a form alone: module Values says how they compute,    *)
(* module Conv how two of them are compared.                               *)
(***************************************************************************)
EXTENDS Naturals, Sequences

CONSTANT Consts   \* the environment: a function from names to constants

\* Env is a function from the variables a term mentions to values.
VSort(u) == [k |-> "sort", u |-> u]
VNat(n) == [k |-> "nat", n |-> n]
VLam(t, env, b) == [k |-> "lam", dom |-> t, env |-> env, body |-> b]
\* inf: the closure infers the type of its body rather than evaluating it.
VPi(v, env, b, inf) == [k |-> "pi", dom |-> v, env |-> env, body |-> b, pinf |-> inf]
\* The head is a bound variable (its level and its type) or a constant (its name).
Neu(hk, a, d, t, sp) == [k |-> "neu", hk |-> hk, a |-> a, lvl |-> d, bty |-> t, sp |-> sp]
NoType == [k |-> "notype"]
\* What stands for an argument that is never looked at, and for the failures
\* "loose bound variable", "variable outside its frame", "function expected" and the like.
Unused == [k |-> "unused"]
Broken == [k |-> "broken"]

Arg(v) == [p |-> FALSE, v |-> v]
ProjElim(s, i) == [p |-> TRUE, s |-> s, i |-> i]
Args(sp) == [i \in DOMAIN sp |-> sp[i].v]
HasProj(sp) == \E i \in DOMAIN sp : sp[i].p

IsHead(v, kind) == v.k = "neu" /\ v.hk = kind
IsCtor(v, c) == IsHead(v, "ctor") /\ v.a = c

fresh(d, t) == Neu("bvar", "", d, t, <<>>)
const_head(c) == Neu(Consts[c].kind, c, 0, NoType, <<>>)
neu_app(f, e) == [f EXCEPT !.sp = Append(@, e)]

NonRecStructure(I) == I.kind = "induct" /\ ~I.is_rec /\ Len(I.ctors) = 1 /\ I.nindices = 0
is_structure_like(c) == NonRecStructure(Consts[c])

\* y is a constructor of a structure and its fields are x's projections.
MadeCtor(y) == IsHead(y, "ctor") /\ ~HasProj(y.sp) /\ is_structure_like(Consts[y.a].induct)
               /\ Len(y.sp) = Consts[y.a].nparams + Consts[y.a].nfields

\* A field of a constructor application, or a projection that waits for its head to reduce.
FieldAt(v, i) == Consts[v.a].nparams + i + 1
do_proj(v, s, i) ==
  CASE v.k # "neu" -> Broken
    [] IsHead(v, "ctor") /\ ~HasProj(v.sp) /\ Consts[v.a].induct = s /\ FieldAt(v, i) <= Len(v.sp) -> v.sp[FieldAt(v, i)].v
    [] OTHER -> neu_app(v, ProjElim(s, i))

reducible(v) == v.k = "neu" /\ v.hk \in {"def", "rec"}
\* What a value that does not reduce steps to.
NoStep == [k |-> "nostep"]
\* The recursor at the head.
RecOf(v) == Consts[v.a]

SameHead(x, y) == x.hk = y.hk /\ x.a = y.a /\ x.lvl = y.lvl
imax(u, w) == IF w = 0 THEN 0 ELSE IF u > w THEN u ELSE w
SigBase == 100   \* 2^30 in the code: levels no context reaches
===============================================================================
