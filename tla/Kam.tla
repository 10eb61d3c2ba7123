---------------------------------- MODULE Kam ----------------------------------
(***************************************************************************)
(* The lazy machine (src/src/kam.cpp, kam.h).                              *)
(*                                                                         *)
(* A term is reduced under an environment of thunks, against a stack of    *)
(* frames.  A thunk is a delayed closure until it is forced, and has the   *)
(* value found from then on; closed terms share one thunk, and closures    *)
(* that read back to one term share one value.  A definition may have a    *)
(* rule for its recursive argument, derived when the machine first meets   *)
(* the definition: the derivation asks the checker, which may run the      *)
(* machine again, on the same thunks, while the first run waits; it may    *)
(* fail half-way, and the failure is caught.  Terms are fused before they  *)
(* are run, definitions before they are unfolded (module Fusion).          *)
(*                                                                         *)
(* Reference counts are left out, and read-backs are not cached.  A thunk   *)
(* made as a value (mk_value) never outlives the step that makes it, so     *)
(* every thunk of the heap has its closure.                                 *)
(*                                                                         *)
(* A function of the source that calls itself, and those that go through   *)
(* terms (modules Terms and Fusion), are constant operators of their name. *)
(* What a function of this module computes from its calls is the           *)
(* definition of the same name in capitals: readback is Readback.  A       *)
(* configuration makes the first the second, proofs take the equation of   *)
(* the two.                                                                *)
(***************************************************************************)
EXTENDS TermForms, SequencesExt, FiniteSets

CONSTANTS
  get_app_fn(_), get_app_args(_), mk_apps(_, _), loose_bvar_range(_), instantiate(_, _),
  occurs(_, _), num_lams(_), to_ctor_when_K(_, _), to_ctor_when_struct(_, _),
  whnf(_, _), normal(_),                                      \* of Terms
  fuse_term(_, _, _), opened(_), is_rec_body(_), shape_of(_), shape_ok(_), unfolded(_, _),
  called(_, _, _, _), arm_of(_, _, _, _),                     \* of Fusion
  readback(_, _), mk_thunks(_, _, _, _), can_take(_, _), take_args(_, _, _), strip(_, _),
  mk_hyps(_, _, _, _, _), lit_value(_, _), roots(_, _)        \* of this module

CONSTANTS
  Programs,   \* in each mode, what is reduced and the limits of fusion: the terms of a
              \* declaration ("decl"), or one for head reduction in fix.cpp ("core")
  Queries,    \* terms the derivation of a rule has reduced: function from names
  MaxNest,    \* bound: derivations nested in one another (8 in the code)
  MaxLimits   \* bound: runs that hit a limit of memory or depth

ASSUME KamAssumption ==
  /\ MaxNest \in Nat /\ MaxLimits \in Nat
  /\ DOMAIN Programs = {"decl", "core"} /\ \A p \in Programs.core : Len(p[1]) = 1
  /\ \A c \in DOMAIN Queries : Decls[c].kind = "def" /\ Decls[c].op = "none"
  /\ \A p \in Programs.decl \cup Programs.core :
       {p[2].budget, p[2].depth, p[2].unfolds, p[2].dup} \subseteq Nat

VARIABLES
  mode,          \* chosen at the start
  heap, closed,  \* the thunks; the map of shared ones, from terms
  h, env,        \* the head of the machine and its environment, nearest binder first
  delta,         \* whether definitions are unfolded
  st,            \* the stack, top first
  out,           \* arguments gathered while a value is unwound
  pc,            \* idle, fuse, step, unfold, unwind, done, error, over
  of, todo,      \* the term this run reduces, and those still to come
  susp,          \* the runs suspended by the derivation of a rule
  rule, rules,   \* what is known of the rule of a definition; the rules found
  limit, fuse_cache, unfold_cache,   \* of fusion; the fused terms and values kept
  limits         \* the limits hit so far

store == <<heap, closed>>
machine == <<h, env, delta, st, out, pc>>
mctx == <<limit, fuse_cache, unfold_cache>>
session == <<mode, of, todo, susp, rule, rules, limits>>
vars == <<store, machine, mctx, session>>

Defs == {c \in DOMAIN Decls : Decls[c].kind = "def"}

Nil == [k |-> "nil"]
Thunk(s, t, e, vt, ve, a) ==
  [state |-> s, term |-> t, env |-> e, vterm |-> vt, venv |-> ve, args |-> a]

\* The placeholder for a hypothesis that is not used; no thunk of the heap.
unused_cell == 0
Cell(th, t) ==
  IF t = unused_cell THEN Thunk(0, Const("unused_hypothesis"), <<>>, Nil, <<>>, <<>>) ELSE th[t]

\* A map f with v at x, unless it has x already.
emplace(f, x, v) == [y \in DOMAIN f \cup {x} |-> IF y \in DOMAIN f THEN f[y] ELSE v]

has_loose_bvars(t) == loose_bvar_range(t) > 0

Arg(t) == [k |-> "arg", th |-> t]
Upd(t) == [k |-> "upd", th |-> t]
Cont(hd, e, a, dl) == [k |-> "cont", h |-> hd, env |-> e, args |-> a, delta |-> dl]
ProjK(hd, e, dl) == [k |-> "proj", h |-> hd, env |-> e, delta |-> dl]
ArgFrames(a) == [i \in DOMAIN a |-> Arg(a[i])]

Init ==
  /\ mode \in DOMAIN Programs /\ \E p \in Programs[mode] : todo = p[1] /\ limit = p[2]
  /\ heap = <<>> /\ closed = <<>>
  /\ h = Nil /\ env = <<>> /\ delta = (mode = "decl") /\ st = <<>> /\ out = <<>>
  /\ pc = "idle" /\ of = Nil /\ susp = <<>>
  /\ rule = [c \in Defs |-> "unknown"] /\ rules = <<>> /\ limits = 0
  /\ fuse_cache = <<>> /\ unfold_cache = <<>>
-------------------------------------------------------------------------------
(* Reading back: a thunk as it was written, or its value.                    *)

readback_closure(th, t, e) ==
  instantiate(t, [i \in 1..loose_bvar_range(t) |-> readback(th, e[i])])
readback_value(th, u) ==
  mk_apps(readback_closure(th, u.vterm, u.venv), [i \in DOMAIN u.args |-> readback(th, u.args[i])])
Readback(th, t) == LET u == Cell(th, t) IN readback_closure(th, u.term, u.env)
-------------------------------------------------------------------------------
(* Thunks.  A store S has the thunks, the map, and the thunks just made.     *)

Store(th) == [th |-> th, cl |-> closed, ids |-> <<>>]
Made(S) == S.ids[Len(S.ids)]
Keep(S) == heap' = S.th /\ closed' = S.cl

\* A variable is resolved at once; closed terms that reduce are shared.
mk_thunk(S, t, e) ==
  LET new == Len(S.th) + 1
      is_closed == ~has_loose_bvars(t)
      shared == is_closed /\ t.k \in {"app", "proj", "let", "const"}
  IN IF t.k = "bvar" THEN [S EXCEPT !.ids = Append(@, e[t.i + 1])]
     ELSE IF shared /\ t \in DOMAIN S.cl THEN [S EXCEPT !.ids = Append(@, S.cl[t])]
     ELSE [th |-> Append(S.th, Thunk(0, t, IF is_closed THEN <<>> ELSE e, Nil, <<>>, <<>>)),
           cl |-> IF shared THEN emplace(S.cl, t, new) ELSE S.cl,
           ids |-> Append(S.ids, new)]

\* The first n of ts.
MkThunks(S, ts, n, e) == IF n = 0 THEN S ELSE mk_thunk(mk_thunks(S, ts, n - 1, e), ts[n], e)

\* Slip: no value ever counts as the full one.
AssignsCore(m, u, a) ==
  [u EXCEPT !.vterm = m.h, !.venv = IF has_loose_bvars(m.h) THEN m.env ELSE <<>>, !.args = a, !.state = 2]

\* The head a machine m is at, a value: it keeps its environment only if it has variables.
assign(m, u, a) ==
  [u EXCEPT !.vterm = m.h, !.venv = IF has_loose_bvars(m.h) THEN m.env ELSE <<>>,
            !.args = a, !.state = IF m.delta THEN 3 ELSE 2]
Running == [h |-> h, env |-> env, delta |-> delta]

\* Entering thunk t with the frames s, to unfold definitions or not.
Resume(hd, e, s) == h' = hd /\ env' = e /\ st' = s /\ pc' = "step"

\* Slip: a value found with definitions will do for any run.
HasAnyValue(u, dl) == u.state = 3 \/ (u.state = 2 /\ ~dl)

HasValue(u, dl) == u.state = IF dl THEN 3 ELSE 2

\* Slip: the evaluation that leaves definitions folded updates the thunk.
ReevaluatesAndUpdates(t, s, dl, S) ==
  LET u == S.th[t]
  IN /\ u.state = 3 /\ ~dl
     /\ Resume(u.term, u.env, <<Upd(t)>> \o s) /\ Keep(S)

\* What was reduced with definitions may be reduced too far for this run.
Reevaluates(t, s, dl, S) ==
  LET u == S.th[t]
  IN /\ u.state = 3 /\ ~dl
     /\ Resume(u.term, u.env, s) /\ Keep(S)

UsesValue(t, s, dl, S) ==
  LET u == S.th[t]
  IN /\ HasValue(u, dl)
     /\ Resume(u.vterm, u.venv, ArgFrames(u.args) \o s) /\ Keep(S)

\* Slip: the closure's term is the key, whatever its environment.
KeyUnread(t, S) == S.th[t].term

\* Closures that read back to one term share its value.
MemoKey(t, S) == readback(S.th, t)
Memoised(t, dl, S) ==
  LET u == S.th[t] IN dl /\ u.state = 0 /\ u.term.k = "app" /\ has_loose_bvars(u.term)
Known(t, dl, S) ==
  /\ Memoised(t, dl, S) /\ MemoKey(t, S) \in DOMAIN S.cl
  /\ LET u == S.cl[MemoKey(t, S)] IN u # t /\ S.th[u].state = 3

SharesValue(t, s, dl, S) ==
  /\ Known(t, dl, S)
  /\ LET u == S.th[S.cl[MemoKey(t, S)]]
     IN /\ Resume(u.vterm, u.venv, ArgFrames(u.args) \o s)
        /\ heap' = [S.th EXCEPT ![t] = [@ EXCEPT !.state = 3, !.vterm = u.vterm,
                                                 !.venv = u.venv, !.args = u.args]]
        /\ closed' = S.cl

\* The thunk is marked and evaluated, from the value without definitions if it has one.
Evaluates(t, s, dl, S) ==
  LET u == S.th[t]
  IN /\ u.state = 0 \/ (u.state = 2 /\ dl)
     /\ ~Known(t, dl, S)
     /\ IF u.state = 2 THEN Resume(u.vterm, u.venv, ArgFrames(u.args) \o <<Upd(t)>> \o s)
                       ELSE Resume(u.term, u.env, <<Upd(t)>> \o s)
     /\ heap' = [S.th EXCEPT ![t] = [@ EXCEPT !.state = 1, !.venv = <<>>, !.args = <<>>]]
     /\ closed' = IF Memoised(t, dl, S) THEN emplace(S.cl, MemoKey(t, S), t) ELSE S.cl

\* "lazy machine: cyclic thunk", or the placeholder.
Breaks(t, S) ==
  /\ t = unused_cell \/ S.th[t].state = 1
  /\ pc' = "error" /\ Keep(S) /\ UNCHANGED <<h, env, st>>

enter(t, s, dl, S) ==
  /\ delta' = dl
  /\ \/ Breaks(t, S)
     \/ /\ t # unused_cell
        /\ \/ Reevaluates(t, s, dl, S) \/ UsesValue(t, s, dl, S)
           \/ SharesValue(t, s, dl, S) \/ Evaluates(t, s, dl, S)
-------------------------------------------------------------------------------
(* The arguments above the nearest suspended computation, marks read through. *)

\* A stack s has n of them.
CanTake(n, s) ==
  \/ n = 0
  \/ /\ s # <<>> /\ Head(s).k \in {"arg", "upd"}
     /\ can_take(IF Head(s).k = "arg" THEN n - 1 ELSE n, Tail(s))

\* Slip: the marks on the way are dropped.
DropsMark(m, R) ==
  [args |-> IF Head(R.rest).k = "arg" THEN Append(R.args, Head(R.rest).th) ELSE R.args,
   rest |-> Tail(R.rest), th |-> R.th]

\* The arguments so far, the stack below them, and the thunks: a mark that is passed is
\* assigned the head with the arguments above it.
NextFrame(m, R) ==
  LET f == Head(R.rest)
  IN [args |-> IF f.k = "arg" THEN Append(R.args, f.th) ELSE R.args,
      rest |-> Tail(R.rest),
      th |-> IF f.k = "arg" THEN R.th ELSE [R.th EXCEPT ![f.th] = assign(m, @, R.args)]]
TakeArgs(m, n, R) == IF Len(R.args) = n THEN R ELSE take_args(m, n, NextFrame(m, R))

\* The first n arguments.
Taken(n) == take_args(Running, n, [args |-> <<>>, rest |-> st, th |-> heap])

\* The computation waits below for argument i, which is reduced with definitions first.
force_via(args, i, rest, S) ==
  enter(args[i], <<Cont(h, env, args, delta)>> \o rest, TRUE, S)

\* The arguments go back on the stack.
PushBack(T) == st' = ArgFrames(T.args) \o T.rest /\ heap' = T.th /\ closed' = closed
Becomes(hd, e) == h' = hd /\ env' = e /\ pc' = "step" /\ UNCHANGED delta
IsValue == pc' = "unwind" /\ UNCHANGED <<h, env, delta>>
-------------------------------------------------------------------------------
(* Steps on terms.                                                           *)

At(k) == pc = "step" /\ h.k = k
Machine == UNCHANGED <<out, mctx, session>>

BVarStep == At("bvar") /\ Machine /\ enter(env[h.i + 1], st, delta, Store(heap))

\* The whole spine, last argument first.
AppStep ==
  /\ At("app") /\ Machine
  /\ LET S == mk_thunks(Store(heap), Reverse(get_app_args(h)), Len(get_app_args(h)), env)
     IN /\ Keep(S) /\ st' = ArgFrames(Reverse(S.ids)) \o st
        /\ Becomes(get_app_fn(h), env)

TopIsArg == st # <<>> /\ Head(st).k = "arg"
Beta == /\ Becomes(h.b, <<Head(st).th>> \o env) /\ st' = Tail(st)
        /\ UNCHANGED store

LamStep ==
  /\ At("lam") /\ Machine
  /\ \/ TopIsArg /\ Beta
     \/ ~TopIsArg /\ IsValue /\ UNCHANGED <<st, store>>

\* Slip: the value of a let sees the variable it is bound to.
LetSeesItself ==
  /\ At("let") /\ Machine
  /\ LET S == mk_thunk(Store(heap), h.v, <<Len(heap) + 1>> \o env)
     IN Keep(S) /\ Becomes(h.b, <<Made(S)>> \o env) /\ UNCHANGED st

LetStep ==
  /\ At("let") /\ Machine
  /\ LET S == mk_thunk(Store(heap), h.v, env)
     IN Keep(S) /\ Becomes(h.b, <<Made(S)>> \o env) /\ UNCHANGED st

LitStep == At("lit") /\ Machine /\ IsValue /\ UNCHANGED <<st, store>>

FVarStep ==
  /\ At("fvar") /\ Machine /\ UNCHANGED <<st, store>>
  /\ \/ h.name \in DOMAIN LetVars /\ Becomes(LetVars[h.name], <<>>)
     \/ h.name \notin DOMAIN LetVars /\ IsValue

\* The structure is reduced with definitions.
ProjStep ==
  /\ At("proj") /\ Machine
  /\ LET S == mk_thunk(Store(heap), h.e, env)
     IN enter(Made(S), <<ProjK(h, env, delta)>> \o st, TRUE, S)
-------------------------------------------------------------------------------
(* Recursors.                                                                *)

\* A forced thunk as a head and arguments; a numeral is opened.
lit_ctor(S, t) ==
  LET u == Cell(S.th, t)
      R == mk_thunk(S, LitNat(u.vterm.n - 1), <<>>)
  IN IF u.vterm.k # "lit" \/ u.args # <<>> THEN [hd |-> u.vterm, args |-> u.args, S |-> S]
     ELSE IF u.vterm = LitNat(0) THEN [hd |-> Const("zero"), args |-> <<>>, S |-> S]
     ELSE [hd |-> Const("succ"), args |-> <<Made(R)>>, S |-> R]

\* The body under n binders, if t has them.
Strip(t, n) == IF n = 0 THEN t ELSE IF t.k = "lam" THEN strip(t.b, n - 1) ELSE Nil

\* A rule  fun before fields => minor fields hypotheses.
RuleShape(d, r) ==
  LET b == strip(r.rhs, d.nbefore + r.nfields)
      hd == get_app_fn(b)
      args == get_app_args(b)
  IN [ok |-> /\ b # Nil /\ hd.k = "bvar" /\ Len(args) >= r.nfields
             /\ hd.i \in r.nfields..(r.nfields + d.nminors - 1)
             /\ \A i \in 1..r.nfields : args[i] = BVar(r.nfields - i),
      minor |-> d.nbefore - (hd.i - r.nfields),
      ihs |-> SubSeq(args, r.nfields + 1, Len(args))]

\* The minor premise as a closure: not forced, or forced to a value without arguments.
MinorClosure(u) ==
  CASE u.state = 0 -> <<u.term, u.env>>
    [] u.state >= 2 /\ u.args = <<>> -> <<u.vterm, u.venv>>
    [] OTHER -> <<Nil, <<>>>>

CanSelect(S, d, r, args) ==
  LET sh == RuleShape(d, r)
      mc == MinorClosure(Cell(S.th, args[sh.minor]))
  IN sh.ok /\ mc[1].k = "lam" /\ strip(mc[1], r.nfields + Len(sh.ihs)) # Nil

\* The first n hypotheses of a body; those it does not mention are not built.
MkHyps(S, body, ihs, n, e) ==
  LET R == mk_hyps(S, body, ihs, n - 1, e)
  IN IF n = 0 THEN [S EXCEPT !.ids = <<>>]
     ELSE IF occurs(body, Len(ihs) - n) THEN mk_thunk(R, ihs[n], e)
     ELSE [R EXCEPT !.ids = Append(@, unused_cell)]

\* The body of the minor premise is entered under its fields and hypotheses.
select_branch(S, d, r, args, fields, rest) ==
  LET sh == RuleShape(d, r)
      mc == MinorClosure(Cell(S.th, args[sh.minor]))
      body == strip(mc[1], r.nfields + Len(sh.ihs))
      renv == Reverse(fields) \o Reverse(SubSeq(args, 1, d.nbefore))
      R == mk_hyps(S, body, sh.ihs, Len(sh.ihs), renv)
  IN /\ Becomes(body, Reverse(R.ids) \o Reverse(fields) \o mc[2])
     /\ st' = rest /\ Keep(R)

ApplyRule(S, d, r, args, fields, rest) ==
  /\ Becomes(r.rhs, <<>>)
  /\ st' = ArgFrames(SubSeq(args, 1, d.nbefore) \o fields) \o rest /\ Keep(S)

\* The major premise of a recursor d, argument i, is a value: one of a structure that is no
\* constructor is expanded into one and reduced, and a constructor selects its rule.
iota(S, d, args, i, rest) ==
  \E c \in {lit_ctor(S, args[i])} :
  \E v \in {readback_value(S.th, Cell(S.th, args[i]))} :
  \E eta \in {IF KindOf(c.hd) = "ctor" THEN v ELSE to_ctor_when_struct(d, v)} :
    LET applies == /\ IsConst(c.hd) /\ c.hd.c \in DOMAIN d.rules
                   /\ d.rules[c.hd.c].nfields <= Len(c.args)
        r == d.rules[c.hd.c]
        fields == SubSeq(c.args, Len(c.args) - r.nfields + 1, Len(c.args))
    IN \/ /\ eta # v
          /\ \E R \in {mk_thunk(S, eta, <<>>)} :
               force_via([args EXCEPT ![i] = Made(R)], i, rest, R)
       \/ /\ applies /\ CanSelect(c.S, d, r, args)
          /\ select_branch(c.S, d, r, args, fields, rest)
       \/ /\ applies /\ ~CanSelect(c.S, d, r, args)
          /\ ApplyRule(c.S, d, r, args, fields, rest)
       \/ ~applies /\ eta = v /\ st' = ArgFrames(args) \o rest /\ IsValue /\ Keep(c.S)

\* The major premise of a K-like recursor that is not a value is first looked at by its type.
KMajor(d, T, i) ==
  LET m == readback(T.th, T.args[i])
  IN IF d.k /\ Cell(T.th, T.args[i]).state # 3 THEN to_ctor_when_K(d, m) ELSE m
WithMajor(T, i, m) ==
  IF m = readback(T.th, T.args[i]) THEN [S |-> Store(T.th), args |-> T.args]
  ELSE LET S == mk_thunk(Store(T.th), m, <<>>)
       IN [S |-> S, args |-> [T.args EXCEPT ![i] = Made(S)]]

RecStep ==
  /\ At("const") /\ KindOf(h) = "rec" /\ Machine
  /\ LET d == Decls[h.c]
         i == rec_major_idx(d) + 1
     IN \/ ~can_take(i, st) /\ IsValue /\ UNCHANGED <<st, store>>
        \/ /\ can_take(i, st)
           /\ \E T \in {Taken(i)} : \E m \in {KMajor(d, T, i)} : \E P \in {WithMajor(T, i, m)} :
                \/ Cell(P.S.th, P.args[i]).state # 3 /\ force_via(P.args, i, T.rest, P.S)
                \/ Cell(P.S.th, P.args[i]).state = 3 /\ iota(P.S, d, P.args, i, T.rest)

\* Quot.lift: the function, fourth argument, on the class representative, in the sixth.
QuotStep ==
  /\ At("const") /\ KindOf(h) = "lift" /\ Machine
  /\ LET T == Taken(6)
         q == Cell(T.th, T.args[6])
         isMk == q.vterm = Const("Quot.mk") /\ Len(q.args) = 3
     IN \/ ~can_take(6, st) /\ IsValue /\ UNCHANGED <<st, store>>
        \/ can_take(6, st) /\ q.state # 3 /\ force_via(T.args, 6, T.rest, Store(T.th))
        \/ /\ can_take(6, st) /\ q.state = 3 /\ isMk
           /\ enter(T.args[4], <<Arg(q.args[3])>> \o T.rest, delta, Store(T.th))
        \/ can_take(6, st) /\ q.state = 3 /\ ~isMk /\ PushBack(T) /\ IsValue
-------------------------------------------------------------------------------
(* Definitions and primitives.                                               *)

\* The value of the definition at the head, fused once.
Unfold ==
  \/ h.c \in DOMAIN unfold_cache /\ Becomes(unfold_cache[h.c], <<>>)
  \/ h.c \notin DOMAIN unfold_cache /\ pc' = "unfold" /\ UNCHANGED <<h, env, delta>>

\* A term is fused: the value of a definition that is unfolded, or what a run is given.
Fuse ==
  /\ pc \in {"fuse", "unfold"}
  /\ \E v \in {fuse_term(limit, fuse_cache, IF pc = "unfold" THEN Decls[h.c].value ELSE h)} :
       /\ h' = v.e /\ fuse_cache' = v.cache
       /\ unfold_cache' = IF pc = "unfold" THEN emplace(unfold_cache, h.c, v.e) ELSE unfold_cache
  /\ env' = <<>> /\ pc' = "step" /\ UNCHANGED <<delta, st, out, limit, store, session>>

\* The numeral a forced operand denotes; "unforced" if an argument of succ is not a value.
LitValue(th, t) ==
  LET u == Cell(th, t)
      v == lit_value(th, u.args[1])
  IN IF u.state # 3 THEN [k |-> "unforced", t |-> t]
     ELSE IF u.args = <<>> /\ u.vterm.k = "lit" THEN [k |-> "lit", n |-> u.vterm.n]
     ELSE IF u.args = <<>> /\ u.vterm = Const("zero") THEN [k |-> "lit", n |-> 0]
     ELSE IF Len(u.args) = 1 /\ u.vterm = Const("succ")
       THEN IF v.k = "lit" THEN [k |-> "lit", n |-> v.n + 1] ELSE v
     ELSE [k |-> "none"]

Op == IF IsConst(h) /\ h.c \in DOMAIN Decls /\ Decls[h.c].kind \in {"def", "ctor"}
        THEN Decls[h.c].op ELSE "none"
Arity == IF Op = "succ" THEN 1 ELSE 2
IsNatOp == delta /\ Op # "none" /\ can_take(Arity, st)
nat_compute(ns) == IF Op = "succ" THEN ns[1] + 1 ELSE ns[1] + ns[2]

\* Operands are reduced from the left, then what they wrap; without literals the primitive
\* unfolds like any definition, and succ is a value.
NatStep ==
  /\ At("const") /\ IsNatOp /\ Machine
  /\ LET T == Taken(Arity)
         lits == [i \in 1..Arity |-> lit_value(T.th, T.args[i])]
         open == {i \in 1..Arity : Cell(T.th, T.args[i]).state # 3}
         first == Min({i \in 1..Arity : lits[i].k # "lit"} \cup {Arity + 1})
         Wait(t) == enter(t, <<Cont(h, env, T.args, delta)>> \o T.rest, TRUE, Store(T.th))
     IN \/ open # {} /\ Wait(T.args[Min(open)])
        \/ open = {} /\ first <= Arity /\ lits[first].k = "unforced" /\ Wait(lits[first].t)
        \/ /\ open = {} /\ first > Arity
           /\ Becomes(LitNat(nat_compute([i \in 1..Arity |-> lits[i].n])), <<>>)
           /\ st' = T.rest /\ heap' = T.th /\ closed' = closed
        \/ /\ open = {} /\ first <= Arity /\ lits[first].k = "none"
           /\ PushBack(T) /\ IF Op = "succ" THEN IsValue ELSE Unfold

IsDef == At("const") /\ KindOf(h) = "def" /\ ~IsNatOp
MayHaveRule == IsDef /\ delta

Derivable == MayHaveRule /\ rule[h.c] = "unknown" /\ Len(susp) < MaxNest
\* A rule not looked for yet: if the value has the shape, this run waits, and the checker is
\* asked.
Suspends(shape) ==
  /\ rule' = [rule EXCEPT ![h.c] = "deriving"]
  /\ susp' = <<[h |-> h, env |-> env, st |-> st, of |-> of, todo |-> todo,
                shape |-> shape, ctors |-> SetToSeq(DOMAIN shape.d.rules), cache |-> <<>>, arms |-> <<>>]>> \o susp
  /\ todo' = IF mode = "decl" /\ h.c \in DOMAIN Queries THEN Queries[h.c] ELSE <<>>
  /\ h' = Nil /\ env' = <<>> /\ st' = <<>> /\ of' = Nil /\ pc' = "idle"
Derive ==
  /\ Derivable /\ UNCHANGED <<mode, limits, rules, delta, out, mctx, store>>
  /\ \E O \in {opened(fuse_term(limit, <<>>, Decls[h.c].value).e)} :
       \/ is_rec_body(O.B) /\ \E s \in {shape_of(O)} : shape_ok(s) /\ Suspends(s)
       \/ /\ ~(is_rec_body(O.B) /\ shape_ok(shape_of(O)))
          /\ rule' = [rule EXCEPT ![h.c] = "none"] /\ UNCHANGED <<susp, todo, h, env, st, of, pc>>

Rule == MayHaveRule /\ rule[h.c] = "some" /\ can_take(rules[h.c].major + 1, st)

\* The recursive argument is reduced, and the arm for its constructor entered under the
\* arguments before it and its fields; on anything else the definition unfolds.
FixStep ==
  /\ Rule /\ Machine
  /\ LET r == rules[h.c]
         T == Taken(r.major + 1)
         m == T.args[r.major + 1]
         c == lit_ctor(Store(T.th), m)
         applies == /\ IsConst(c.hd) /\ c.hd.c \in DOMAIN r.arms
                    /\ Len(c.args) = r.arms[c.hd.c].nfields
         arm == r.arms[c.hd.c]
     IN \/ Cell(T.th, m).state # 3 /\ force_via(T.args, r.major + 1, T.rest, Store(T.th))
        \/ /\ Cell(T.th, m).state = 3 /\ applies
           /\ Becomes(arm.body, Reverse(c.args) \o Reverse(SubSeq(T.args, 1, r.major)))
           /\ st' = T.rest /\ Keep(c.S)
        \/ /\ Cell(T.th, m).state = 3 /\ ~applies
           /\ PushBack(T) /\ Unfold

DefStep ==
  /\ IsDef /\ Machine /\ UNCHANGED <<st, store>>
  /\ \/ ~delta /\ IsValue
     \/ /\ delta /\ ~Rule /\ ~Derivable
        /\ Unfold

\* A constructor, a constant of the quotient, or an axiom.
ConstStep ==
  /\ At("const") /\ KindOf(h) \in {"ctor", "quot", "axiom"} /\ ~IsNatOp /\ Machine
  /\ IsValue /\ UNCHANGED <<st, store>>
-------------------------------------------------------------------------------
(* Unwinding a value.                                                        *)

Unwinding(k) == pc = "unwind" /\ st # <<>> /\ Head(st).k = k /\ UNCHANGED mctx

UnwindArg ==
  /\ Unwinding("arg") /\ UNCHANGED session
  /\ \/ h.k = "lam" /\ Beta /\ UNCHANGED out
     \/ /\ h.k # "lam" /\ out' = Append(out, Head(st).th) /\ st' = Tail(st)
        /\ UNCHANGED <<h, env, delta, pc, store>>

UnwindUpd ==
  /\ Unwinding("upd") /\ st' = Tail(st)
  /\ heap' = [heap EXCEPT ![Head(st).th] = assign(Running, @, out)]
  /\ UNCHANGED <<closed, h, env, delta, out, pc, session>>

\* The waiting head is dispatched again.
UnwindCont ==
  /\ Unwinding("cont") /\ out' = <<>>
  /\ LET f == Head(st)
     IN /\ h' = f.h /\ env' = f.env /\ delta' = f.delta /\ pc' = "step"
        /\ st' = ArgFrames(f.args) \o Tail(st)
  /\ UNCHANGED <<store, session>>

\* The field, or the projection itself as a value.
UnwindProj ==
  /\ Unwinding("proj") /\ out' = <<>> /\ UNCHANGED session
  /\ LET f == Head(st)
         at == Decls[h.c].nparams + f.h.i + 1
         isCtor == KindOf(h) = "ctor" /\ at <= Len(out)
     IN \/ isCtor /\ enter(out[at], Tail(st), f.delta, Store(heap))
        \/ /\ ~isCtor /\ h' = f.h /\ env' = f.env /\ delta' = f.delta /\ st' = Tail(st)
           /\ UNCHANGED <<pc, store>>
-------------------------------------------------------------------------------
(* Runs, one after the other, and the derivations that suspend them.         *)

\* The term a run hands back.
Result == mk_apps(readback_closure(heap, h, env), [i \in DOMAIN out |-> readback(heap, out[i])])

\* The checker fuses what it gives to the machine.
Start ==
  /\ pc = "idle" /\ todo # <<>>
  /\ of' = Head(todo) /\ todo' = Tail(todo)
  /\ h' = Head(todo) /\ env' = <<>> /\ st' = <<>> /\ delta' = (mode = "decl")
  /\ pc' = IF mode = "decl" THEN "fuse" ELSE "step"
  /\ UNCHANGED <<mode, susp, rule, rules, limits, mctx, out, store>>

Returns == pc = "unwind" /\ st = <<>> /\ pc' = "done"
           /\ UNCHANGED <<h, env, delta, st, out, mctx, session, store>>

Finish ==
  /\ pc = "done" /\ pc' = "idle"
  /\ h' = Nil /\ env' = <<>> /\ out' = <<>> /\ of' = Nil
  /\ UNCHANGED <<st, delta, mode, todo, susp, rule, rules, limits, mctx, store>>

\* The suspended run goes on at the definition, which has a rule or not.
Goes ==
  LET s == Head(susp)
  IN /\ h' = s.h /\ env' = s.env /\ st' = s.st /\ delta' = TRUE /\ out' = <<>> /\ pc' = "step"
     /\ of' = s.of /\ todo' = s.todo /\ susp' = Tail(susp)
     /\ UNCHANGED <<mode, limits, mctx, store>>
Asked == Head(susp).h.c
HasNone == rule' = [rule EXCEPT ![Asked] = "none"] /\ UNCHANGED rules
Deriving == pc = "idle" /\ todo = <<>> /\ susp # <<>>

\* Slip: an arm is used although its equation was not seen to hold.
UsesUnverified ==
  /\ Deriving /\ Head(susp).ctors # <<>>
  /\ LET s == Head(susp)
         ctor == Head(s.ctors)
     IN \E R \in {fuse_term(limit, s.cache, unfolded(s.shape, ctor))} :
        \E arm \in {arm_of(Asked, s.shape, ctor, called(Asked, s.shape, ctor, R.e))} :
          /\ susp' = [susp EXCEPT ![1].cache = R.cache, ![1].ctors = Tail(@), ![1].arms = emplace(@, ctor, arm)]
          /\ UNCHANGED <<machine, mctx, mode, of, todo, rule, rules, limits, store>>

\* One arm after the other; the checker may fail to see that an equation holds.
DeriveArm ==
  /\ Deriving /\ Head(susp).ctors # <<>>
  /\ LET s == Head(susp)
         ctor == Head(s.ctors)
     IN \E R \in {fuse_term(limit, s.cache, unfolded(s.shape, ctor))} :
        \E arm \in {arm_of(Asked, s.shape, ctor, called(Asked, s.shape, ctor, R.e))} :
          \/ /\ arm.ok
             /\ susp' = [susp EXCEPT ![1].cache = R.cache, ![1].ctors = Tail(@), ![1].arms = emplace(@, ctor, arm)]
             /\ UNCHANGED <<machine, mctx, mode, of, todo, rule, rules, limits, store>>
          \/ Goes /\ HasNone
Derived ==
  /\ Deriving /\ Head(susp).ctors = <<>> /\ Goes
  /\ rule' = [rule EXCEPT ![Asked] = "some"]
  /\ rules' = emplace(rules, Asked, [major |-> Head(susp).shape.k - 1, arms |-> Head(susp).arms])

\* A limit of memory or depth, at any point of a run.
Limit ==
  /\ pc = "step" /\ limits < MaxLimits
  /\ limits' = limits + 1 /\ pc' = "error"
  /\ UNCHANGED <<mode, of, todo, susp, rule, rules, h, env, delta, st, out, mctx, store>>

\* A failure ends the derivation it happens in, and leaves the thunks as they are.
Caught == pc = "error" /\ susp # <<>> /\ Goes /\ HasNone

\* A failure outside ends the check, as does the last result.
Over ==
  /\ susp = <<>> /\ (pc = "error" \/ (pc = "idle" /\ todo = <<>>))
  /\ pc' = "over" /\ UNCHANGED <<h, env, delta, st, out, mctx, session, store>>
Done == pc = "over" /\ UNCHANGED vars

Next ==
  \/ BVarStep \/ AppStep \/ LamStep \/ LetStep \/ LitStep \/ FVarStep \/ ProjStep
  \/ RecStep \/ QuotStep \/ NatStep \/ FixStep \/ DefStep \/ ConstStep
  \/ UnwindArg \/ UnwindUpd \/ UnwindCont \/ UnwindProj
  \/ Start \/ Fuse \/ Returns \/ Finish \/ Derive \/ DeriveArm \/ Derived \/ Limit \/ Caught \/ Over \/ Done

\* A run goes on until the check is over.  This is WF_vars(Next), Next being enabled until
\* then (TLC checks deadlock).
Fairness == []<>(pc = "over") \/ []<><<TRUE>>_vars
Spec == Init /\ [][Next]_vars /\ Fairness
-------------------------------------------------------------------------------
\* The thunks with a value when a run ends, or fails.
Forced == IF pc \in {"done", "error"} THEN {t \in DOMAIN heap : heap[t].state >= 2} ELSE {}

\* The value a run leaves in a thunk means what its closure means, whatever shared it,
\* evaluated it twice, passed its mark or failed in between (kam.cpp:233, 266, 280): sharing
\* never replaces a term by another.
ValueMeaning ==
  \A t \in Forced : normal(readback_value(heap, heap[t])) = normal(readback(heap, t))

\* A value is reduced as far as its state says (kam.h:46): state 2 as far as it goes without
\* definitions, state 3 altogether.  Exempt is a definition short of arguments, recorded when
\* take_args passes the mark of a partial application (kam.cpp:277).  What a run hands back
\* is reduced too; without definitions no further than head reduction goes, although the
\* thunks it shares are (kam.cpp:235): the head and the number of arguments are those of
\* head reduction.
Takes(c) == IF Decls[c].op # "none" THEN 2 ELSE IF rule[c] = "some" THEN rules[c].major + 1 ELSE 0
Partial(u) == KindOf(u.vterm) = "def" /\ Len(u.args) < Takes(u.vterm.c)
ValueWhnf ==
  /\ \A t \in Forced :
       LET v == readback_value(heap, heap[t])
           full == heap[t].state = 3
       IN (full /\ Partial(heap[t])) \/ whnf(v, full) = v
  /\ pc = "done" =>
       /\ whnf(Result, mode = "decl") = Result
       /\ mode = "core" => LET w == whnf(of, FALSE)
                           IN /\ get_app_fn(Result) = get_app_fn(w)
                              /\ Len(get_app_args(Result)) = Len(get_app_args(w))

\* What a run hands back (kam.cpp:725) means what it was given.
ResultMeaning == pc = "done" => normal(Result) = normal(of)

\* The machine itself never fails: no thunk is entered while it is being forced, and the
\* placeholder of a hypothesis is never reached (kam.cpp:241, 450), however derivations run
\* inside runs on the same thunks, unless a limit was hit before.
NoInternalError == pc = "error" => limits > 0

\* Thunks refer to one another without a cycle, which reference counts need (kam.h:5),
\* though values and shared thunks refer forward in the heap.
Refers(t) == (Range(heap[t].env) \cup Range(heap[t].venv) \cup Range(heap[t].args)) \ {unused_cell}
Edges == [t \in DOMAIN heap |-> Refers(t)]
Roots(E, S) == LET R == {t \in S : E[t] \cap S # {}} IN IF R = S THEN S ELSE roots(E, R)
Acyclic == roots(Edges, DOMAIN heap) = {}

\* A value found with definitions stays for good: later runs read it (kam.cpp:238, 240).
ValuesFinal ==
  [][\A t \in DOMAIN heap : heap[t].state = 3 => heap'[t] = heap[t]]_vars

\* Fused terms, the values definitions are unfolded to and the arms of rules mean what the
\* terms and the definitions mean (fuse.h:19, fix.h:21), whatever limit was hit; the equation
\* of a rule is verified before its variables are abstracted (fix.cpp:252).
SameOn(f, g, n) == LET ys == AsTerms(Locals("y", n)) IN normal(mk_apps(f, ys)) = normal(mk_apps(g, ys))
ArmHolds(c, major, ctor, arm) ==
  LET fs == AsTerms(Locals("f", arm.nfields))
      before == AsTerms(Locals("x", major))
  IN SameOn(mk_apps(Const(c), before \o <<mk_apps(Const(ctor), fs)>>),
            instantiate(arm.body, Reverse(before \o fs)), num_lams(arm.body))
UnfoldingsMeaning ==
  [][/\ \A t \in DOMAIN fuse_cache' \ DOMAIN fuse_cache : normal(fuse_cache'[t]) = normal(t)
     /\ \A c \in DOMAIN unfold_cache' \ DOMAIN unfold_cache : normal(unfold_cache'[c]) = normal(Decls[c].value)
     /\ \A c \in DOMAIN rules' \ DOMAIN rules : \A ctor \in DOMAIN rules'[c].arms :
          ArmHolds(c, rules'[c].major, ctor, rules'[c].arms[ctor])]_<<fuse_cache, unfold_cache, rules>>

\* Every check ends: no term is evaluated for ever, no derivation waits for itself
\* (fix.cpp:288).
Termination == <>(pc = "over")
===============================================================================
