--------------------------------- MODULE Fusion ---------------------------------
(***************************************************************************)
(* Fusion of a term before the machine runs it (src/src/fuse.cpp), and the  *)
(* derivation of the rule of a definition by structural recursion           *)
(* (src/src/fix.cpp, derive).                                               *)
(*                                                                         *)
(* Fusing goes through a term once and takes the steps its shape allows:   *)
(* beta that duplicates no work, unfolding of wrappers, recursors and       *)
(* projections applied to constructors, under binders as well.  It has     *)
(* limits, and what a limit cuts short should not be kept.                  *)
(*                                                                         *)
(* Left out: the size and the names that make a definition a wrapper        *)
(* (its declaration says `inline`), universe levels, types, and inductive   *)
(* types with parameters in rules (arguments of the major premise's type).  *)
(***************************************************************************)
EXTENDS Terms

\* What a call of fuse_term has: the results that are kept, those of this call, how many
\* terms it may still visit, steps nest and nodes be copied, whether it gave up, and how
\* often a limit cut something short.
Fuser(L, cache) ==
  [cache |-> cache, memo |-> <<>>, budget |-> L.budget, room |-> L.depth, dup |-> L.dup,
   overflow |-> FALSE, dirty |-> 0]
FullCtor(t) == LET hd == GetAppFn(t)
               IN KindOf(hd) = "ctor" /\ Len(GetAppArgs(t)) = Decls[hd.c].nparams + Decls[hd.c].nfields
unfoldable(c) == Decls[c].kind = "def" /\ Decls[c].inline /\ Decls[c].op = "none"

\* An argument that may be copied: an atom, a function, constructors of such.
RECURSIVE is_cheap_arg(_, _)
is_cheap_arg(a, depth) ==
  CASE a.k = "app" -> depth <= 3 /\ FullCtor(a) /\ \A x \in Range(GetAppArgs(a)) : is_cheap_arg(x, depth + 1)
    [] OTHER -> a.k \in {"bvar", "fvar", "const", "lit", "lam"}
RECURSIVE tree_size(_)
tree_size(t) ==
  CASE t.k = "app" -> 1 + tree_size(t.f) + tree_size(t.x)
    [] t.k = "lam" -> 1 + tree_size(t.b)
    [] t.k = "let" -> 1 + tree_size(t.v) + tree_size(t.b)
    [] t.k = "proj" -> 1 + tree_size(t.e)
    [] OTHER -> 1
RECURSIVE count_bvars(_, _)
count_bvars(t, i) ==
  CASE t.k = "bvar" -> IF t.i = i THEN 1 ELSE 0
    [] t.k = "app" -> count_bvars(t.f, i) + count_bvars(t.x, i)
    [] t.k = "lam" -> count_bvars(t.b, i + 1)
    [] t.k = "let" -> count_bvars(t.v, i) + count_bvars(t.b, i + 1)
    [] t.k = "proj" -> count_bvars(t.e, i)
    [] OTHER -> 0

\* May the arguments replace the variables of b?  Copies are paid for.
share_ok(b, args, F) ==
  LET n == Len(args)
      copied == {j \in 1..n : count_bvars(b, n - j) >= 2}
      trees == {j \in copied : args[j].k \in {"lam", "app"}}
      cost == FoldSet(LAMBDA j, c : c + tree_size(args[j]), 0, trees)
  IN IF \E j \in copied : ~is_cheap_arg(args[j], 0) THEN [ok |-> FALSE, F |-> F]
     ELSE IF cost > F.dup THEN [ok |-> FALSE, F |-> [F EXCEPT !.dirty = @ + 1]]
     ELSE [ok |-> TRUE, F |-> [F EXCEPT !.dup = @ - cost]]

RECURSIVE Prefix(_, _)
Prefix(f, n) == IF n > 0 /\ f.k = "lam" THEN 1 + Prefix(f.b, n - 1) ELSE 0
RECURSIVE Body(_, _)
Body(f, n) == IF n = 0 THEN f ELSE Body(f.b, n - 1)

\* A recursor on a constructor with all its arguments.
CanIota(d, args) ==
  /\ Len(args) > rec_major_idx(d)
  /\ LET m == args[rec_major_idx(d) + 1]
     IN FullCtor(m) /\ HasRule(d, m) /\ d.rules[GetAppFn(m).c].nfields = Decls[GetAppFn(m).c].nfields
try_iota(d, args) == ByRule(d, args, args[rec_major_idx(d) + 1])

Cut(F) == [F EXCEPT !.dirty = @ + 1]
Deeper(F) == [F EXCEPT !.room = @ - 1]
Back(R) == [R EXCEPT !.F.room = @ + 1]
Stop(f, args, F) == [e |-> MkApps(f, args), F |-> F]

RECURSIVE fuse(_, _, _), FuseArgs(_, _, _, _), Loop(_, _, _, _, _)

\* On the spine f args, after `unfolds` unfoldings.
Contract(L, f, args, unfolds, F) ==
  LET n == Prefix(f, Len(args))
      S == share_ok(Body(f, n), SubSeq(args, 1, n), F)
      inPlace == fuse(L, f, S.F)
      t == Instantiate(Body(f, n), Reverse(SubSeq(args, 1, n)))
      rest == SubSeq(args, n + 1, Len(args))
      R == Back(fuse(L, t, Deeper(S.F)))
  IN CASE ~S.ok -> IF inPlace.e = f THEN Stop(f, args, inPlace.F)
                   ELSE Loop(L, inPlace.e, args, unfolds, inPlace.F)
       [] S.ok /\ F.room = 0 -> Stop(t, rest, Cut(S.F))
       [] S.ok /\ F.room > 0 -> IF rest = <<>> THEN R
                   ELSE Loop(L, GetAppFn(R.e), GetAppArgs(R.e) \o rest, unfolds, R.F)
OnRec(L, f, args, F) ==
  IF ~CanIota(Decls[f.c], args) THEN Stop(f, args, F)
  ELSE IF F.room = 0 THEN Stop(f, args, Cut(F))
  ELSE Back(fuse(L, try_iota(Decls[f.c], args), Deeper(F)))
OnOther(L, f, args, unfolds, F) ==
  LET R == fuse(L, f, F)
  IN IF R.e # f /\ R.e.k \in {"app", "lam"}
       THEN Loop(L, GetAppFn(R.e), GetAppArgs(R.e) \o args, unfolds, R.F)
       ELSE Stop(R.e, args, R.F)
Loop(L, f, args, unfolds, F) ==
  IF F.overflow THEN Stop(f, args, F)
  ELSE IF f.k = "lam" /\ args # <<>> THEN Contract(L, f, args, unfolds, F)
  ELSE IF KindOf(f) = "rec" THEN OnRec(L, f, args, F)
  ELSE IF KindOf(f) = "def" /\ unfoldable(f.c) /\ unfolds < L.unfolds
    THEN IF args = <<>> THEN fuse(L, Decls[f.c].value, F)
                        ELSE Loop(L, Decls[f.c].value, args, unfolds + 1, F)
  ELSE IF IsConst(f) THEN Stop(f, args, F)
  ELSE OnOther(L, f, args, unfolds, F)

FuseArgs(L, args, done, F) ==
  IF args = <<>> THEN [args |-> done, F |-> F]
  ELSE LET R == fuse(L, Head(args), F) IN FuseArgs(L, Tail(args), Append(done, R.e), R.F)
fuse_app(L, e, F) ==
  LET A == FuseArgs(L, GetAppArgs(e), <<>>, F) IN Loop(L, GetAppFn(e), A.args, 0, A.F)

FuseLet(L, e, F) ==
  LET V == fuse(L, e.v, F)
      B == fuse(L, e.b, V.F)
  IN [e |-> Let(V.e, B.e), F |-> B.F]
FuseProj(L, e, F) ==
  LET R == fuse(L, e.e, F)
      at == Decls[GetAppFn(R.e).c].nparams + e.i + 1
  IN [R EXCEPT !.e = IF FullCtor(@) /\ at <= Len(GetAppArgs(@)) THEN GetAppArgs(@)[at] ELSE Proj(e.i, @)]
FuseNode(L, e, F) ==
  CASE e.k = "lam" -> LET B == fuse(L, e.b, F) IN [B EXCEPT !.e = Lam(@)]
    [] e.k = "let" -> FuseLet(L, e, F)
    [] e.k = "proj" -> FuseProj(L, e, F)
    [] OTHER -> fuse_app(L, e, F)

\* A result is kept for the call, and for good if no limit was met while it was computed.
Record(e, R, dirty) ==
  [R EXCEPT !.F.memo = @ @@ (e :> R.e),
            !.F.cache = IF R.F.dirty = dirty THEN @ @@ (e :> R.e) ELSE @]
fuse(L, e, F) ==
  IF F.overflow \/ e.k \in {"bvar", "fvar", "lit"} THEN [e |-> e, F |-> F]
  ELSE IF e \in DOMAIN F.memo THEN [e |-> F.memo[e], F |-> F]
  ELSE IF e \in DOMAIN F.cache THEN [e |-> F.cache[e], F |-> F]
  ELSE IF F.budget = 0 THEN [e |-> e, F |-> [Cut(F) EXCEPT !.overflow = TRUE]]
  ELSE Record(e, FuseNode(L, e, [F EXCEPT !.budget = @ - 1]), F.dirty)

\* The fused term and the results to keep.
Kept(R) == [e |-> R.e, cache |-> R.F.cache]
FuseTerm(L, cache, e) ==
  IF e \in DOMAIN cache THEN [e |-> cache[e], cache |-> cache] ELSE Kept(fuse(L, e, Fuser(L, cache)))
-------------------------------------------------------------------------------
(* The rule of a definition.                                                 *)

RECURSIVE Lams(_, _)
Lams(n, b) == IF n = 0 THEN b ELSE Lam(Lams(n - 1, b))
mk_lambda(xs, b) == Lams(Len(xs), abstract_fvars(b, xs))
RECURSIVE NumLams(_)
NumLams(t) == IF t.k = "lam" THEN 1 + NumLams(t.b) ELSE 0

\* A fused value as n parameters and a body; a recursor that lacks its last argument gets it.
LacksMajor(B) == LET hd == GetAppFn(B)
                 IN KindOf(hd) = "rec" /\ Len(GetAppArgs(B)) = rec_major_idx(Decls[hd.c])
OpenedAt(n, B) == IF LacksMajor(B) THEN [n |-> n + 1, B |-> App(lift_loose_bvars(B, 0, 1), BVar(0))]
                  ELSE [n |-> n, B |-> B]
Opened(v) == OpenedAt(NumLams(v), Body(v, NumLams(v)))

\* The recursor of a body, alone or projected from.
RecPart(B) == LET hd == GetAppFn(B) IN IF hd.k = "proj" THEN hd.e ELSE B
IsRecBody(B) ==
  LET hd == GetAppFn(RecPart(B))
      n == Len(GetAppArgs(RecPart(B)))
      mi == rec_major_idx(Decls[hd.c])
  IN /\ KindOf(hd) = "rec" /\ n > mi
     /\ GetAppFn(B).k = "proj" => n = mi + 1
     /\ Decls[hd.c].nindices = 0

\* The recursor, the head that stands for the definition up to its recursive argument, where
\* that argument is among the parameters, and those applied after it (0: another term).
Shape(O) ==
  LET hd == GetAppFn(O.B)
      all == GetAppArgs(RecPart(O.B))
      d == Decls[GetAppFn(RecPart(O.B)).c]
      mi == rec_major_idx(d) + 1
      trailing == IF hd.k = "proj" THEN GetAppArgs(O.B) ELSE SubSeq(all, mi + 1, Len(all))
      Pos(t) == IF t.k = "bvar" THEN O.n - t.i ELSE 0
  IN [n |-> O.n, B |-> O.B, d |-> d, k |-> Pos(all[mi]),
      head |-> IF hd.k = "proj" THEN hd ELSE MkApps(hd, SubSeq(all, 1, mi)),
      tpos |-> [j \in DOMAIN trailing |-> Pos(trailing[j])]]
ShapeOk(s) ==
  LET vary == {j \in DOMAIN s.tpos : s.tpos[j] # 0}
  IN /\ s.k # 0
     /\ \A j \in vary : s.tpos[j] # s.k /\ ~Occurs(s.head, s.n - s.tpos[j])
     /\ \A i, j \in vary : s.tpos[i] = s.tpos[j] => i = j

xs(s) == Locals("x", s.n)
ctor_fields(s, ctor) == Locals("f", s.d.rules[ctor].nfields)
ctor_app(s, ctor) == MkApps(Const(ctor), AsTerms(ctor_fields(s, ctor)))
subst_all(s, e, major) == Instantiate(e, Reverse([AsTerms(xs(s)) EXCEPT ![s.k] = major]))

\* A recursive call on field l: the varying arguments are abstracted.
RecCall(c, s, l) ==
  LET ys == Locals("y", Len(s.tpos))
      Arg(i) == IF i = s.k THEN l
                ELSE IF \E j \in DOMAIN s.tpos : s.tpos[j] = i
                  THEN FVar(ys[CHOOSE j \in DOMAIN s.tpos : s.tpos[j] = i])
                ELSE FVar(xs(s)[i])
  IN mk_lambda(ys, MkApps(Const(c), [i \in 1..s.n |-> Arg(i)]))

\* R with the results of recursive calls, named where they occur.
Called(c, s, ctor, R) ==
  LET At(i) == FVar(ctor_fields(s, ctor)[i])
      Pattern(i) == subst_all(s, s.head, At(i))
      Result(i) == "r" \o ToString(i)
      Replaced == FoldLeft(LAMBDA t, i : ReplaceIn(t, Pattern(i), FVar(Result(i))), R, s.d.rules[ctor].rec)
      Bind(i, t) == LET b == abstract_fvars(t, <<Result(i)>>)
                    IN IF Occurs(b, 0) THEN Let(RecCall(c, s, At(i)), b) ELSE t
  IN FoldRight(Bind, s.d.rules[ctor].rec, Replaced)

\* The equation of a rule has to hold.
Before(s) == SubSeq(xs(s), 1, s.k - 1)
After(s) == SubSeq(xs(s), s.k + 1, s.n)
Verified(c, s, ctor, Rp) ==
  Normal(MkApps(Const(c), AsTerms(Before(s)) \o <<ctor_app(s, ctor)>> \o AsTerms(After(s)))) = Normal(Rp)

\* Over the parameters before the recursive argument and the fields; those after it stay
\* arguments.
ArmBody(s, ctor, Rp) == abstract_fvars(mk_lambda(After(s), Rp), Before(s) \o ctor_fields(s, ctor))
Arm(c, s, ctor, Rp) ==
  [ok |-> Verified(c, s, ctor, Rp), nfields |-> s.d.rules[ctor].nfields, body |-> ArmBody(s, ctor, Rp)]

\* The definition unfolded on a constructor and reduced at the head.
Unfolded(s, ctor) == Whnf(subst_all(s, s.B, ctor_app(s, ctor)), FALSE)
=================================================================================
