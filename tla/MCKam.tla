---------------------------------- MODULE MCKam ----------------------------------
(* An environment of naturals, a structure, a K-like family and a quotient, and the  *)
(* programs in which sharing, suspended runs and the rules meet.                     *)
EXTENDS KamLaws

CONSTANTS
  Refls,    \* free variables whose type makes a K-like recursor reduce
  Structs   \* free variables of a structure type

F == INSTANCE Fusion

C(c) == Const(c)
b(i) == BVar(i)
A1(f, x) == App(f, x)
Apps(f, args) == FoldLeft(App, f, args)
A2(f, x, y) == Apps(f, <<x, y>>)
A3(f, x, y, z) == Apps(f, <<x, y, z>>)
M == C("M")
Ctor(n, op) == [kind |-> "ctor", nparams |-> 0, nfields |-> n, op |-> op]
Def(v, op) == [kind |-> "def", value |-> v, op |-> op, inline |-> FALSE]
Wrapper(v) == [kind |-> "def", value |-> v, op |-> "none", inline |-> TRUE]
ByCases(zero, succ, n) == Apps(C("natrec"), <<M, zero, Lam(Lam(succ)), n>>)
S(x) == A1(C("succ"), x)

\* The wrappers cases and twice; definitions whose rules have a projection (fib), a varying
\* argument (rev) or a recursor without its argument (pm), and one that has none (off);
\* copies that share work (use) or not (know); a type with two recursive fields (size).
MCDecls ==
  [zero |-> Ctor(0, "none"), succ |-> Ctor(1, "succ"), mkP |-> Ctor(2, "none"), refl |-> Ctor(0, "none"),
   leaf |-> Ctor(0, "none"), node |-> Ctor(2, "none"), M |-> [kind |-> "axiom"],
   natrec |-> [kind |-> "rec", nbefore |-> 3, nindices |-> 0, nminors |-> 2, k |-> FALSE, struct |-> FALSE,
     rules |-> [zero |-> [nfields |-> 0, rec |-> <<>>, rhs |-> Lam(Lam(Lam(b(1))))],
                succ |-> [nfields |-> 1, rec |-> <<1>>, rhs |-> Lam(Lam(Lam(Lam(
                  A2(b(1), b(0), Apps(C("natrec"), <<b(3), b(2), b(1), b(0)>>))))))]]],
   treerec |-> [kind |-> "rec", nbefore |-> 3, nindices |-> 0, nminors |-> 2, k |-> FALSE, struct |-> FALSE,
     rules |-> [leaf |-> [nfields |-> 0, rec |-> <<>>, rhs |-> Lam(Lam(Lam(b(1))))],
                node |-> [nfields |-> 2, rec |-> <<1, 2>>, rhs |-> Lam(Lam(Lam(Lam(Lam(
                  Apps(b(2), <<b(1), b(0), Apps(C("treerec"), <<b(4), b(3), b(2), b(1)>>),
                                  Apps(C("treerec"), <<b(4), b(3), b(2), b(0)>>)>>))))))]]],
   prodrec |-> [kind |-> "rec", nbefore |-> 2, nindices |-> 0, nminors |-> 1, k |-> FALSE, struct |-> TRUE,
     rules |-> [mkP |-> [nfields |-> 2, rec |-> <<>>, rhs |-> Lam(Lam(Lam(Lam(A2(b(2), b(1), b(0))))))]]],
   eqrec |-> [kind |-> "rec", nbefore |-> 2, nindices |-> 1, nminors |-> 1, k |-> TRUE, struct |-> FALSE,
     rules |-> [refl |-> [nfields |-> 0, rec |-> <<>>, rhs |-> Lam(Lam(b(0)))]]],
   lift |-> [kind |-> "lift"], mk |-> [kind |-> "quot"],
   add |-> Def(Lam(Lam(ByCases(b(1), S(b(0)), b(0)))), "add"),
   pred |-> Def(Lam(ByCases(C("zero"), b(1), b(0))), "none"),
   dbl |-> Def(Lam(ByCases(C("zero"), S(S(b(0))), b(0))), "none"),
   quad |-> Def(Lam(Lam(Apps(C("natrec"), <<M, b(1), Lam(Lam(A1(C("dbl"), b(0)))), b(0)>>))), "none"),
   six |-> Def(Lam(ByCases(C("zero"), A2(C("quad"), LitNat(1), C("zero")), b(0))), "none"),
   two |-> Def(A2(C("add"), LitNat(1), LitNat(1)), "none"),
   cases |-> Wrapper(Lam(Lam(Lam(ByCases(b(2), A1(b(3), b(1)), b(0)))))),
   twice |-> Wrapper(Lam(A2(C("add"), b(0), b(0)))),
   fib |-> Def(Lam(Proj(0, ByCases(A2(C("mkP"), LitNat(1), LitNat(0)),
                 A2(C("mkP"), A2(C("add"), Proj(0, b(0)), Proj(1, b(0))), Proj(0, b(0))), b(0)))), "none"),
   rev |-> Def(Lam(Lam(A1(ByCases(Lam(b(0)), Lam(A1(b(1), S(b(0)))), b(1)), b(0)))), "none"),
   off |-> Def(Lam(Lam(A1(ByCases(Lam(b(0)), Lam(A1(b(1), S(b(0)))), b(1)), S(b(0))))), "none"),
   pm |-> Def(Apps(C("natrec"), <<M, C("zero"), Lam(Lam(S(S(b(0)))))>>), "none"),
   size |-> Def(Lam(Apps(C("treerec"), <<M, LitNat(1), Lam(Lam(Lam(Lam(A2(C("add"), b(1), b(0)))))), b(0)>>)), "none"),
   use |-> Def(Lam(A1(C("twice"), A1(C("pred"), b(0)))), "none"),
   know |-> Def(Lam(Lam(A3(C("cases"), b(1), Lam(A2(C("add"), b(0), b(1))), S(A1(C("twice"), b(0)))))), "none")] @@
  ("Quot.mk" :> [kind |-> "quot"])

n0 == FVar("n")
MCQueries ==
  [dbl |-> <<A1(C("dbl"), C("two"))>>,
   quad |-> <<A2(C("quad"), FVar("a"), S(n0))>>,
   six |-> <<A1(C("six"), S(n0))>>]

Shared(t) == App(Lam(A2(C("add"), b(0), b(0))), t)
DeclPrograms == {
  <<Shared(C("two")), A1(C("pred"), C("two"))>>,
  <<ByCases(LitNat(0), A2(C("add"), b(1), b(0)), LitNat(2))>>,
  <<A1(C("dbl"), A1(C("pred"), C("two"))), A1(C("dbl"), n0)>>,
  <<A1(C("six"), C("two")), A2(C("add"), C("two"), n0)>>,
  <<App(C("prodrec"), M), Apps(C("prodrec"), <<M, Lam(Lam(A2(C("add"), b(1), b(1)))), FVar("p")>>),
    Proj(1, A2(C("mkP"), LitNat(0), C("two"))), Proj(0, FVar("p"))>>,
  <<Apps(C("eqrec"), <<M, C("two"), LitNat(0), FVar("h")>>), Apps(C("eqrec"), <<M, C("two"), LitNat(0), FVar("g")>>)>>,
  <<Apps(C("lift"), <<M, M, M, Lam(A2(C("add"), b(0), b(0))), M, A3(C("Quot.mk"), M, M, C("two"))>>),
    Apps(C("lift"), <<M, M, M, C("succ"), M, FVar("q")>>)>>,
  <<App(Lam(A2(C("add"), A1(b(0), LitNat(1)), A1(b(0), C("two")))), A1(C("add"), C("two")))>>,
  <<App(Lam(A2(C("add"), A1(C("pred"), b(0)), App(Lam(S(A1(C("pred"), b(0)))), b(0)))), C("two"))>>,
  <<Let(C("two"), A1(C("succ"), FVar("l"))), App(FVar("l"), M)>> }
\* Those fusion makes a difference to are run with small limits as well.
FusedPrograms == {
  <<A1(C("fib"), S(LitNat(1)))>>,
  <<A2(C("rev"), C("two"), A1(C("pm"), LitNat(1)))>>,
  <<A2(C("off"), A1(C("use"), C("two")), n0)>>,
  <<App(Lam(A2(C("add"), A1(b(0), LitNat(1)), A1(b(0), C("two")))), C("pm"))>>,
  <<A1(C("size"), A2(C("node"), C("leaf"), A2(C("node"), C("leaf"), FVar("t"))))>>,
  <<A2(C("know"), C("two"), LitNat(1)), Lam(A2(C("know"), b(0), b(0)))>> }
CorePrograms == {
  <<App(Lam(ByCases(LitNat(0), b(2), b(0))), A2(C("add"), C("two"), LitNat(1)))>>,
  <<App(Lam(A1(b(0), A1(b(0), LitNat(2)))), App(Lam(Lam(ByCases(LitNat(0), b(1), b(0)))), M))>>,
  <<Let(A2(C("add"), C("two"), LitNat(1)), Proj(0, A2(C("mkP"), b(0), M)))>>,
  <<App(Lam(ByCases(LitNat(0), A2(C("add"), b(2), b(0)), b(0))), A1(C("dbl"), LitNat(1)))>> }
Wide == [budget |-> 200, depth |-> 20, unfolds |-> 8, dup |-> 100]
Tight == {[budget |-> 12, depth |-> 20, unfolds |-> 8, dup |-> 100],
          [budget |-> 200, depth |-> 1, unfolds |-> 1, dup |-> 3]}
MCPrograms == [decl |-> (DeclPrograms \cup FusedPrograms) \X {Wide} \cup FusedPrograms \X Tight,
               core |-> CorePrograms \X {Wide}]
MCLetVars == [l |-> A2(C("add"), LitNat(1), LitNat(0))]
-------------------------------------------------------------------------------
(* The functions of terms, and those of Kam that call themselves, each what its *)
(* definition computes.                                                         *)

TheGetAppFn(t) == LET v == F!GetAppFn(t) IN v
TheGetAppArgs(t) == LET v == F!GetAppArgs(t) IN v
TheMkApps(f, args) == LET v == F!MkApps(f, args) IN v
TheLooseBVarRange(t) == LET v == F!LooseBVarRange(t) IN v
TheInstantiate(t, s) == LET v == F!Instantiate(t, s) IN v
TheOccurs(t, i) == LET v == F!Occurs(t, i) IN v
TheNumLams(t) == LET v == F!NumLams(t) IN v
TheToCtorWhenK(d, m) == LET v == F!ToCtorWhenK(d, m) IN v
TheToCtorWhenStruct(d, m) == LET v == F!ToCtorWhenStruct(d, m) IN v
TheWhnf(t, unfold) == LET v == F!Whnf(t, unfold) IN v
TheNormal(t) == LET v == F!Normal(t) IN v
TheFuseTerm(L, cache, e) == LET v == F!FuseTerm(L, cache, e) IN v
TheOpened(e) == LET v == F!Opened(e) IN v
TheIsRecBody(t) == LET v == F!IsRecBody(t) IN v
TheShape(O) == LET v == F!Shape(O) IN v
TheShapeOk(s) == LET v == F!ShapeOk(s) IN v
TheUnfolded(s, ctor) == LET v == F!Unfolded(s, ctor) IN v
TheCalled(c, s, ctor, e) == LET v == F!Called(c, s, ctor, e) IN v
TheArm(c, s, ctor, e) == LET v == F!Arm(c, s, ctor, e) IN v
TheReadback(th, t) == LET v == Readback(th, t) IN v
TheMkThunks(s, ts, n, e) == LET v == MkThunks(s, ts, n, e) IN v
TheCanTake(n, s) == LET v == CanTake(n, s) IN v = TRUE
TheTakeArgs(m, n, r) == LET v == TakeArgs(m, n, r) IN v
TheStrip(t, n) == LET v == Strip(t, n) IN v
TheMkHyps(s, body, ihs, n, e) == LET v == MkHyps(s, body, ihs, n, e) IN v
TheLitValue(th, t) == LET v == LitValue(th, t) IN v
TheRoots(e, s) == LET v == Roots(e, s) IN v
-------------------------------------------------------------------------------
(* The laws of KamLaws, on the terms of the instance and environments of up to  *)
(* three terms.                                                                 *)

RECURSIVE Parts(_)
Parts(t) ==
  {t} \cup CASE t.k = "app" -> Parts(t.f) \cup Parts(t.x)
            [] t.k = "lam" -> Parts(t.b)
            [] t.k = "let" -> Parts(t.v) \cup Parts(t.b)
            [] t.k = "proj" -> Parts(t.e)
            [] OTHER -> {}
Given ==
  {d.value : d \in {Decls[c] : c \in Defs}}
  \cup UNION {{d.rules[k].rhs : k \in DOMAIN d.rules} : d \in {Decls[c] : c \in {c \in DOMAIN Decls : Decls[c].kind = "rec"}}}
  \cup UNION {Range(p[1]) : p \in Programs.decl \cup Programs.core}
  \cup {LetVars[x] : x \in DOMAIN LetVars} \cup UNION {Range(Queries[c]) : c \in DOMAIN Queries}
SampleTerms == UNION {Parts(t) : t \in Given}
SampleClosed == {t \in SampleTerms : ~F!HasLooseBVars(t)}
Few == {C("two"), Lam(S(b(0))), FVar("h")}
Heads == Few \cup {FVar("p"), C("zero"), C("succ"), C("pred"), C("pm"), LitNat(0), LitNat(1), LitNat(2), S(C("zero")),
                  A1(C("pred"), C("two")), Proj(0, FVar("p")), A2(C("mkP"), C("two"), LitNat(2))}
Environments(n, Ts) == UNION {[1..k -> Ts] : k \in 0..n}
Envs == Environments(2, Few)
TwoEnvs == Environments(2, {C("two"), FVar("p")}) \cup {<<C("two"), FVar("p"), C("zero")>>}
Classes == {<<C("M"), C("M"), C("M"), f, C("M")>> : f \in Heads} \cup {<<C("M"), C("M"), x>> : x \in Heads}

ASSUME TermLaws ==
  /\ Grammar(SampleTerms) /\ Spines(SampleTerms) /\ Applications(Heads, Envs)
  /\ Binders(SampleTerms, 0..3) /\ Substitution(SampleTerms, TwoEnvs)
ASSUME ReductionLaws ==
  /\ Congruence(Heads, Envs, 0..1) /\ BetaLaw(SampleTerms, TwoEnvs) /\ ZetaLaw(SampleTerms, TwoEnvs)
  /\ DeltaLaw /\ NumeralLaws(0..2) /\ RecursorLaws(Heads, Environments(3, {C("two"), FVar("h")}))
  /\ FieldLaw(Envs, 0..1) /\ LiftLaw(Classes)

\* The terms a fusion makes.
Fused(R) == SampleTerms \cup DOMAIN R.cache \cup Range(R.cache) \cup {R.e}
ArmTerms(c, L) ==
  LET s == shape_of(Candidate(c, L))
      e(ctor) == unfolded(s, ctor)
  IN IF ~(is_rec_body(Candidate(c, L).B) /\ shape_ok(s)) THEN {}
     ELSE {e(ctor) : ctor \in DOMAIN s.d.rules}
          \cup {arm_of(c, s, ctor, called(c, s, ctor, fuse_term(L, <<>>, e(ctor)).e)).body : ctor \in DOMAIN s.d.rules}
ASSUME FusionLaws ==
  \A L \in Limits :
    /\ \A e \in Given : Fuses(Fused(fuse_term(L, <<>>, e)), TwoEnvs, L, <<>>, e)
    /\ \A c \in Defs : Arms(SampleTerms \cup ArmTerms(c, L), TwoEnvs, c, L, <<>>)
ASSUME Environment(SampleClosed)
=================================================================================
