----------------------------- MODULE Sessions_proofs -----------------------------
(***************************************************************************)
(* Proofs about the two sessions of the checker, for every export, every   *)
(* set of names and scopes, with and without --keep-going.                 *)
(*                                                                         *)
(* IInv is what the environment and the suspended queries have in common   *)
(* at every step.  Current is what the caches hold, and what a check that  *)
(* reads them may conclude: inductive given IInv, under the hypothesis     *)
(* that a name made for one check tells the same in every later one.       *)
(***************************************************************************)
EXTENDS Sessions, SequenceTheorems, TLAPS

\* What the environment is rolled back to, were the check to end now.
Base == IF InCheck THEN mark ELSE env
DeclaredIn(e) == {n \in Names : e[n] # Undeclared}
Known == Info \cup {Undeclared}
Context == [params: Scopes, scope: Scopes]
Fact == [name: Names, ls: Lists, info: Known, at: Lists]
Substitution == [pl: Lists, vs: Lists, ps: Lists]
Looks == \E n \in Names : sig_of(n) \/ \E ls \in Lists : Look(n, ls) \/ LookUndeclared(n, ls)

TypeOK ==
  /\ export \in Exports /\ at \in Nat \ {0}
  /\ pc \in {"next", "main", "scratch", "over"} /\ stage \in Stages
  /\ env \in [Names -> Known] /\ mark \in [Names -> Known]
  /\ facts \in [Engines -> SUBSET Fact] /\ lsubs \in [Engines -> SUBSET Substitution]
  /\ infer \in [Engines -> SUBSET [term: Term, scope: Scopes \cup {"unchecked"}]]
  /\ plist \in [Engines -> [Names -> Lists \cup {"none"}]]
  /\ sig \in [Engines -> [Names -> Rels \cup {"none", "nothing"}]]
  /\ InCheck => params \in Scopes /\ scope \in Scopes
  /\ saved \in Seq(Context)
  /\ verdict \in [DOMAIN export -> {"none", "accepted", "rejected"}]

\* Where a check is; the scratch session is empty outside of one.
Course ==
  /\ InCheck => at \in DOMAIN export /\ stage <= LastStage(Decl) /\ Own(Decl) \cap Before(at) = {}
  /\ pc = "main" => stage = 1 /\ Decl.kind = "plain"
  /\ pc # "scratch" => saved = <<>> /\ facts["scratch"] = {} /\ infer["scratch"] = {}
  /\ \A i \in DOMAIN export : verdict[i] = "none" <=> at <= i
  /\ at <= Len(export) + 1

\* The environment: what it is rolled back to is exact, and the stage tells the rest.
Exact(e) ==
  /\ DeclaredIn(e) = Before(at)
  /\ \A i \in DOMAIN export : verdict[i] = "accepted" =>
       \A n \in Own(export[i]) : e[n] = Final(export[i])[n]
Environments ==
  /\ pc # "over" => Exact(Base)
  /\ InCheck => env = IF stage = 1 THEN mark
                      ELSE IF stage = 2 THEN Added(Decl.probe, mark) ELSE Added(Decl.gives, mark)

\* Every constant that outlives a check comes from an earlier declaration.
Origins ==
  \A n \in DeclaredIn(Base) : \E j \in 1..(at - 1) : n \in Own(export[j]) /\ Base[n] = Final(export[j])[n]

\* The scope of the check, in force or saved below the queries that suspend it.
Suspended ==
  InCheck =>
    LET own == [params |-> Decl.scope[stage], scope |-> Decl.scope[stage]]
    IN /\ saved = <<>> => params = own.params /\ scope = own.scope
       /\ saved # <<>> => saved[1] = own

IInv == TypeOK /\ Course /\ Environments /\ Origins /\ Suspended

\* What a name tells that is remembered by name.
SameTraits(i, j) == i.rel = j.rel /\ i.params = j.params

\* A hypothesis: a name made for one check tells what it tells, or what the constant that
\* takes it tells, in every later one.
NamesAgree ==
  \A x \in Exports : \A i, j \in DOMAIN x : \A n \in DOMAIN x[i].probe \ Own(x[i]) :
    i < j => /\ n \in DOMAIN x[j].probe => SameTraits(x[j].probe[n], x[i].probe[n])
             /\ n \in Own(x[j]) => SameTraits(Final(x[j])[n], x[i].probe[n])

\* The name n tells what i does, or did when it was last there.
Told(n, i) ==
  IF env[n] # Undeclared THEN SameTraits(i, env[n])
  ELSE \E k \in DOMAIN export : k <= at /\ n \in DOMAIN export[k].probe /\ SameTraits(i, export[k].probe[n])

\* A signature tells nothing, or what the constant's type does; the parameters are the
\* constant's; levels are put for the parameters they were asked for.
Signatures ==
  \A e \in Engines : \A n \in Names : sig[e][n] \notin {"none", "nothing"} =>
    \E i \in Info : Told(n, i) /\ sig[e][n] = i.rel
Parameters ==
  \A e \in Engines : \A n \in Names : plist[e][n] # "none" =>
    \E i \in Info : Told(n, i) /\ plist[e][n] = i.params
Substitutions == \A e \in Engines : \A s \in lsubs[e] : s.ps = s.pl

\* What was computed from a constant is current, or is an atom of one undeclared.
Facts ==
  /\ \A e \in Engines : \A f \in facts[e] : f.at = f.ls
  /\ \A f \in facts["main"] : f.info # Undeclared => f.info = Base[f.name]
  /\ \A f \in facts["scratch"] : f.info # Undeclared => f.info = env[f.name]

\* A constant that was undeclared when the scratch session met it was mentioned by an earlier
\* one, if it is the first stage or the constant has been declared since.
CitedBefore(i, m) == \E j \in 1..(i - 1) : \E n \in Own(export[j]) : m \in Mentions(Final(export[j])[n])
Atoms ==
  \A f \in facts["scratch"] : f.info = Undeclared =>
    /\ stage = 1 => env[f.name] = Undeclared /\ CitedBefore(at, f.name)
    /\ env[f.name] # Undeclared => f.name \in DOMAIN Decl.probe /\ CitedBefore(at, f.name)

\* An entry for a scope stands for a check that would succeed now.
Right(x, e) == x.scope # "unchecked" => x.scope \in x.term.scopes /\ Mentions(x.term) \subseteq DeclaredIn(e)
Entries ==
  /\ \A x \in infer["main"] : Right(x, Base)
  /\ \A x \in infer["scratch"] : Right(x, env)

\* The stages so far, as a checker without caches sees them.
Passes(i, k, t) == Mentions(t) \subseteq InView(i, k) /\ export[i].scope[k] \in t.scopes
Judged ==
  InCheck =>
    /\ \A t \in checked : Passes(at, stage, t)
    /\ \A k \in 1..(stage - 1) : \A t \in Decl.terms[k] : Passes(at, k, t)

Remembered == Signatures /\ Parameters /\ Substitutions /\ Facts /\ Atoms
Current == Remembered /\ Entries /\ Judged /\ VerdictUncached

Mentioned(d, k) == UNION {Mentions(t) : t \in d.terms[k]}

\* A hypothesis: the values of a declaration mention what the terms of its last stage do.
\* They are those terms, but for the rules of a recursor, which are only compared with
\* the derived ones (inductive.cpp:682) and may mention what conversion passes over.
ValuesChecked ==
  \A x \in Exports : \A i \in DOMAIN x : \A n \in Own(x[i]) :
    Mentions(Final(x[i])[n]) \subseteq Mentioned(x[i], LastStage(x[i])) \cup Own(x[i])

SomeRejected == \E i \in DOMAIN export : verdict[i] = "rejected"

\* A constant that was not declared is met only once a rejected declaration was kept, or by
\* a block's own rules.
Closed ==
  /\ SomeRejected \/ \A n \in DeclaredIn(Base) : Mentions(Base[n]) \subseteq DeclaredIn(Base)
  /\ \A f \in facts["main"] : f.info = Undeclared => SomeRejected
  /\ \A f \in facts["scratch"] : f.info = Undeclared =>
       SomeRejected \/ (stage # 1 /\ env[f.name] = Undeclared)

-------------------------------------------------------------------------------
(* Exports and environments.                                                 *)

LEMMA ExportsAre ==
  ASSUME TypeOK
  PROVE  /\ Len(export) \in Nat /\ DOMAIN export = 1..Len(export)
         /\ \A i \in DOMAIN export : i \in Nat /\ i >= 1 /\ Declaration(export[i])
<1>1. export \in Exports
  BY DEF TypeOK
<1>2. export \in Seq({export[i] : i \in DOMAIN export})
  BY <1>1, SessionsAssumption
<1>3. Len(export) \in Nat /\ DOMAIN export = 1..Len(export)
  BY <1>2
<1>4. \A i \in DOMAIN export : Declaration(export[i])
  BY <1>1, SessionsAssumption
<1> QED BY <1>3, <1>4

LEMMA UndeclaredIsNoInfo == Undeclared \notin Info
<1>1. \A x \in Info : x.kind \in {"axiom", "def", "induct", "ctor", "rec", "quot"}
  BY DEF Info
<1>2. Undeclared.kind = "none"
  BY DEF Undeclared
<1> QED BY <1>1, <1>2

LEMMA LastStages ==
  ASSUME NEW d
  PROVE  /\ d.kind = "recursive" => LastStage(d) = 2
         /\ d.kind = "block" => LastStage(d) = 3
         /\ d.kind \notin {"recursive", "block"} => LastStage(d) = 1
<1>1. CASE d.kind = "recursive"
  <2>1. d.kind # "block"
    BY <1>1
  <2>2. LastStage(d) = 2
    BY <1>1, <2>1, Zenon DEF LastStage
  <2> QED BY <1>1, <2>1, <2>2
<1>2. CASE d.kind = "block"
  <2>1. d.kind # "recursive"
    BY <1>2
  <2>2. LastStage(d) = 3
    BY <1>2, <2>1, Zenon DEF LastStage
  <2> QED BY <1>2, <2>1, <2>2
<1>3. CASE d.kind # "recursive" /\ d.kind # "block"
  BY <1>3, Zenon DEF LastStage
<1> QED BY <1>1, <1>2, <1>3

LEMMA Views ==
  ASSUME NEW i
  PROVE  /\ InView(i, 1) = Before(i)
         /\ InView(i, 2) = Before(i) \cup DOMAIN export[i].probe
         /\ InView(i, 3) = Before(i) \cup DOMAIN export[i].gives
<1>1. 1 # 2 /\ 1 # 3 /\ 2 # 3
  OBVIOUS
<1>2. InView(i, 1) = Before(i) \cup {}
  BY <1>1, Zenon DEF InView
<1>3. InView(i, 2) = Before(i) \cup DOMAIN export[i].probe
  BY <1>1, Zenon DEF InView
<1>4. InView(i, 3) = Before(i) \cup DOMAIN export[i].gives
  BY <1>1, Zenon DEF InView
<1> QED BY <1>2, <1>3, <1>4

LEMMA BeforeNext ==
  ASSUME TypeOK
  PROVE  Before(at + 1) = Before(at) \cup Own(export[at])
<1>1. at \in Nat /\ 1..(at + 1 - 1) = 1..(at - 1) \cup {at}
  BY DEF TypeOK
<1> QED BY <1>1 DEF Before

\* Adding constants to an environment.
LEMMA Adding ==
  ASSUME NEW e \in [Names -> Known], NEW f, Constants(f)
  PROVE  /\ Added(f, e) \in [Names -> Known]
         /\ DeclaredIn(Added(f, e)) = DeclaredIn(e) \cup DOMAIN f
         /\ \A n \in Names : Added(f, e)[n] = IF n \in DOMAIN f THEN f[n] ELSE e[n]
<1>1. DOMAIN f \subseteq Names /\ \A n \in DOMAIN f : f[n] \in Info /\ f[n] # Undeclared
  BY UndeclaredIsNoInfo DEF Constants
<1>2. DOMAIN e = Names
  OBVIOUS
<1>3. DOMAIN f \cup DOMAIN e = Names
  BY <1>1, <1>2
<1>4. Added(f, e) = [n \in Names |-> IF n \in DOMAIN f THEN f[n] ELSE e[n]]
  BY <1>3 DEF Added
<1>5. \A n \in Names : Added(f, e)[n] = IF n \in DOMAIN f THEN f[n] ELSE e[n]
  BY <1>4
<1>6. Added(f, e) \in [Names -> Known]
  BY <1>1, <1>4 DEF Known
<1> QED BY <1>1, <1>5, <1>6 DEF DeclaredIn

\* The constants of a declaration in their final form.
LEMMA Finals ==
  ASSUME NEW d, Declaration(d)
  PROVE  /\ Constants(Final(d)) /\ DOMAIN Final(d) = Own(d)
         /\ \A n \in DOMAIN d.gives : Final(d)[n] = d.gives[n]
         /\ \A n \in DOMAIN d.adds : Final(d)[n] = d.adds[n]
<1>1. Constants(d.gives) /\ Constants(d.adds) /\ DOMAIN d.gives \cap DOMAIN d.adds = {}
  BY DEF Declaration
<1>2. Final(d) = [n \in Own(d) |-> IF n \in DOMAIN d.gives THEN d.gives[n] ELSE d.adds[n]]
  BY DEF Final, Added, Own
<1> QED BY <1>1, <1>2 DEF Constants, Own

\* The stage of a check tells what is declared during it.
LEMMA InViewDeclared ==
  ASSUME TypeOK, Course, Environments, InCheck
  PROVE  /\ Declared = InView(at, stage)
         /\ stage = 1 => Declared = Before(at)
         /\ stage = 2 => Declared = Before(at) \cup DOMAIN Decl.probe
         /\ stage = 3 => Declared = Before(at) \cup DOMAIN Decl.gives
<1>1. at \in DOMAIN export /\ Declaration(Decl) /\ stage \in {1, 2, 3}
  BY ExportsAre DEF Course, Decl, TypeOK, Stages
<1>2. mark \in [Names -> Known] /\ DeclaredIn(mark) = Before(at)
  BY DEF TypeOK, Environments, Exact, Base, InCheck, Engines
<1>3. Declared = DeclaredIn(env)
  BY DEF Declared, DeclaredIn
<1>4. Constants(Decl.probe) /\ Constants(Decl.gives)
  BY <1>1 DEF Declaration
<1>5. CASE stage = 1
  BY <1>2, <1>3, <1>5, Views DEF Environments
<1>6. CASE stage = 2
  <2>1. env = Added(Decl.probe, mark)
    BY <1>6 DEF Environments
  <2>2. DeclaredIn(env) = Before(at) \cup DOMAIN Decl.probe
    BY <1>2, <1>4, <2>1, Adding
  <2> QED BY <1>3, <1>6, <2>2, Views DEF Decl
<1>7. CASE stage = 3
  <2>1. env = Added(Decl.gives, mark)
    BY <1>7 DEF Environments
  <2>2. DeclaredIn(env) = Before(at) \cup DOMAIN Decl.gives
    BY <1>2, <1>4, <2>1, Adding
  <2> QED BY <1>3, <1>7, <2>2, Views DEF Decl
<1> QED BY <1>1, <1>5, <1>6, <1>7

\* The names declared for a check are new.
LEMMA ProbeNew ==
  ASSUME TypeOK, Course, InCheck
  PROVE  DOMAIN Decl.probe \cap Before(at) = {}
<1>1. at \in DOMAIN export /\ export \in Exports /\ Own(Decl) \cap Before(at) = {}
  BY DEF Course, TypeOK
<1>2. \A j \in 1..(at - 1) : (DOMAIN Decl.probe \ Own(Decl)) \cap Own(export[j]) = {}
  BY <1>1, SessionsAssumption DEF Decl
<1> QED BY <1>1, <1>2 DEF Before

-------------------------------------------------------------------------------
(* The kinds of steps.                                                       *)

\* Nothing is entered, left or judged.
Quiet ==
  /\ UNCHANGED <<export, at, stage, env, mark, verdict>>
  /\ pc' = pc \/ (pc = "next" /\ pc' = "over")
Begins == Begin /\ Own(Decl) \cap Declared = {}
Accepts == AcceptMain \/ AcceptScratch
Rejects == (Begin /\ Own(Decl) \cap Declared # {}) \/ \E t \in AllTerms : RejectScratch(t)

LEMMA Steps ==
  ASSUME [Next]_vars
  PROVE  Quiet \/ Begins \/ GivesUp \/ AddProbe \/ RollBack \/ Accepts \/ Rejects
<1>1. CASE Begin \/ GivesUp \/ AddProbe \/ RollBack \/ AcceptMain \/ AcceptScratch
           \/ \E t \in AllTerms : RejectScratch(t)
  BY <1>1 DEF Begins, Accepts, Rejects
<1>2. CASE End \/ Restart \/ Query \/ QueryEnds \/ Terminated \/ UNCHANGED vars
  BY <1>2 DEF End, Restart, Query, QueryEnds, Terminated, vars, Quiet
<1>3. CASE Looks
  BY <1>3 DEF Looks, Look, LookUndeclared, sig_of, Quiet
<1>4. CASE \E t \in AllTerms : InferOnly(t) \/ InferChecked(t)
  BY <1>4 DEF InferOnly, InferChecked, Quiet
<1> QED BY <1>1, <1>2, <1>3, <1>4 DEF Next, Looks

\* A declaration is accepted where the last of its stages is finished.
LEMMA AcceptsAre ==
  ASSUME TypeOK, Course, Environments, Accepts
  PROVE  /\ InCheck /\ at \in DOMAIN export /\ stage = LastStage(Decl) /\ Finished
         /\ pc' = "next" /\ at' = at + 1 /\ UNCHANGED <<export, saved, params, scope>>
         /\ verdict' = [verdict EXCEPT ![at] = "accepted"]
         /\ env' = Added(Decl.adds, IF Decl.kind = "block" THEN env ELSE mark)
<1>1. CASE AcceptMain
  <2>1. InCheck /\ at \in DOMAIN export /\ stage = 1 /\ Decl.kind = "plain"
    BY <1>1 DEF AcceptMain, Course, InCheck, Engines
  <2>2. env = mark /\ stage = LastStage(Decl)
    BY <2>1, LastStages DEF Environments
  <2> QED BY <1>1, <2>1, <2>2 DEF AcceptMain, Judge, context
<1>2. CASE AcceptScratch
  <2>1. InCheck /\ at \in DOMAIN export
    BY <1>2 DEF AcceptScratch, Course, InCheck, Engines
  <2> QED BY <1>2, <2>1 DEF AcceptScratch, Judge, context
<1> QED BY <1>1, <1>2 DEF Accepts

\* A rejected declaration leaves what was there before it, or that and its constants.
LEMMA RejectsAre ==
  ASSUME TypeOK, Course, Rejects
  PROVE  /\ at \in DOMAIN export /\ pc \in {"next", "scratch"} /\ at' = at + 1
         /\ verdict' = [verdict EXCEPT ![at] = "rejected"]
         /\ UNCHANGED <<export, saved, params, scope>>
         /\ pc' = IF KeepGoing THEN "next" ELSE "over"
         /\ env' = [n \in Names |->
                      IF KeepGoing /\ n \in Own(Decl) /\ Base[n] = Undeclared
                        THEN Final(Decl)[n] ELSE Base[n]]
<1>1. CASE Begin /\ Own(Decl) \cap Declared # {}
  <2>1. at \in DOMAIN export
    BY <1>1, ExportsAre DEF Begin, TypeOK
  <2>2. pc = "next" /\ Reject(env) /\ Base = env /\ UNCHANGED <<params, scope>>
    BY <1>1 DEF Begin, Base, InCheck, Engines
  <2> QED BY <1>1, <2>1, <2>2 DEF Begin, Reject, Judge
<1>2. CASE \E t \in AllTerms : RejectScratch(t)
  <2>1. pc = "scratch" /\ Reject(mark) /\ UNCHANGED <<export, saved, params, scope>>
    BY <1>2 DEF RejectScratch, context
  <2>2. at \in DOMAIN export /\ Base = mark
    BY <2>1 DEF Course, Base, InCheck, Engines
  <2> QED BY <2>1, <2>2 DEF Reject, Judge
<1> QED BY <1>1, <1>2 DEF Rejects

-------------------------------------------------------------------------------
(* Types.                                                                    *)

LEMMA RejectedEnvironment ==
  ASSUME TypeOK, Course, Environments, Rejects
  PROVE  /\ env' \in [Names -> Known]
         /\ KeepGoing => DeclaredIn(env') = DeclaredIn(Base) \cup Own(Decl)
         /\ ~KeepGoing => env' = Base
         /\ \A n \in DeclaredIn(Base) : env'[n] = Base[n]
         /\ \A n \in Names : env'[n] # Base[n] => n \in Own(Decl) /\ env'[n] = Final(Decl)[n]
<1>1. Base \in [Names -> Known] /\ at \in DOMAIN export /\ Declaration(Decl)
  BY ExportsAre, RejectsAre DEF TypeOK, Base, Decl
<1>2. env' = [n \in Names |-> IF KeepGoing /\ n \in Own(Decl) /\ Base[n] = Undeclared
                                 THEN Final(Decl)[n] ELSE Base[n]]
  BY RejectsAre
<1>3. \A n \in Own(Decl) : n \in Names /\ Final(Decl)[n] \in Info /\ Final(Decl)[n] # Undeclared
  BY <1>1, Finals, UndeclaredIsNoInfo DEF Constants
<1>4. \A n \in Names : env'[n] = IF KeepGoing /\ n \in Own(Decl) /\ Base[n] = Undeclared
                                   THEN Final(Decl)[n] ELSE Base[n]
  BY <1>2
<1>5. env' \in [Names -> Known]
  BY <1>1, <1>2, <1>3 DEF Known
<1>6. ~KeepGoing => env' = Base
  <2>1. ASSUME ~KeepGoing PROVE env' = [n \in Names |-> Base[n]]
    BY <1>2, <2>1
  <2> QED BY <1>1, <2>1
<1> HIDE DEF Base
<1> QED BY <1>3, <1>4, <1>5, <1>6 DEF DeclaredIn

\* An accepted one is added to them.
LEMMA AcceptedEnvironment ==
  ASSUME TypeOK, Course, Environments, Accepts
  PROVE  /\ env' \in [Names -> Known]
         /\ DeclaredIn(env') = DeclaredIn(Base) \cup Own(Decl)
         /\ \A n \in DeclaredIn(Base) : env'[n] = Base[n]
         /\ \A n \in Own(Decl) : env'[n] = Final(Decl)[n]
<1>1. /\ at \in DOMAIN export /\ Declaration(Decl) /\ Base = mark /\ mark \in [Names -> Known]
      /\ env \in [Names -> Known] /\ stage = LastStage(Decl) /\ InCheck
  BY ExportsAre, AcceptsAre DEF TypeOK, Base, Decl
<1>2. Constants(Decl.gives) /\ Constants(Decl.adds) /\ DOMAIN Decl.gives \cap DOMAIN Decl.adds = {}
  BY <1>1 DEF Declaration
<1>3. Own(Decl) \cap DeclaredIn(mark) = {} /\ Own(Decl) = DOMAIN Decl.gives \cup DOMAIN Decl.adds
  BY <1>1 DEF Course, Environments, Exact, InCheck, Engines, Own
<1>4. \A n \in Own(Decl) : n \in Names /\ Final(Decl)[n] = IF n \in DOMAIN Decl.gives THEN Decl.gives[n] ELSE Decl.adds[n]
  BY <1>1, <1>2, <1>3, Finals DEF Constants
<1>5. CASE Decl.kind = "block"
  <2>1. env = Added(Decl.gives, mark) /\ env' = Added(Decl.adds, env)
    BY <1>1, <1>5, AcceptsAre, LastStages DEF Environments
  <2>2. /\ DeclaredIn(env) = DeclaredIn(mark) \cup DOMAIN Decl.gives
        /\ \A n \in Names : env[n] = IF n \in DOMAIN Decl.gives THEN Decl.gives[n] ELSE mark[n]
    BY <1>1, <1>2, <2>1, Adding
  <2>3. /\ env' \in [Names -> Known] /\ DeclaredIn(env') = DeclaredIn(env) \cup DOMAIN Decl.adds
        /\ \A n \in Names : env'[n] = IF n \in DOMAIN Decl.adds THEN Decl.adds[n] ELSE env[n]
    BY <1>1, <1>2, <2>1, Adding
  <2>4. \A n \in DeclaredIn(mark) : n \in Names /\ n \notin Own(Decl)
    BY <1>3 DEF DeclaredIn
  <2> QED BY <1>1, <1>2, <1>3, <1>4, <2>2, <2>3, <2>4
<1>6. CASE Decl.kind # "block"
  <2>1. env' = Added(Decl.adds, mark) /\ DOMAIN Decl.gives = {}
    BY <1>1, <1>6, AcceptsAre DEF Declaration
  <2>2. /\ env' \in [Names -> Known] /\ DeclaredIn(env') = DeclaredIn(mark) \cup DOMAIN Decl.adds
        /\ \A n \in Names : env'[n] = IF n \in DOMAIN Decl.adds THEN Decl.adds[n] ELSE mark[n]
    BY <1>1, <1>2, <2>1, Adding
  <2>3. \A n \in DeclaredIn(mark) : n \in Names /\ n \notin Own(Decl)
    BY <1>3 DEF DeclaredIn
  <2> QED BY <1>1, <1>2, <1>3, <1>4, <2>1, <2>2, <2>3
<1> QED BY <1>5, <1>6

\* A check is entered with the scope of its stage.
LEMMA Enters ==
  ASSUME TypeOK, Course, Begins \/ GivesUp \/ AddProbe \/ RollBack
  PROVE  /\ at \in DOMAIN export /\ UNCHANGED <<export, at, saved, verdict>>
         /\ pc' \in Engines /\ stage' \in 1..3 /\ checked' = {}
         /\ params' = Decl.scope[stage'] /\ scope' = Decl.scope[stage'] /\ params' \in Scopes
         /\ Begins \/ GivesUp => stage' = 1
         /\ AddProbe => stage' = 2 /\ stage = 1
         /\ RollBack => stage' = 3 /\ stage = 2
         /\ Begins => mark' = env /\ env' = env
         /\ ~Begins => UNCHANGED mark
         /\ GivesUp => env' = env
         /\ AddProbe => env' = Added(Decl.probe, env)
         /\ RollBack => env' = Added(Decl.gives, mark)
<1> DEFINE k == IF AddProbe THEN 2 ELSE IF RollBack THEN 3 ELSE 1
<1>1. Begins => pc = "next" /\ ~AddProbe /\ ~RollBack /\ ~GivesUp
  BY DEF Begins, Begin, AddProbe, RollBack, GivesUp
<1>2. GivesUp => pc = "main" /\ ~AddProbe /\ ~RollBack
  BY DEF GivesUp, AddProbe, RollBack
<1>3. (AddProbe => pc = "scratch" /\ stage = 1) /\ (RollBack => pc = "scratch" /\ stage = 2)
  BY DEF AddProbe, RollBack
<1>4. at \in DOMAIN export
  <2>1. CASE Begins
    BY <2>1, ExportsAre DEF Begins, Begin, TypeOK
  <2> QED BY <1>2, <1>3, <2>1 DEF Course, InCheck, Engines
<1>5. \E p \in Engines : Enter(p, k)
  BY <1>1, <1>2, <1>3 DEF Begins, Begin, GivesUp, AddProbe, RollBack, Engines
<1>6. Declaration(Decl) /\ k \in 1..3
  BY <1>4, ExportsAre DEF Decl
<1>7. Decl.scope[k] \in Scopes
  BY <1>6 DEF Declaration, Stages
<1>8. /\ stage' = k /\ checked' = {} /\ pc' \in Engines
      /\ params' = Decl.scope[k] /\ scope' = Decl.scope[k]
  BY <1>5 DEF Enter, SetScope
<1>9. UNCHANGED <<export, at, saved, verdict>>
  BY DEF Begins, Begin, GivesUp, AddProbe, RollBack
<1>10. /\ Begins => mark' = env /\ env' = env
       /\ GivesUp => env' = env /\ UNCHANGED mark
       /\ AddProbe => env' = Added(Decl.probe, env) /\ UNCHANGED mark
       /\ RollBack => env' = Added(Decl.gives, mark) /\ UNCHANGED mark
  BY DEF Begins, Begin, GivesUp, AddProbe, RollBack
<1> QED BY <1>1, <1>2, <1>3, <1>4, <1>6, <1>7, <1>8, <1>9, <1>10

\* What is found of a declared constant at levels: its parameters, those the levels are put
\* for, the levels it is read at.
LEMMA Found ==
  ASSUME TypeOK, NEW n \in Names, NEW ls \in Lists, n \in Declared
  PROVE  /\ env[n] \in Info /\ plist_of(n) \in Lists /\ lsub_of(n, ls) \in Lists
         /\ ReadAt(n, ls, lsub_of(n, ls)) \in Lists
<1> DEFINE hits == {s \in lsubs[Engine] : s.pl = plist_of(n) /\ s.vs = ls}
           s0 == CHOOSE s \in hits : TRUE
<1>1. Engine \in Engines /\ env[n] \in Info
  BY DEF Engine, Engines, TypeOK, Declared, Known
<1>2. env[n].params \in Lists
  BY <1>1 DEF Info
<1>3. plist[Engine][n] \in Lists \cup {"none"}
  BY <1>1 DEF TypeOK
<1>4. plist_of(n) \in Lists
  BY <1>2, <1>3 DEF plist_of
<1>5. lsubs[Engine] \in SUBSET Substitution
  BY <1>1 DEF TypeOK
<1>6. hits # {} => s0 \in hits
  <2> HIDE DEF hits
  <2> QED OBVIOUS
<1>7. hits # {} => s0.ps \in Lists
  <2>1. \A s \in hits : s.ps \in Lists
    BY <1>5 DEF Substitution
  <2> HIDE DEF hits, s0
  <2> QED BY <1>6, <2>1
<1>8. lsub_of(n, ls) = IF env[n].params = NoParams \/ plist_of(n) = ls THEN NoParams
                       ELSE IF hits = {} THEN env[n].params ELSE s0.ps
  BY Zenon DEF lsub_of
<1>9. lsub_of(n, ls) \in Lists
  <2> HIDE DEF hits, s0
  <2> QED BY <1>2, <1>7, <1>8, SessionsAssumption
<1>10. ReadAt(n, ls, lsub_of(n, ls)) \in Lists
  BY <1>2 DEF ReadAt
<1> QED BY <1>1, <1>4, <1>9, <1>10

\* A step that looks a constant up, and what it finds.
Finds(n, ls) ==
  [name |-> n, ls |-> ls, info |-> env[n], at |-> ReadAt(n, ls, lsub_of(n, ls))]
Puts(n, ls) == [pl |-> plist_of(n), vs |-> ls, ps |-> lsub_of(n, ls)]

LEMMA Looking ==
  ASSUME NEW n \in Names, NEW ls \in Lists, Look(n, ls)
  PROVE  /\ InCheck /\ <<n, ls>> \in Met /\ n \in Declared /\ Quiet /\ UNCHANGED <<infer, sig, checked>>
         /\ facts' = [facts EXCEPT ![Engine] = facts[Engine] \cup {Finds(n, ls)}]
         /\ plist' = plist \/ plist' = [plist EXCEPT ![Engine] = [plist[Engine] EXCEPT ![n] = plist_of(n)]]
         /\ \/ lsubs' = lsubs
            \/ lsub_of(n, ls) # NoParams /\ lsubs' = [lsubs EXCEPT ![Engine] = lsubs[Engine] \cup {Puts(n, ls)}]
BY DEF Look, Finds, Puts, Quiet

\* What a session keeps comes from constants of the environment and terms of the export.
LEMMA CachesNext ==
  ASSUME TypeOK, [Next]_vars
  PROVE  /\ facts' \in [Engines -> SUBSET Fact]
         /\ lsubs' \in [Engines -> SUBSET Substitution]
         /\ infer' \in [Engines -> SUBSET [term: Term, scope: Scopes \cup {"unchecked"}]]
         /\ plist' \in [Engines -> [Names -> Lists \cup {"none"}]]
         /\ sig' \in [Engines -> [Names -> Rels \cup {"none", "nothing"}]]
<1> DEFINE F == [Engines -> SUBSET Fact]
           L == [Engines -> SUBSET Substitution]
           I == [Engines -> SUBSET [term: Term, scope: Scopes \cup {"unchecked"}]]
           P == [Engines -> [Names -> Lists \cup {"none"}]]
           S == [Engines -> [Names -> Rels \cup {"none", "nothing"}]]
           Goal == facts' \in F /\ lsubs' \in L /\ infer' \in I /\ plist' \in P /\ sig' \in S
<1>1. facts \in F /\ lsubs \in L /\ infer \in I /\ plist \in P /\ sig \in S /\ Engine \in Engines
  BY DEF TypeOK, Engines, Engine
<1>2. \A t \in AllTerms : t \in Term
  BY ExportsAre DEF AllTerms, Declaration, Stages
<1>3. \A n \in Names : env[n] \in Known /\ (env[n] # Undeclared => env[n].rel \in Rels)
  BY DEF TypeOK, Known, Info
<1>4. CASE UNCHANGED caches
  BY <1>1, <1>4 DEF caches
<1>5. CASE \E e \in Engines : start_session(e)
  BY <1>1, <1>5 DEF start_session
<1>6. ASSUME NEW n \in Names, NEW ls \in Lists, Look(n, ls)
      PROVE  Goal
  <2>1. /\ n \in Declared /\ UNCHANGED <<infer, sig>>
        /\ facts' = [facts EXCEPT ![Engine] = facts[Engine] \cup {Finds(n, ls)}]
        /\ plist' = plist \/ plist' = [plist EXCEPT ![Engine] = [plist[Engine] EXCEPT ![n] = plist_of(n)]]
        /\ lsubs' = lsubs \/ lsubs' = [lsubs EXCEPT ![Engine] = lsubs[Engine] \cup {Puts(n, ls)}]
    BY <1>6, Looking
  <2>2. Finds(n, ls) \in Fact /\ Puts(n, ls) \in Substitution /\ plist_of(n) \in Lists
    BY <1>3, <2>1, Found DEF Finds, Puts, Fact, Substitution
  <2>3. facts' \in F
    <3>1. facts[Engine] \cup {Finds(n, ls)} \in SUBSET Fact
      BY <1>1, <2>2
    <3> QED BY <1>1, <2>1, <3>1
  <2>4. lsubs' \in L
    <3>1. lsubs[Engine] \cup {Puts(n, ls)} \in SUBSET Substitution
      BY <1>1, <2>2
    <3> HIDE DEF L
    <3>2. lsubs' = lsubs => lsubs' \in L
      BY <1>1
    <3>3. lsubs' = [lsubs EXCEPT ![Engine] = lsubs[Engine] \cup {Puts(n, ls)}] => lsubs' \in L
      BY <1>1, <3>1 DEF L
    <3> QED BY <2>1, <3>2, <3>3
  <2>5. plist' \in P
    <3>1. [plist[Engine] EXCEPT ![n] = plist_of(n)] \in [Names -> Lists \cup {"none"}]
      BY <1>1, <2>2
    <3> HIDE DEF P
    <3>2. plist' = plist => plist' \in P
      BY <1>1
    <3>3. plist' = [plist EXCEPT ![Engine] = [plist[Engine] EXCEPT ![n] = plist_of(n)]] => plist' \in P
      BY <1>1, <3>1 DEF P
    <3> QED BY <2>1, <3>2, <3>3
  <2> QED BY <1>1, <2>1, <2>3, <2>4, <2>5
<1>7. ASSUME NEW n \in Names, NEW ls \in Lists, LookUndeclared(n, ls)
      PROVE  Goal
  <2> DEFINE f == [name |-> n, ls |-> ls, info |-> Undeclared, at |-> ls]
  <2>1. f \in Fact
    BY DEF Fact, Known
  <2>2. facts' = [facts EXCEPT ![Engine] = facts[Engine] \cup {f}] /\ UNCHANGED <<lsubs, infer, plist, sig>>
    BY <1>7 DEF LookUndeclared
  <2> HIDE DEF f
  <2>3. facts[Engine] \cup {f} \in SUBSET Fact
    BY <1>1, <2>1
  <2> QED BY <1>1, <2>2, <2>3
<1>8. ASSUME NEW n \in Names, sig_of(n)
      PROVE  Goal
  <2>1. PICK b \in {"nothing"} \cup {i.rel : i \in TypesOf(n)} : sig' = [sig EXCEPT ![Engine][n] = b]
    BY <1>8 DEF sig_of
  <2>2. \A i \in TypesOf(n) : i \in Info
    BY <1>1 DEF TypesOf, Fact, Known
  <2>3. b \in Rels \cup {"none", "nothing"} /\ UNCHANGED <<facts, lsubs, infer, plist>>
    BY <1>8, <2>2 DEF sig_of, Info
  <2> QED BY <1>1, <2>1, <2>3
<1>9. ASSUME NEW t \in AllTerms, InferOnly(t) \/ InferChecked(t)
      PROVE  Goal
  <2>1. UNCHANGED <<facts, lsubs, plist, sig>>
    BY <1>9 DEF InferOnly, InferChecked
  <2>2. CASE InferOnly(t)
    <3>1. [term |-> t, scope |-> "unchecked"] \in [term: Term, scope: Scopes \cup {"unchecked"}]
      BY <1>2
    <3>2. infer[Engine] \cup {[term |-> t, scope |-> "unchecked"]} \in SUBSET [term: Term, scope: Scopes \cup {"unchecked"}]
      BY <1>1, <3>1
    <3> QED BY <1>1, <2>1, <2>2, <3>2 DEF InferOnly
  <2>3. CASE InferChecked(t)
    <3>1. [term |-> t, scope |-> scope] \in [term: Term, scope: Scopes \cup {"unchecked"}]
      BY <1>2, <2>3 DEF TypeOK, InferChecked, Checking
    <3>2. {x \in infer[Engine] : x.term # t} \cup {[term |-> t, scope |-> scope]}
             \in SUBSET [term: Term, scope: Scopes \cup {"unchecked"}]
      BY <1>1, <3>1
    <3>3. infer' = infer \/ infer' = [infer EXCEPT ![Engine] =
                      {x \in infer[Engine] : x.term # t} \cup {[term |-> t, scope |-> scope]}]
      BY <2>3 DEF InferChecked
    <3> QED BY <1>1, <2>1, <3>2, <3>3
  <2> QED BY <1>9, <2>2, <2>3
<1>10. CASE Begin \/ End \/ Query \/ QueryEnds \/ GivesUp \/ AcceptMain \/ AddProbe \/ Terminated \/ UNCHANGED vars
  BY <1>4, <1>10 DEF Begin, End, Query, QueryEnds, GivesUp, AcceptMain, AddProbe, Terminated, vars, caches
<1>11. CASE Restart \/ RollBack \/ AcceptScratch \/ \E t \in AllTerms : RejectScratch(t)
  BY <1>5, <1>11 DEF Restart, RollBack, AcceptScratch, RejectScratch, Engines
<1>12. CASE Looks
  BY <1>6, <1>7, <1>8, <1>12 DEF Looks
<1>13. CASE \E t \in AllTerms : InferOnly(t) \/ InferChecked(t)
  BY <1>9, <1>13
<1>14. \/ Begin \/ End \/ Query \/ QueryEnds \/ GivesUp \/ AcceptMain \/ AddProbe \/ Terminated \/ UNCHANGED vars
       \/ Restart \/ RollBack \/ AcceptScratch \/ (\E t \in AllTerms : RejectScratch(t))
       \/ Looks \/ (\E t \in AllTerms : InferOnly(t) \/ InferChecked(t))
  BY DEF Next, Looks
<1> QED BY <1>10, <1>11, <1>12, <1>13, <1>14, Zenon

LEMMA TypeNext ==
  ASSUME TypeOK, Course, Environments, Suspended, [Next]_vars
  PROVE  TypeOK'
<1>1. UNCHANGED export
  BY DEF Next, vars, Begin, End, Restart, Looks, Look, LookUndeclared, sig_of, InferOnly, InferChecked, RejectScratch,
         Query, QueryEnds, GivesUp, AcceptMain, AddProbe, RollBack, AcceptScratch, Terminated
<1>2. /\ at' \in Nat \ {0} /\ pc' \in {"next", "main", "scratch", "over"} /\ stage' \in Stages
      /\ env' \in [Names -> Known] /\ mark' \in [Names -> Known]
      /\ verdict' \in [DOMAIN export -> {"none", "accepted", "rejected"}]
  <2> USE DEF TypeOK, Stages
  <2>1. CASE Quiet
    BY <2>1 DEF Quiet
  <2>2. CASE Begins \/ GivesUp \/ AddProbe \/ RollBack
    <3>1. Declaration(Decl)
      BY <2>2, Enters, ExportsAre DEF Decl
    <3>2. env' \in [Names -> Known]
      <4>1. Constants(Decl.probe) /\ Constants(Decl.gives)
        BY <3>1 DEF Declaration
      <4>2. env' = env \/ env' = Added(Decl.probe, env) \/ env' = Added(Decl.gives, mark)
        BY <2>2, Enters
      <4>3. env \in [Names -> Known] /\ mark \in [Names -> Known]
        OBVIOUS
      <4> HIDE DEF TypeOK
      <4> QED BY <4>1, <4>2, <4>3, Adding
    <3> QED BY <2>2, <3>2, Enters DEF Engines
  <2>3. CASE Accepts
    <3>1. env' \in [Names -> Known] /\ at' = at + 1 /\ pc' = "next" /\ verdict' = [verdict EXCEPT ![at] = "accepted"]
      BY <2>3, AcceptsAre, AcceptedEnvironment
    <3>2. stage' = stage /\ mark' = mark
      BY <2>3 DEF Accepts, AcceptMain, AcceptScratch
    <3>3. at + 1 \in Nat \ {0}
      OBVIOUS
    <3>4. verdict' \in [DOMAIN export -> {"none", "accepted", "rejected"}]
      BY <3>1
    <3> QED BY <3>1, <3>2, <3>3, <3>4
  <2>4. CASE Rejects
    <3>1. /\ env' \in [Names -> Known] /\ at' = at + 1 /\ pc' \in {"next", "over"}
          /\ verdict' = [verdict EXCEPT ![at] = "rejected"]
      BY <2>4, RejectsAre, RejectedEnvironment
    <3>2. stage' = stage /\ (mark' = env \/ mark' = mark)
      BY <2>4 DEF Rejects, Begin, RejectScratch
    <3>3. at + 1 \in Nat \ {0}
      OBVIOUS
    <3>4. verdict' \in [DOMAIN export -> {"none", "accepted", "rejected"}]
      BY <3>1
    <3> QED BY <3>1, <3>2, <3>3, <3>4
  <2> QED BY <2>1, <2>2, <2>3, <2>4, Steps
<1>3. (InCheck => params \in Scopes /\ scope \in Scopes)' /\ saved' \in Seq(Context)
  <2>1. CASE \E s \in Scopes : Query /\ SetScope(s)
    <3>1. saved' = Append(saved, [params |-> params, scope |-> scope]) /\ InCheck
      BY <2>1 DEF Query, InCheck, Engines
    <3>2. [params |-> params, scope |-> scope] \in Context
      BY <3>1 DEF TypeOK, Context
    <3> QED BY <2>1, <3>1, <3>2 DEF TypeOK, SetScope
  <2>2. CASE QueryEnds
    <3>1. saved # <<>> /\ saved \in Seq(Context) /\ Restored
      BY <2>2 DEF QueryEnds, TypeOK
    <3>2. Len(saved) \in 1..Len(saved) /\ Len(saved) \in Nat
      BY <3>1
    <3>3. saved[Len(saved)] \in Context
      BY <3>1, <3>2
    <3>4. SubSeq(saved, 1, Len(saved) - 1) \in Seq(Context)
      <4>1. \A k \in 1..(Len(saved) - 1) : k \in 1..Len(saved)
        BY <3>2
      <4> QED BY <3>1, <3>2, <4>1
    <3>5. params' \in Scopes /\ scope' \in Scopes /\ saved' \in Seq(Context)
      BY <3>1, <3>3, <3>4 DEF Restored, Context
    <3> QED BY <3>5
  <2>3. CASE Begins \/ GivesUp \/ AddProbe \/ RollBack
    BY <2>3, Enters DEF TypeOK
  <2>4. CASE Accepts
    BY <2>4, AcceptsAre DEF TypeOK, InCheck, Engines
  <2>5. CASE Rejects
    BY <2>5, RejectsAre DEF TypeOK, InCheck, Engines
  <2>6. CASE UNCHANGED <<params, scope, saved>> /\ Quiet
    BY <2>6 DEF TypeOK, Quiet, InCheck, Engines
  <2>7. Query => \E s \in Scopes : Query /\ SetScope(s)
    BY DEF Query
  <2>8. \/ Query \/ QueryEnds \/ Begins \/ GivesUp \/ AddProbe \/ RollBack \/ Accepts \/ Rejects
        \/ (UNCHANGED <<params, scope, saved>> /\ Quiet)
    <3>1. CASE Quiet
      <4>1. CASE End \/ Restart \/ Terminated \/ UNCHANGED vars
        BY <3>1, <4>1 DEF End, Restart, Terminated, vars, context
      <4>2. CASE Looks
        BY <3>1, <4>2 DEF Looks, Look, LookUndeclared, sig_of, context
      <4>3. CASE \E t \in AllTerms : InferOnly(t) \/ InferChecked(t)
        BY <3>1, <4>3 DEF InferOnly, InferChecked, context
      <4>4. CASE Begin \/ AcceptMain \/ AcceptScratch \/ \E t \in AllTerms : RejectScratch(t)
        BY <4>4 DEF Begins, Accepts, Rejects
      <4> QED BY <4>1, <4>2, <4>3, <4>4 DEF Next, Looks
    <3> QED BY <3>1, Steps
  <2> QED BY <2>1, <2>2, <2>3, <2>4, <2>5, <2>6, <2>7, <2>8
<1> QED BY <1>1, <1>2, <1>3, CachesNext DEF TypeOK

-------------------------------------------------------------------------------
(* The environment.                                                          *)

LEMMA QuietKeeps ==
  ASSUME Quiet, pc' = pc
  PROVE  Base' = Base /\ Decl' = Decl /\ InCheck' = InCheck /\ Before(at)' = Before(at)
BY DEF Quiet, Base, Decl, InCheck, Before

\* What earlier declarations put there is not touched by a later one.
LEMMA JudgedEnvironment ==
  ASSUME TypeOK, Course, Environments, Accepts \/ Rejects, pc' = "next"
  PROVE  Environments'
<1> DEFINE v == IF Accepts THEN "accepted" ELSE "rejected"
<1>1. /\ at \in DOMAIN export /\ at' = at + 1 /\ UNCHANGED export /\ pc # "over"
      /\ verdict' = [verdict EXCEPT ![at] = v]
  BY AcceptsAre, RejectsAre DEF InCheck, Engines
<1>2. /\ DeclaredIn(env') = DeclaredIn(Base) \cup Own(Decl)
      /\ \A n \in DeclaredIn(Base) : env'[n] = Base[n]
      /\ Accepts => \A n \in Own(Decl) : env'[n] = Final(Decl)[n]
  <2>1. CASE Accepts
    BY <2>1, AcceptedEnvironment
  <2>2. CASE ~Accepts
    BY <2>2, RejectsAre, RejectedEnvironment
  <2> QED BY <2>1, <2>2
<1>3. Base' = env' /\ ~InCheck'
  BY DEF Base, InCheck, Engines
<1>4. Exact(Base)
  BY <1>1 DEF Environments
<1>5. Before(at)' = Before(at) \cup Own(Decl)
  <2>1. Before(at)' = Before(at + 1)
    BY <1>1 DEF Before
  <2> QED BY <2>1, BeforeNext DEF Decl
<1>6. DeclaredIn(env') = Before(at)'
  BY <1>2, <1>4, <1>5 DEF Exact
<1>7. ASSUME NEW i \in DOMAIN export, verdict'[i] = "accepted", NEW n \in Own(export[i])
      PROVE  env'[n] = Final(export[i])[n]
  <2>1. CASE i = at
    <3>1. v = "accepted"
      BY <1>1, <1>7, <2>1 DEF TypeOK
    <3> QED BY <1>2, <1>7, <2>1, <3>1 DEF Decl
  <2>2. CASE i # at
    <3>1. verdict[i] = "accepted"
      BY <1>1, <1>7, <2>2 DEF TypeOK
    <3>2. i \in 1..(at - 1)
      BY <3>1, ExportsAre DEF Course, TypeOK
    <3>3. n \in DeclaredIn(Base)
      BY <1>4, <1>7, <3>2 DEF Exact, Before
    <3> QED BY <1>2, <1>4, <1>7, <3>1, <3>3 DEF Exact
  <2> QED BY <2>1, <2>2
<1> HIDE DEF v
<1>8. (DeclaredIn(Base) = Before(at))'
  BY <1>3, <1>6 DEF DeclaredIn
<1>9. Exact(Base)'
  BY <1>1, <1>3, <1>7, <1>8 DEF Exact
<1> QED BY <1>3, <1>9 DEF Environments

LEMMA EnvironmentsNext ==
  ASSUME TypeOK, Course, Environments, [Next]_vars
  PROVE  Environments'
<1>1. CASE Quiet /\ pc' = pc
  <2>1. Base' = Base /\ Decl' = Decl /\ InCheck' = InCheck /\ Before(at)' = Before(at)
    BY <1>1, QuietKeeps
  <2>2. Exact(Base) => Exact(Base)'
    BY <1>1, <2>1 DEF Exact, DeclaredIn, Quiet
  <2> QED BY <1>1, <2>1, <2>2 DEF Environments, Quiet
<1>2. CASE pc' = "over"
  BY <1>2 DEF Environments, InCheck, Engines
<1>3. CASE Begins \/ GivesUp \/ AddProbe \/ RollBack
  <2>1. /\ at \in DOMAIN export /\ UNCHANGED <<export, at, verdict>> /\ pc' \in Engines
        /\ Begins \/ GivesUp => stage' = 1
        /\ AddProbe => stage' = 2 /\ stage = 1
        /\ RollBack => stage' = 3 /\ stage = 2
        /\ Begins => mark' = env /\ env' = env
        /\ ~Begins => UNCHANGED mark
        /\ GivesUp => env' = env
        /\ AddProbe => env' = Added(Decl.probe, env)
        /\ RollBack => env' = Added(Decl.gives, mark)
    BY <1>3, Enters
  <2>2. mark' = Base /\ Base' = mark' /\ Decl' = Decl /\ InCheck' /\ Before(at)' = Before(at)
    <3>1. Begins => Base = env
      BY DEF Begins, Begin, Base, InCheck, Engines
    <3>2. ~Begins => Base = mark
      BY <1>3 DEF GivesUp, AddProbe, RollBack, Base, InCheck, Engines
    <3> QED BY <2>1, <3>1, <3>2 DEF Base, InCheck, Decl, Before
  <2>3. pc # "over" /\ (~Begins => InCheck /\ (GivesUp => stage = 1))
    BY <1>3 DEF Begins, Begin, GivesUp, AddProbe, RollBack, InCheck, Engines, Course
  <2>4. Exact(Base)'
    BY <2>1, <2>2, <2>3 DEF Exact, DeclaredIn, Environments
  <2>5. stage' = 1 => env' = mark'
    BY <1>3, <2>1, <2>3 DEF Environments
  <2>6. stage' = 2 => env' = Added(Decl.probe, mark')
    BY <1>3, <2>1, <2>3 DEF Environments
  <2>7. stage' = 3 => env' = Added(Decl.gives, mark')
    BY <1>3, <2>1
  <2>8. stage' \in 1..3
    BY <1>3, Enters
  <2>9. env' = IF stage' = 1 THEN mark' ELSE IF stage' = 2 THEN Added(Decl.probe, mark') ELSE Added(Decl.gives, mark')
    BY <2>5, <2>6, <2>7, <2>8
  <2>10. (env = IF stage = 1 THEN mark ELSE IF stage = 2 THEN Added(Decl.probe, mark) ELSE Added(Decl.gives, mark))'
    BY <2>2, <2>9 DEF Added
  <2> QED BY <2>4, <2>10 DEF Environments
<1>4. CASE (Accepts \/ Rejects) /\ pc' = "next"
  BY <1>4, JudgedEnvironment
<1>5. Accepts \/ Rejects => pc' \in {"next", "over"}
  BY AcceptsAre, RejectsAre
<1>6. Quiet => pc' = pc \/ pc' = "over"
  BY DEF Quiet
<1> QED BY <1>1, <1>2, <1>3, <1>4, <1>5, <1>6, Steps

-------------------------------------------------------------------------------
(* The course of a check.                                                    *)

\* The scratch session and its queries end with the check.
LEMMA ScratchEnds ==
  ASSUME TypeOK, Course, [Next]_vars, pc' # "scratch"
  PROVE  saved' = <<>> /\ facts'["scratch"] = {} /\ infer'["scratch"] = {}
<1> DEFINE Empty == saved = <<>> /\ facts["scratch"] = {} /\ infer["scratch"] = {}
           Goal == saved' = <<>> /\ facts'["scratch"] = {} /\ infer'["scratch"] = {}
<1>1. pc # "scratch" => (Empty /\ Engine # "scratch") \/ (Empty /\ ~InCheck)
  BY DEF Course, Engine, InCheck, Engines, TypeOK
<1>2. /\ DOMAIN facts = Engines /\ DOMAIN infer = Engines
      /\ (pc = "main" => Engine = "main") /\ (pc = "scratch" => Engine = "scratch")
  BY DEF TypeOK, Engine
<1>3. CASE AcceptScratch \/ \E t \in AllTerms : RejectScratch(t)
  BY <1>2, <1>3 DEF AcceptScratch, RejectScratch, start_session, Finished, Checking, context, Engines
<1>4. CASE pc # "scratch" /\ (Begin \/ End \/ AcceptMain \/ Terminated \/ UNCHANGED vars)
  BY <1>1, <1>4 DEF Begin, End, AcceptMain, Terminated, vars, caches, context
<1>5. CASE Restart
  BY <1>1, <1>2, <1>5 DEF Restart, start_session, context, Engines
<1>6. CASE pc = "main" /\ Looks
  BY <1>1, <1>2, <1>6 DEF Looks, Look, LookUndeclared, sig_of, context, Engines
<1>7. CASE pc = "main" /\ \E t \in AllTerms : InferOnly(t) \/ InferChecked(t)
  <2>1. UNCHANGED <<facts, saved>> /\ (infer' = infer \/ \E X : infer' = [infer EXCEPT !["main"] = X])
    BY <1>2, <1>7 DEF InferOnly, InferChecked, context
  <2> QED BY <1>1, <1>2, <1>7, <2>1 DEF Engines
<1>8. pc = "scratch" => AcceptScratch \/ \E t \in AllTerms : RejectScratch(t)
  <2> SUFFICES ASSUME pc = "scratch" PROVE AcceptScratch \/ \E t \in AllTerms : RejectScratch(t)
    OBVIOUS
  <2>1. ~(Begin \/ End \/ Restart \/ AcceptMain \/ Terminated \/ UNCHANGED vars \/ GivesUp)
    BY DEF Begin, End, Restart, AcceptMain, Terminated, vars, GivesUp
  <2>2. ~(Query \/ QueryEnds \/ AddProbe \/ RollBack)
    BY DEF Query, QueryEnds, AddProbe, RollBack, Enter
  <2>3. ~Looks
    BY DEF Looks, Look, LookUndeclared, sig_of
  <2>4. \A t \in AllTerms : ~InferOnly(t) /\ ~InferChecked(t)
    BY DEF InferOnly, InferChecked
  <2> QED BY <2>1, <2>2, <2>3, <2>4 DEF Next, Looks
<1>9. pc # "scratch" =>
        \/ AcceptScratch \/ \E t \in AllTerms : RejectScratch(t)
        \/ Begin \/ End \/ AcceptMain \/ Terminated \/ UNCHANGED vars \/ Restart
        \/ (pc = "main" /\ Looks)
        \/ (pc = "main" /\ \E t \in AllTerms : InferOnly(t) \/ InferChecked(t))
  <2> HAVE pc # "scratch"
  <2>1. ~(Query \/ AddProbe \/ RollBack \/ GivesUp \/ QueryEnds)
    BY <1>1 DEF Query, AddProbe, RollBack, GivesUp, Enter, QueryEnds
  <2>2. Looks => pc = "main"
    BY DEF Looks, Look, LookUndeclared, sig_of, InCheck, Engines
  <2>3. \A t \in AllTerms : InferOnly(t) \/ InferChecked(t) => pc = "main"
    BY DEF InferOnly, InferChecked, Checking, InCheck, Engines
  <2> QED BY <2>1, <2>2, <2>3 DEF Next, Looks
<1> QED BY <1>3, <1>4, <1>5, <1>6, <1>7, <1>8, <1>9

LEMMA CourseNext ==
  ASSUME TypeOK, Course, Environments, [Next]_vars
  PROVE  Course'
<1>1. (InCheck => at \in DOMAIN export /\ stage <= LastStage(Decl) /\ Own(Decl) \cap Before(at) = {})'
  <2>1. CASE Quiet
    <3>1. InCheck' => InCheck /\ pc' = pc
      BY <2>1 DEF Quiet, InCheck, Engines
    <3>2. pc' = pc => (Decl' = Decl /\ Before(at)' = Before(at))
      BY <2>1, QuietKeeps
    <3> QED BY <2>1, <3>1, <3>2 DEF Quiet, Course, LastStage, Own
  <2>2. CASE Begins \/ GivesUp \/ AddProbe \/ RollBack
    <3>1. /\ at \in DOMAIN export /\ UNCHANGED <<export, at>>
          /\ (Begins \/ GivesUp) => stage' = 1
          /\ AddProbe => stage' = 2
          /\ RollBack => stage' = 3
      BY <2>2, Enters
    <3>2. Declaration(Decl) /\ LastStage(Decl) \in {1, 2, 3}
      BY <3>1, ExportsAre, LastStages DEF Decl, Declaration
    <3>3. stage' <= LastStage(Decl)
      BY <2>2, <3>1, <3>2, LastStages DEF AddProbe, RollBack
    <3>4. Own(Decl) \cap Before(at) = {}
      <4>1. CASE Begins
        <5>1. pc = "next" /\ Own(Decl) \cap Declared = {}
          BY <4>1 DEF Begins, Begin
        <5>2. Declared = Before(at)
          BY <5>1 DEF Environments, Exact, Base, InCheck, Engines, Declared, DeclaredIn
        <5> QED BY <5>1, <5>2
      <4>2. CASE GivesUp \/ AddProbe \/ RollBack
        BY <4>2 DEF GivesUp, AddProbe, RollBack, Course, InCheck, Engines
      <4> QED BY <2>2, <4>1, <4>2
    <3>5. Decl' = Decl /\ Before(at)' = Before(at)
      BY <3>1 DEF Decl, Before
    <3> QED BY <3>1, <3>3, <3>4, <3>5 DEF LastStage, Own
  <2>3. CASE Accepts \/ Rejects
    <3>1. pc' \in {"next", "over"}
      BY <2>3, AcceptsAre, RejectsAre
    <3> QED BY <3>1 DEF InCheck, Engines
  <2> QED BY <2>1, <2>2, <2>3, Steps
<1>2. (pc = "main" => stage = 1 /\ Decl.kind = "plain")'
  <2>1. CASE Quiet
    BY <2>1 DEF Quiet, Course, Decl
  <2>2. CASE Begins
    BY <2>2 DEF Begins, Begin, Enter, Decl
  <2>3. CASE GivesUp \/ AddProbe \/ RollBack
    BY <2>3 DEF GivesUp, AddProbe, RollBack, Enter
  <2>4. CASE Accepts \/ Rejects
    <3>1. pc' \in {"next", "over"}
      BY <2>4, AcceptsAre, RejectsAre
    <3> QED BY <3>1
  <2> QED BY <2>1, <2>2, <2>3, <2>4, Steps
<1>3. (pc # "scratch" => saved = <<>> /\ facts["scratch"] = {} /\ infer["scratch"] = {})'
  BY ScratchEnds
<1>4. (\A i \in DOMAIN export : verdict[i] = "none" <=> at <= i)'
  <2>1. CASE UNCHANGED <<export, at, verdict>>
    BY <2>1 DEF Course
  <2>2. CASE Accepts \/ Rejects
    <3>1. /\ at \in DOMAIN export /\ at' = at + 1 /\ UNCHANGED export
          /\ \E v \in {"accepted", "rejected"} : verdict' = [verdict EXCEPT ![at] = v]
      BY <2>2, AcceptsAre, RejectsAre
    <3>2. \A i \in DOMAIN export : i \in Nat /\ at \in Nat
      BY ExportsAre DEF TypeOK
    <3>3. ASSUME NEW i \in DOMAIN export PROVE verdict'[i] = "none" <=> at + 1 <= i
      <4>1. CASE i = at
        BY <3>1, <3>2, <4>1 DEF TypeOK
      <4>2. CASE i # at
        BY <3>1, <3>2, <4>2 DEF Course, TypeOK
      <4> QED BY <4>1, <4>2
    <3> QED BY <3>1, <3>3
  <2> QED BY <2>1, <2>2, Steps, Enters DEF Quiet
<1>5. (at <= Len(export) + 1)'
  <2>1. CASE UNCHANGED <<export, at>>
    BY <2>1 DEF Course
  <2>2. CASE Accepts \/ Rejects
    <3>1. at \in DOMAIN export /\ at' = at + 1 /\ UNCHANGED export
      BY <2>2, AcceptsAre, RejectsAre
    <3> QED BY <3>1, ExportsAre
  <2> QED BY <2>1, <2>2, Steps, Enters DEF Quiet
<1> QED BY <1>1, <1>2, <1>3, <1>4, <1>5 DEF Course

LEMMA WithoutLast ==
  ASSUME NEW S, NEW q \in Seq(S), q # <<>>
  PROVE  /\ SubSeq(q, 1, Len(q) - 1) \in Seq(S) /\ Len(q) \in Nat \ {0}
         /\ Len(SubSeq(q, 1, Len(q) - 1)) = Len(q) - 1
         /\ \A i \in 1..(Len(q) - 1) : SubSeq(q, 1, Len(q) - 1)[i] = q[i]
<1> DEFINE f == SubSeq(q, 1, Len(q) - 1)
<1>1. Len(q) \in Nat /\ Len(q) # 0
  OBVIOUS
<1>2. 1 \in Int /\ Len(q) - 1 \in Int /\ \A i \in 1..(Len(q) - 1) : q[i] \in S
  BY <1>1
<1>3. /\ f \in Seq(S) /\ Len(f) = IF 1 <= Len(q) - 1 THEN (Len(q) - 1) - 1 + 1 ELSE 0
      /\ \A i \in 1..((Len(q) - 1) - 1 + 1) : f[i] = q[1 + i - 1]
  BY <1>2, SubSeqProperties
<1> HIDE DEF f
<1>4. Len(f) = Len(q) - 1
  <2>1. \A n \in Nat : n # 0 => (IF 1 <= n - 1 THEN (n - 1) - 1 + 1 ELSE 0) = n - 1
    OBVIOUS
  <2>2. (IF 1 <= Len(q) - 1 THEN (Len(q) - 1) - 1 + 1 ELSE 0) = Len(q) - 1
    BY <1>1, <2>1
  <2> QED BY <1>3, <2>2
<1>5. ASSUME NEW i \in 1..(Len(q) - 1)
      PROVE  f[i] = q[i]
  <2>1. i \in 1..((Len(q) - 1) - 1 + 1) /\ 1 + i - 1 = i
    BY <1>1
  <2> QED BY <1>3, <2>1
<1> QED BY <1>1, <1>3, <1>4, <1>5 DEF f

LEMMA EmptyByLength ==
  ASSUME NEW S, NEW q \in Seq(S)
  PROVE  (q = <<>>) <=> (Len(q) = 0)
OBVIOUS

\* A check resumes in its own scope, however its queries nested.
LEMMA SuspendedNext ==
  ASSUME TypeOK, Course, Environments, Suspended, [Next]_vars
  PROVE  Suspended'
<1> DEFINE own == [params |-> Decl.scope[stage], scope |-> Decl.scope[stage]]
<1>1. InCheck => /\ saved = <<>> => params = own.params /\ scope = own.scope
                 /\ saved # <<>> => saved[1] = own
  BY DEF Suspended
<1>2. CASE Quiet /\ UNCHANGED <<params, scope, saved>>
  <2>1. InCheck' => InCheck /\ pc' = pc
    BY <1>2 DEF Quiet, InCheck, Engines
  <2>2. Decl' = Decl
    BY <1>2 DEF Quiet, Decl
  <2> QED BY <1>1, <1>2, <2>1, <2>2 DEF Suspended, Quiet
<1>3. CASE Query
  <2>1. /\ saved' = Append(saved, [params |-> params, scope |-> scope]) /\ InCheck /\ saved \in Seq(Context)
        /\ UNCHANGED <<pc, stage, export, at>>
    BY <1>3 DEF Query, InCheck, Engines, TypeOK
  <2>2. saved' # <<>>
    BY <2>1
  <2>3. saved = <<>> => saved'[1] = [params |-> params, scope |-> scope]
    BY <2>1
  <2>4. saved # <<>> => saved'[1] = saved[1]
    <3>1. saved # <<>> => 1 \in 1..Len(saved)
      BY <2>1
    <3> QED BY <2>1, <3>1
  <2>5. saved'[1] = own
    BY <1>1, <2>1, <2>3, <2>4
  <2>6. Decl' = Decl /\ stage' = stage
    BY <2>1 DEF Decl
  <2> QED BY <2>2, <2>5, <2>6 DEF Suspended
<1>4. CASE QueryEnds
  <2> DEFINE s == saved[Len(saved)]
  <2>1. /\ saved \in Seq(Context) /\ saved # <<>> /\ params' = s.params /\ scope' = s.scope
        /\ saved' = SubSeq(saved, 1, Len(saved) - 1) /\ UNCHANGED <<pc, stage, export, at>>
    BY <1>4 DEF QueryEnds, Restored, TypeOK
  <2>2. Decl' = Decl /\ stage' = stage /\ InCheck' = InCheck
    BY <2>1 DEF Decl, InCheck
  <2>3. InCheck => saved[1] = own
    BY <1>1, <2>1
  <2>4. Len(saved) \in Nat /\ Len(saved') = Len(saved) - 1 /\ \A i \in 1..(Len(saved) - 1) : saved'[i] = saved[i]
    BY <2>1, WithoutLast
  <2>5. (saved' = <<>> => Len(saved) = 1) /\ (saved' # <<>> => saved'[1] = saved[1])
    <3>1. (saved' = <<>>) <=> (Len(saved') = 0)
      BY <2>1, WithoutLast, EmptyByLength
    <3>2. Len(saved') \in Nat
      BY <2>1, <2>4
    <3> QED BY <2>4, <3>1, <3>2
  <2>6. InCheck /\ saved' = <<>> => params' = own.params /\ scope' = own.scope
    BY <2>1, <2>3, <2>5
  <2>7. InCheck /\ saved' # <<>> => saved'[1] = own
    BY <2>3, <2>5
  <2> HIDE DEF s
  <2> QED BY <2>2, <2>6, <2>7 DEF Suspended
<1>5. CASE Begins \/ GivesUp \/ AddProbe \/ RollBack
  <2>1. saved = <<>>
    BY <1>5 DEF Begins, Begin, GivesUp, AddProbe, RollBack, Course, Finished
  <2>2. saved' = saved /\ params' = Decl.scope[stage'] /\ scope' = Decl.scope[stage'] /\ UNCHANGED <<export, at>>
    BY <1>5, Enters
  <2>3. Decl' = Decl
    BY <2>2 DEF Decl
  <2> QED BY <2>1, <2>2, <2>3 DEF Suspended
<1>6. CASE Accepts \/ Rejects
  <2>1. pc' \in {"next", "over"}
    BY <1>6, AcceptsAre, RejectsAre
  <2> QED BY <2>1 DEF Suspended, InCheck, Engines
<1>7. Quiet => Query \/ QueryEnds \/ UNCHANGED <<params, scope, saved>> \/ Accepts \/ Rejects \/ Begins
  <2> HAVE Quiet
  <2>1. CASE End \/ Restart \/ Terminated \/ UNCHANGED vars
    BY <2>1 DEF End, Restart, Terminated, vars, context
  <2>2. CASE Looks
    BY <2>2 DEF Looks, Look, LookUndeclared, sig_of, context
  <2>3. CASE \E t \in AllTerms : InferOnly(t) \/ InferChecked(t)
    BY <2>3 DEF InferOnly, InferChecked, context
  <2>4. CASE GivesUp \/ AddProbe \/ RollBack
    BY <1>5, <2>4, Enters DEF Quiet, Suspended, GivesUp, AddProbe, RollBack, Enter
  <2>5. CASE Begin \/ AcceptMain \/ AcceptScratch \/ \E t \in AllTerms : RejectScratch(t)
    BY <2>5 DEF Begins, Accepts, Rejects
  <2> QED BY <2>1, <2>2, <2>3, <2>4, <2>5 DEF Next, Looks
<1> QED BY <1>2, <1>3, <1>4, <1>5, <1>6, <1>7, Steps

-------------------------------------------------------------------------------
(* What is kept of earlier checks.                                           *)

\* A constant that has outlived a check keeps its declaration.
LEMMA BaseGrows ==
  ASSUME TypeOK, Course, Environments, [Next]_vars
  PROVE  /\ DeclaredIn(Base) \subseteq DeclaredIn(Base')
         /\ \A n \in DeclaredIn(Base) : Base'[n] = Base[n]
         /\ ~(Accepts \/ Rejects) => Base' = Base
<1> DEFINE Grows == /\ DeclaredIn(Base) \subseteq DeclaredIn(Base')
                    /\ \A n \in DeclaredIn(Base) : Base'[n] = Base[n]
<1>1. CASE Quiet
  <2>1. Base' = Base
    BY <1>1 DEF Quiet, Base, InCheck, Engines
  <2> QED BY <2>1
<1>2. CASE Begins \/ GivesUp \/ AddProbe \/ RollBack
  <2>1. Base' = mark'
    BY <1>2, Enters DEF Base, InCheck
  <2>2. Begins => mark' = env /\ Base = env
    BY Enters DEF Begins, Begin, Base, InCheck, Engines
  <2>3. GivesUp \/ AddProbe \/ RollBack => mark' = mark /\ Base = mark
    BY DEF GivesUp, AddProbe, RollBack, Base, InCheck, Engines
  <2>4. Base' = Base
    BY <1>2, <2>1, <2>2, <2>3
  <2> QED BY <2>4
<1>3. CASE Accepts \/ Rejects
  <2>1. Base' = env'
    <3>1. pc' \in {"next", "over"}
      BY <1>3, AcceptsAre, RejectsAre
    <3> QED BY <3>1 DEF Base, InCheck, Engines
  <2>2. \A n \in DeclaredIn(Base) : env'[n] = Base[n]
    BY <1>3, AcceptedEnvironment, RejectedEnvironment
  <2> HIDE DEF Base
  <2>3. DeclaredIn(Base) \subseteq DeclaredIn(env')
    BY <2>2 DEF DeclaredIn
  <2> QED BY <1>3, <2>1, <2>2, <2>3
<1> QED BY <1>1, <1>2, <1>3, Steps

\* Within a check the constants of the stage join it.
LEMMA ProbeJoins ==
  ASSUME TypeOK, Course, Environments, AddProbe
  PROVE  /\ env = mark /\ Constants(Decl.probe)
         /\ DeclaredIn(env') = DeclaredIn(env) \cup DOMAIN Decl.probe
         /\ \A n \in DeclaredIn(env) : env'[n] = env[n]
         /\ \A n \in DOMAIN Decl.probe : env'[n] = Decl.probe[n] /\ env[n] = Undeclared
<1>1. at \in DOMAIN export /\ stage = 1 /\ InCheck /\ env' = Added(Decl.probe, env) /\ env = mark
  BY Enters DEF AddProbe, InCheck, Engines, Environments
<1>2. Constants(Decl.probe) /\ env \in [Names -> Known]
  BY <1>1, ExportsAre DEF Declaration, Decl, TypeOK
<1>3. DOMAIN Decl.probe \cap DeclaredIn(env) = {}
  BY <1>1, ProbeNew DEF Environments, Exact, Base, InCheck, Engines, AddProbe
<1>4. /\ DeclaredIn(env') = DeclaredIn(env) \cup DOMAIN Decl.probe
      /\ \A n \in Names : env'[n] = IF n \in DOMAIN Decl.probe THEN Decl.probe[n] ELSE env[n]
  BY <1>1, <1>2, Adding
<1>5. DOMAIN Decl.probe \subseteq Names
  BY <1>2 DEF Constants
<1> QED BY <1>1, <1>2, <1>3, <1>4, <1>5 DEF DeclaredIn

\* A constant is what it is in the end, or what it is declared to be for the check.
LEMMA EnvExtendsBase ==
  ASSUME TypeOK, Course, Environments, NEW n \in Names
  PROVE  \/ env[n] = Base[n]
         \/ Base[n] = Undeclared /\ InCheck /\ n \in DOMAIN Decl.probe /\ env[n] = Decl.probe[n]
         \/ Base[n] = Undeclared /\ InCheck /\ n \in DOMAIN Decl.gives /\ env[n] = Decl.gives[n]
<1>1. CASE ~InCheck
  BY <1>1 DEF Base
<1>2. CASE InCheck
  <2>1. Base = mark /\ at \in DOMAIN export /\ Declaration(Decl) /\ mark \in [Names -> Known]
    BY <1>2, ExportsAre DEF Base, Course, TypeOK, Decl
  <2>2. Constants(Decl.probe) /\ Constants(Decl.gives) /\ DOMAIN Decl.gives \subseteq Own(Decl)
    BY <2>1 DEF Declaration, Own
  <2>3. DeclaredIn(mark) = Before(at)
    BY <1>2, <2>1 DEF Environments, Exact, InCheck, Engines
  <2>4. DOMAIN Decl.probe \cap DeclaredIn(mark) = {} /\ DOMAIN Decl.gives \cap DeclaredIn(mark) = {}
    BY <1>2, <2>2, <2>3, ProbeNew DEF Course
  <2>5. env = mark \/ env = Added(Decl.probe, mark) \/ env = Added(Decl.gives, mark)
    BY <1>2 DEF Environments
  <2> QED BY <1>2, <2>1, <2>2, <2>4, <2>5, Adding DEF DeclaredIn
<1> QED BY <1>1, <1>2

\* What a check adds comes from its declaration.
LEMMA OriginsNext ==
  ASSUME TypeOK, Course, Environments, Origins, [Next]_vars
  PROVE  Origins'
<1>1. UNCHANGED export
  BY Steps, AcceptsAre, RejectsAre, Enters DEF Quiet
<1>2. at \in Nat
  BY DEF TypeOK
<1>3. \A n \in DeclaredIn(Base) :
        Base'[n] = Base[n] /\ \E j \in 1..(at - 1) : n \in Own(export[j]) /\ Base[n] = Final(export[j])[n]
  BY BaseGrows DEF Origins
<1>4. CASE ~(Accepts \/ Rejects)
  <2>1. at' = at /\ Base' = Base
    BY <1>4, Steps, Enters, BaseGrows DEF Quiet
  <2>2. \A n \in DeclaredIn(Base') : \E j \in 1..(at' - 1) : n \in Own(export'[j]) /\ Base'[n] = Final(export'[j])[n]
    <3> HIDE DEF Base
    <3> QED BY <1>1, <1>3, <2>1
  <2> QED BY <2>2 DEF Origins, DeclaredIn, Own, Final, Added
<1>5. CASE Accepts \/ Rejects
  <2>1. at \in DOMAIN export /\ at >= 1 /\ at' = at + 1 /\ Base' = env'
    <3>1. at \in DOMAIN export /\ at' = at + 1 /\ pc' \in {"next", "over"}
      BY <1>5, AcceptsAre, RejectsAre
    <3> QED BY <3>1, ExportsAre DEF Base, InCheck, Engines
  <2>2. ASSUME NEW n \in DeclaredIn(Base'), n \notin DeclaredIn(Base)
        PROVE  n \in Own(Decl) /\ Base'[n] = Final(Decl)[n]
    <3>1. CASE Accepts
      <4>1. /\ DeclaredIn(env') = DeclaredIn(Base) \cup Own(Decl)
            /\ \A m \in Own(Decl) : env'[m] = Final(Decl)[m]
        BY <3>1, AcceptedEnvironment
      <4>2. n \in DeclaredIn(env')
        BY <2>1, <2>2
      <4> HIDE DEF Base
      <4> QED BY <2>1, <2>2, <4>1, <4>2
    <3>2. CASE Rejects
      <4>1. \A m \in Names : env'[m] # Base[m] => m \in Own(Decl) /\ env'[m] = Final(Decl)[m]
        BY <3>2, RejectedEnvironment
      <4> HIDE DEF Base
      <4> QED BY <2>1, <2>2, <4>1 DEF DeclaredIn
    <3> QED BY <1>5, <3>1, <3>2
  <2>3. 1..(at' - 1) = 1..(at - 1) \cup {at}
    BY <1>2, <2>1
  <2>4. \A n \in DeclaredIn(Base') : \E j \in 1..(at' - 1) : n \in Own(export'[j]) /\ Base'[n] = Final(export'[j])[n]
    <3> HIDE DEF Base
    <3>1. ASSUME NEW n \in DeclaredIn(Base')
          PROVE  \E j \in 1..(at - 1) \cup {at} : n \in Own(export[j]) /\ Base'[n] = Final(export[j])[n]
      <4>1. CASE n \in DeclaredIn(Base)
        BY <1>3, <4>1
      <4>2. CASE n \notin DeclaredIn(Base)
        BY <2>2, <4>2 DEF Decl
      <4> QED BY <4>1, <4>2
    <3> QED BY <1>1, <2>3, <3>1
  <2> QED BY <2>4 DEF Origins, DeclaredIn, Own, Final, Added
<1> QED BY <1>4, <1>5

-------------------------------------------------------------------------------
(* The invariant.                                                            *)

LEMMA Starts ==
  ASSUME Init
  PROVE  IInv
<1>1. export \in Exports /\ at = 1 /\ pc = "next" /\ stage = 1 /\ saved = <<>> /\ ~InCheck /\ Base = env
  BY DEF Init, InCheck, Engines, Base
<1>2. TypeOK
  <2>1. Undeclared \in Known
    BY DEF Known
  <2>2. env \in [Names -> Known] /\ mark \in [Names -> Known]
    BY <2>1 DEF Init
  <2>3. /\ facts \in [Engines -> SUBSET Fact] /\ lsubs \in [Engines -> SUBSET Substitution]
        /\ infer \in [Engines -> SUBSET [term: Term, scope: Scopes \cup {"unchecked"}]]
        /\ plist \in [Engines -> [Names -> Lists \cup {"none"}]]
        /\ sig \in [Engines -> [Names -> Rels \cup {"none", "nothing"}]]
    BY DEF Init
  <2>4. verdict \in [DOMAIN export -> {"none", "accepted", "rejected"}]
    BY DEF Init
  <2>5. saved \in Seq(Context)
    BY <1>1
  <2> QED BY <1>1, <2>2, <2>3, <2>4, <2>5 DEF TypeOK, Stages
<1>3. \A i \in DOMAIN export : verdict[i] = "none" /\ i >= 1 /\ i \in Nat
  BY <1>2, ExportsAre DEF Init
<1>4. Course
  BY <1>1, <1>2, <1>3, ExportsAre DEF Course, Init, Engines
<1>5. DeclaredIn(env) = {}
  BY DEF DeclaredIn, Init
<1>6. Environments
  <2>1. Before(1) = {}
    BY DEF Before
  <2> QED BY <1>1, <1>3, <1>5, <2>1 DEF Environments, Exact
<1>7. Suspended /\ Origins
  BY <1>1, <1>5 DEF Suspended, Origins
<1> QED BY <1>2, <1>4, <1>6, <1>7 DEF IInv

\* In every reachable state the environment is that of the declarations so far, with what
\* the stage of a check adds and will take out again, and a check has, or will have back
\* from the queries that suspend it, the parameters and safety of its declaration.
THEOREM Invariance == Spec => []IInv
<1>1. Init => IInv
  BY Starts
<1>2. IInv /\ [Next]_vars => IInv'
  BY TypeNext, CourseNext, EnvironmentsNext, OriginsNext, SuspendedNext DEF IInv
<1> QED BY <1>1, <1>2, PTL DEF Spec

\* Between declarations the environment has what the declarations so far add, as the export
\* has it: what a check declared for itself is gone, however it ended.
THEOREM EnvironmentIsExact == Spec => []EnvExact
<1>1. IInv => EnvExact
  <2> SUFFICES ASSUME IInv, pc = "next"
               PROVE  /\ Declared = Before(at)
                      /\ \A i \in 1..(at - 1) : verdict[i] = "accepted" =>
                           \A n \in Own(export[i]) : env[n] = Final(export[i])[n]
    BY DEF EnvExact
  <2>1. Exact(env)
    BY DEF IInv, Environments, Base, InCheck, Engines
  <2>2. \A i \in 1..(at - 1) : i \in DOMAIN export
    BY ExportsAre DEF IInv, Course, TypeOK
  <2> QED BY <2>1, <2>2 DEF Exact, Declared, DeclaredIn
<1> QED BY <1>1, Invariance, PTL

-------------------------------------------------------------------------------
(* What is remembered by name.                                               *)

\* What a name told when it was made for a check, it tells when it is declared again.
LEMMA NameAgrees ==
  ASSUME NamesAgree, TypeOK, Course, Environments, pc # "over", at \in DOMAIN export,
         NEW n \in Names, Base[n] = Undeclared,
         NEW k \in DOMAIN export, k <= at, n \in DOMAIN export[k].probe
  PROVE  /\ n \in DOMAIN Decl.probe => SameTraits(export[k].probe[n], Decl.probe[n])
         /\ n \in Own(Decl) => SameTraits(export[k].probe[n], Final(Decl)[n])
<1>1. export \in Exports /\ k \in Nat /\ at \in Nat /\ k >= 1
  BY ExportsAre DEF TypeOK
<1>2. CASE k = at
  <2>1. n \in Own(Decl) => SameTraits(export[k].probe[n], Final(Decl)[n])
    BY <1>1, <1>2, SessionsAssumption DEF Decl, SameTraits
  <2> QED BY <1>2, <2>1 DEF Decl, SameTraits
<1>3. CASE k < at
  <2>1. n \notin Before(at)
    <3>1. DeclaredIn(Base) = Before(at)
      BY DEF Environments, Exact
    <3> HIDE DEF Base
    <3> QED BY <3>1 DEF DeclaredIn
  <2>2. n \notin Own(export[k])
    BY <1>1, <1>3, <2>1 DEF Before
  <2>3. n \in DOMAIN export[k].probe \ Own(export[k])
    BY <2>2
  <2>4. /\ n \in DOMAIN Decl.probe => SameTraits(Decl.probe[n], export[k].probe[n])
        /\ n \in Own(Decl) => SameTraits(Final(Decl)[n], export[k].probe[n])
    BY <1>1, <1>3, <2>3 DEF NamesAgree, Decl
  <2> QED BY <2>4 DEF SameTraits
<1> QED BY <1>1, <1>2, <1>3

\* What a constant is declared to be for its check, it tells in the end.
LEMMA ProbeTells ==
  ASSUME TypeOK, at \in DOMAIN export, NEW n \in DOMAIN Decl.probe, n \in Own(Decl)
  PROVE  SameTraits(Decl.probe[n], Final(Decl)[n])
BY SessionsAssumption DEF TypeOK, Decl, SameTraits

LEMMA Traits ==
  \A i, j, k : /\ SameTraits(i, i)
               /\ SameTraits(i, j) => SameTraits(j, i)
               /\ SameTraits(i, j) /\ SameTraits(j, k) => SameTraits(i, k)
BY DEF SameTraits

\* How a step changes what a name is.
LEMMA NameChanges ==
  ASSUME TypeOK, Course, Environments, [Next]_vars, NEW n \in Names, env'[n] # env[n]
  PROVE  /\ at \in DOMAIN export /\ pc # "over"
         /\ \/ env'[n] = Base[n]
            \/ n \in DOMAIN Decl.probe /\ env'[n] = Decl.probe[n] /\ env[n] = Undeclared /\ Base[n] = Undeclared
            \/ n \in Own(Decl) /\ env'[n] = Final(Decl)[n] /\ Base[n] = Undeclared
<1>1. AddProbe \/ RollBack \/ Accepts \/ Rejects
  BY Steps, Enters DEF Quiet
<1>2. at \in DOMAIN export /\ pc # "over"
  BY <1>1, Enters, AcceptsAre, RejectsAre DEF AddProbe, RollBack, InCheck, Engines
<1>3. Declaration(Decl)
  BY <1>2, ExportsAre DEF Decl
<1> USE <1>2, <1>3
<1>4. CASE AddProbe
  <2>1. env = mark /\ Base = mark
    BY <1>4, ProbeJoins DEF AddProbe, Base, InCheck, Engines
  <2>2. n \in DOMAIN Decl.probe => env'[n] = Decl.probe[n] /\ env[n] = Undeclared
    BY <1>4, ProbeJoins
  <2>3. n \notin DOMAIN Decl.probe => env'[n] = env[n]
    <3>1. env' = Added(Decl.probe, env) /\ Constants(Decl.probe) /\ env \in [Names -> Known]
      BY <1>4, Enters, ProbeJoins DEF TypeOK
    <3> QED BY <3>1, Adding
  <2> QED BY <2>1, <2>2, <2>3
<1>5. CASE RollBack
  <2>1. env' = Added(Decl.gives, mark) /\ Base = mark /\ mark \in [Names -> Known]
    BY <1>5, Enters DEF RollBack, Base, InCheck, Engines, TypeOK
  <2>2. Constants(Decl.gives) /\ DOMAIN Decl.gives \subseteq Own(Decl)
    BY DEF Declaration, Own
  <2>3. n \in DOMAIN Decl.gives => env'[n] = Final(Decl)[n]
    BY <2>1, <2>2, Adding, Finals
  <2>4. n \notin DOMAIN Decl.gives => env'[n] = Base[n]
    BY <2>1, <2>2, Adding
  <2>5. n \in DOMAIN Decl.gives => Base[n] = Undeclared
    <3>1. Own(Decl) \cap DeclaredIn(mark) = {}
      BY <1>5, <2>1 DEF RollBack, Course, Environments, Exact, InCheck, Engines
    <3> QED BY <2>1, <2>2, <3>1 DEF DeclaredIn
  <2> QED BY <2>2, <2>3, <2>4, <2>5
<1>6. CASE Accepts
  <2>1. /\ DeclaredIn(env') = DeclaredIn(Base) \cup Own(Decl)
        /\ \A m \in DeclaredIn(Base) : env'[m] = Base[m]
        /\ \A m \in Own(Decl) : env'[m] = Final(Decl)[m]
    BY <1>6, AcceptedEnvironment
  <2> HIDE DEF Base
  <2> QED BY <2>1 DEF DeclaredIn
<1>7. CASE Rejects
  <2>1. /\ \A m \in DeclaredIn(Base) : env'[m] = Base[m]
        /\ \A m \in Names : env'[m] # Base[m] => m \in Own(Decl) /\ env'[m] = Final(Decl)[m]
    BY <1>7, RejectedEnvironment
  <2> HIDE DEF Base
  <2> QED BY <2>1 DEF DeclaredIn
<1> QED BY <1>1, <1>4, <1>5, <1>6, <1>7

\* What a name is told to be stays true, through every declaration of it.
LEMMA ToldKept ==
  ASSUME NamesAgree, TypeOK, Course, Environments, [Next]_vars, NEW n \in Names, NEW i, Told(n, i)
  PROVE  Told(n, i)'
<1> DEFINE Made(k) == \E j \in DOMAIN export : j <= k /\ n \in DOMAIN export[j].probe /\ SameTraits(i, export[j].probe[n])
<1>1. UNCHANGED export /\ at <= at' /\ at \in Nat /\ at' \in Nat
  BY Steps, AcceptsAre, RejectsAre, Enters DEF Quiet, TypeOK
<1>2. IF env[n] # Undeclared THEN SameTraits(i, env[n]) ELSE Made(at)
  BY DEF Told
<1>3. Made(at) => Made(at')
  <2>1. \A j \in DOMAIN export : j \in Nat
    BY ExportsAre
  <2> QED BY <1>1, <2>1
<1>4. IF env'[n] # Undeclared THEN SameTraits(i, env'[n]) ELSE Made(at')
  <2>1. CASE env'[n] = env[n]
    <3> HIDE DEF Made
    <3> QED BY <1>2, <1>3, <2>1
  <2>2. CASE env'[n] # env[n]
    <3>1. /\ at \in DOMAIN export /\ pc # "over"
          /\ \/ env'[n] = Base[n]
             \/ n \in DOMAIN Decl.probe /\ env'[n] = Decl.probe[n] /\ env[n] = Undeclared /\ Base[n] = Undeclared
             \/ n \in Own(Decl) /\ env'[n] = Final(Decl)[n] /\ Base[n] = Undeclared
      BY <2>2, NameChanges
    <3>2. Declaration(Decl) /\ at <= at /\ Decl = export[at]
      BY <3>1, <1>1, ExportsAre DEF Decl
    <3>3. /\ n \in DOMAIN Decl.probe => Decl.probe[n] # Undeclared
          /\ n \in Own(Decl) => Final(Decl)[n] # Undeclared
          /\ n \in DOMAIN Decl.gives => n \in Own(Decl) /\ n \in DOMAIN Decl.probe /\ Decl.gives[n] = Final(Decl)[n]
      <4>1. /\ Constants(Decl.probe) /\ Constants(Final(Decl)) /\ DOMAIN Final(Decl) = Own(Decl)
            /\ \A m \in DOMAIN Decl.gives : Final(Decl)[m] = Decl.gives[m]
        BY <3>2, Finals DEF Declaration
      <4>2. \A f : Constants(f) => \A m \in DOMAIN f : f[m] # Undeclared
        BY UndeclaredIsNoInfo DEF Constants
      <4>3. DOMAIN Decl.gives \subseteq Own(Decl) /\ DOMAIN Decl.gives \subseteq DOMAIN Decl.probe
        BY <3>2 DEF Own, Declaration
      <4> QED BY <4>1, <4>2, <4>3
    <3>4. \/ env[n] = Base[n]
          \/ Base[n] = Undeclared /\ n \in DOMAIN Decl.probe /\ env[n] = Decl.probe[n]
          \/ Base[n] = Undeclared /\ n \in DOMAIN Decl.gives /\ env[n] = Decl.gives[n]
      BY EnvExtendsBase
    <3>5. Base[n] = Undeclared /\ Made(at) =>
            /\ n \in DOMAIN Decl.probe => SameTraits(i, Decl.probe[n])
            /\ n \in Own(Decl) => SameTraits(i, Final(Decl)[n])
      BY <3>1, NameAgrees, Traits
    <3>6. n \in DOMAIN Decl.probe /\ SameTraits(i, Decl.probe[n]) => Made(at)
      BY <3>1, <3>2
    <3>7. n \in DOMAIN Decl.probe /\ n \in Own(Decl) => SameTraits(Decl.probe[n], Final(Decl)[n])
      BY <3>1, ProbeTells
    <3> HIDE DEF Made, Base
    <3>8. CASE env'[n] = Base[n]
      <4>1. Base[n] = Undeclared /\ env[n] # Undeclared
        BY <2>2, <3>3, <3>4, <3>8
      <4>2. SameTraits(i, env[n])
        BY <1>2, <4>1
      <4>3. n \in DOMAIN Decl.probe /\ SameTraits(i, Decl.probe[n])
        BY <3>3, <3>4, <3>7, <3>8, <4>1, <4>2, Traits
      <4> QED BY <1>3, <3>6, <3>8, <4>1, <4>3
    <3>9. CASE n \in DOMAIN Decl.probe /\ env'[n] = Decl.probe[n] /\ env[n] = Undeclared /\ Base[n] = Undeclared
      <4>1. SameTraits(i, Decl.probe[n])
        BY <1>2, <3>5, <3>9
      <4> QED BY <3>3, <3>9, <4>1
    <3>10. CASE n \in Own(Decl) /\ env'[n] = Final(Decl)[n] /\ Base[n] = Undeclared
      <4>1. CASE env[n] = Undeclared
        BY <1>2, <3>3, <3>5, <3>10, <4>1
      <4>2. CASE env[n] # Undeclared
        <5>1. SameTraits(i, env[n])
          BY <1>2, <4>2
        <5>2. SameTraits(env[n], Final(Decl)[n])
          BY <3>3, <3>4, <3>7, <3>10, <4>2, Traits
        <5> QED BY <3>3, <3>10, <5>1, <5>2, Traits
      <4> QED BY <4>1, <4>2
    <3> QED BY <3>1, <3>8, <3>9, <3>10
  <2> QED BY <2>1, <2>2
<1>5. Told(n, i)' <=> IF env'[n] # Undeclared THEN SameTraits(i, env'[n]) ELSE Made(at')
  BY <1>1 DEF Told, SameTraits
<1> QED BY <1>4, <1>5

\* What the session in use has computed from a declaration is from the current one.
LEMMA FactsHere ==
  ASSUME TypeOK, Course, Environments, Facts, InCheck, NEW f \in facts[Engine], f.info # Undeclared
  PROVE  f.info = env[f.name] /\ f.at = f.ls /\ f.name \in Declared /\ f.info \in Info
<1>1. Engine \in Engines /\ (pc = "main" => Engine = "main") /\ (pc # "main" => Engine = "scratch")
  BY DEF Engine, Engines
<1>2. f \in Fact
  BY <1>1 DEF TypeOK
<1>3. f.info = env[f.name]
  <2>1. CASE pc = "main"
    <3>1. env = Base
      BY <2>1 DEF Course, Environments, Base
    <3> QED BY <1>1, <2>1, <3>1 DEF Facts
  <2>2. CASE pc # "main"
    BY <1>1, <2>2 DEF Facts
  <2> QED BY <2>1, <2>2
<1>4. f.at = f.ls
  BY <1>1 DEF Facts
<1> QED BY <1>2, <1>3, <1>4 DEF Fact, Known, Declared

LEMMA SignaturesNext ==
  ASSUME NamesAgree, TypeOK, Course, Environments, Facts, Signatures, [Next]_vars
  PROVE  Signatures'
<1>1. SUFFICES ASSUME NEW e \in Engines, NEW n \in Names, sig'[e][n] \notin {"none", "nothing"}
               PROVE  \E i \in Info : Told(n, i)' /\ sig'[e][n] = i.rel
  BY DEF Signatures
<1>2. CASE sig'[e][n] = sig[e][n]
  <2>1. PICK i \in Info : Told(n, i) /\ sig[e][n] = i.rel
    BY <1>1, <1>2 DEF Signatures
  <2>2. Told(n, i)'
    BY <2>1, ToldKept
  <2> QED BY <1>2, <2>1, <2>2
<1>3. CASE sig'[e][n] # sig[e][n]
  <2>1. \E m \in Names : sig_of(m)
    <3>1. CASE Begin \/ End \/ Query \/ QueryEnds \/ GivesUp \/ AcceptMain \/ AddProbe \/ Terminated \/ UNCHANGED vars
      BY <1>3, <3>1 DEF Begin, End, Query, QueryEnds, GivesUp, AcceptMain, AddProbe, Terminated, vars, caches
    <3>2. CASE Restart \/ RollBack \/ AcceptScratch \/ \E t \in AllTerms : RejectScratch(t)
      BY <1>3, <3>2 DEF Restart, RollBack, AcceptScratch, RejectScratch, start_session
    <3>3. CASE \E m \in Names : \E ls \in Lists : Look(m, ls) \/ LookUndeclared(m, ls)
      BY <1>3, <3>3 DEF Look, LookUndeclared
    <3>4. CASE \E t \in AllTerms : InferOnly(t) \/ InferChecked(t)
      BY <1>3, <3>4 DEF InferOnly, InferChecked
    <3> QED BY <3>1, <3>2, <3>3, <3>4 DEF Next
  <2>2. PICK m \in Names : sig_of(m)
    BY <2>1
  <2>3. PICK b \in {"nothing"} \cup {i.rel : i \in TypesOf(m)} : sig' = [sig EXCEPT ![Engine][m] = b]
    BY <2>2 DEF sig_of
  <2>4. sig \in [Engines -> [Names -> Rels \cup {"none", "nothing"}]] /\ Engine \in Engines
    BY DEF TypeOK, Engine, Engines
  <2>5. m = n /\ sig'[e][n] = b
    BY <1>3, <2>3, <2>4
  <2>6. PICK f \in facts[Engine] : f.name = n /\ f.info # Undeclared /\ b = f.info.rel
    BY <1>1, <2>3, <2>5 DEF TypesOf
  <2>7. f.info = env[n] /\ f.info \in Info /\ InCheck
    BY <2>2, <2>6, FactsHere DEF sig_of
  <2>8. env' = env
    BY <2>2 DEF sig_of
  <2>9. Told(n, f.info)'
    BY <2>6, <2>7, <2>8, Traits DEF Told
  <2> QED BY <2>5, <2>6, <2>7, <2>9
<1> QED BY <1>2, <1>3

\* A step that changes what is remembered of parameters looks a constant up.
LEMMA LookSteps ==
  ASSUME [Next]_vars
  PROVE  \/ plist' = plist /\ (lsubs' = lsubs \/ \E e \in Engines : lsubs' = [lsubs EXCEPT ![e] = {}])
         \/ \E n \in Names : \E ls \in Lists : Look(n, ls)
<1>1. CASE Begin \/ End \/ Query \/ QueryEnds \/ GivesUp \/ AcceptMain \/ AddProbe \/ Terminated \/ UNCHANGED vars
  BY <1>1 DEF Begin, End, Query, QueryEnds, GivesUp, AcceptMain, AddProbe, Terminated, vars, caches
<1>2. CASE Restart \/ RollBack \/ AcceptScratch \/ \E t \in AllTerms : RejectScratch(t)
  BY <1>2 DEF Restart, RollBack, AcceptScratch, RejectScratch, start_session, Engines
<1>3. CASE \E n \in Names : sig_of(n) \/ \E ls \in Lists : LookUndeclared(n, ls)
  BY <1>3 DEF sig_of, LookUndeclared
<1>4. CASE \E t \in AllTerms : InferOnly(t) \/ InferChecked(t)
  BY <1>4 DEF InferOnly, InferChecked
<1> QED BY <1>1, <1>2, <1>3, <1>4 DEF Next

LEMMA ParametersNext ==
  ASSUME NamesAgree, TypeOK, Course, Environments, Parameters, [Next]_vars
  PROVE  Parameters'
<1>1. SUFFICES ASSUME NEW e \in Engines, NEW n \in Names, plist'[e][n] # "none"
               PROVE  \E i \in Info : Told(n, i)' /\ plist'[e][n] = i.params
  BY DEF Parameters
<1>2. CASE plist'[e][n] = plist[e][n]
  <2>1. PICK i \in Info : Told(n, i) /\ plist[e][n] = i.params
    BY <1>1, <1>2 DEF Parameters
  <2>2. Told(n, i)'
    BY <2>1, ToldKept
  <2> QED BY <1>2, <2>1, <2>2
<1>3. CASE plist'[e][n] # plist[e][n]
  <2>1. PICK m \in Names, ls \in Lists : Look(m, ls)
    BY <1>3, LookSteps
  <2>2. plist \in [Engines -> [Names -> Lists \cup {"none"}]] /\ Engine \in Engines
    BY DEF TypeOK, Engine, Engines
  <2>3. plist' = [plist EXCEPT ![Engine] = [plist[Engine] EXCEPT ![m] = plist_of(m)]]
    BY <1>3, <2>1, Looking
  <2>4. e = Engine /\ m = n /\ plist'[e][n] = plist_of(n)
    BY <1>3, <2>2, <2>3
  <2>5. plist_of(n) = env[n].params
    BY <1>3, <2>4 DEF plist_of
  <2>6. env[n] \in Info /\ env[n] # Undeclared /\ env' = env
    BY <2>1, <2>4, Looking, Found, UndeclaredIsNoInfo DEF Quiet
  <2>7. Told(n, env[n])'
    BY <2>6, Traits DEF Told
  <2> QED BY <2>4, <2>5, <2>6, <2>7
<1> QED BY <1>2, <1>3

\* What is found of a constant is what the environment has: levels are put for its own
\* parameters, and it is read at the levels asked for.
LEMMA ReadRight ==
  ASSUME TypeOK, Parameters, Substitutions, NEW n \in Names, NEW ls \in Lists, n \in Declared
  PROVE  /\ plist_of(n) = env[n].params
         /\ lsub_of(n, ls) # NoParams => lsub_of(n, ls) = env[n].params
         /\ ReadAt(n, ls, lsub_of(n, ls)) = ls
<1> DEFINE hits == {s \in lsubs[Engine] : s.pl = plist_of(n) /\ s.vs = ls}
           s0 == CHOOSE s \in hits : TRUE
<1>1. Engine \in Engines /\ env[n] # Undeclared
  BY DEF Engine, Engines, Declared
<1>2. plist_of(n) = env[n].params
  <2>1. CASE plist[Engine][n] = "none"
    BY <2>1 DEF plist_of
  <2>2. CASE plist[Engine][n] # "none"
    <3>1. PICK i \in Info : Told(n, i) /\ plist[Engine][n] = i.params
      BY <1>1, <2>2 DEF Parameters
    <3>2. i.params = env[n].params
      BY <1>1, <3>1 DEF Told, SameTraits
    <3> QED BY <2>2, <3>1, <3>2 DEF plist_of
  <2> QED BY <2>1, <2>2
<1>3. \A s \in hits : s.ps = env[n].params
  BY <1>1, <1>2 DEF Substitutions
<1>4. hits # {} => s0 \in hits
  <2> HIDE DEF hits
  <2> QED OBVIOUS
<1>5. lsub_of(n, ls) = IF env[n].params = NoParams \/ plist_of(n) = ls THEN NoParams
                       ELSE IF hits = {} THEN env[n].params ELSE s0.ps
  BY Zenon DEF lsub_of
<1>6. lsub_of(n, ls) = IF env[n].params = NoParams \/ env[n].params = ls THEN NoParams ELSE env[n].params
  <2> HIDE DEF hits, s0
  <2> QED BY <1>2, <1>3, <1>4, <1>5
<1>7. ReadAt(n, ls, lsub_of(n, ls)) = ls
  BY <1>6 DEF ReadAt
<1> QED BY <1>2, <1>6, <1>7

LEMMA SubstitutionsNext ==
  ASSUME TypeOK, Parameters, Substitutions, [Next]_vars
  PROVE  Substitutions'
<1>1. SUFFICES ASSUME NEW e \in Engines, NEW s \in lsubs'[e], s \notin lsubs[e]
               PROVE  s.ps = s.pl
  BY DEF Substitutions
<1>2. lsubs \in [Engines -> SUBSET Substitution] /\ Engine \in Engines
  BY DEF TypeOK, Engine, Engines
<1>3. PICK n \in Names, ls \in Lists : Look(n, ls)
  BY <1>1, <1>2, LookSteps
<1>4. lsub_of(n, ls) # NoParams /\ lsubs' = [lsubs EXCEPT ![Engine] = lsubs[Engine] \cup {Puts(n, ls)}] /\ n \in Declared
  BY <1>1, <1>3, Looking
<1>5. s = Puts(n, ls)
  BY <1>1, <1>2, <1>4
<1>6. plist_of(n) = lsub_of(n, ls)
  BY <1>4, ReadRight
<1> QED BY <1>5, <1>6 DEF Puts

-------------------------------------------------------------------------------
(* What was computed from constants.                                         *)

\* A step that computes something from a constant.
LEMMA NewFacts ==
  ASSUME TypeOK, Parameters, Substitutions, [Next]_vars,
         NEW e \in Engines, NEW f \in facts'[e], f \notin facts[e]
  PROVE  /\ e = Engine /\ InCheck /\ Quiet /\ pc' = pc
         /\ f.name \in Names /\ f.at = f.ls /\ f.info = env[f.name] /\ <<f.name, f.ls>> \in Met
<1>1. DOMAIN facts = Engines /\ Engine \in Engines
  BY DEF TypeOK, Engine, Engines
<1>2. ASSUME NEW n \in Names, NEW ls \in Lists, Look(n, ls)
      PROVE  /\ e = Engine /\ InCheck /\ Quiet /\ pc' = pc
             /\ f.name \in Names /\ f.at = f.ls /\ f.info = env[f.name] /\ <<f.name, f.ls>> \in Met
  <2>1. /\ facts' = [facts EXCEPT ![Engine] = facts[Engine] \cup {Finds(n, ls)}]
        /\ InCheck /\ <<n, ls>> \in Met /\ n \in Declared /\ Quiet
    BY <1>2, Looking
  <2>2. e = Engine /\ f = Finds(n, ls)
    BY <1>1, <2>1
  <2>3. ReadAt(n, ls, lsub_of(n, ls)) = ls
    BY <2>1, ReadRight
  <2>4. f.name = n /\ f.ls = ls /\ f.info = env[n] /\ f.at = ls
    BY <2>2, <2>3 DEF Finds
  <2>5. pc' = pc
    BY <1>2 DEF Look
  <2> QED BY <2>1, <2>2, <2>4, <2>5
<1>3. ASSUME NEW n \in Names, NEW ls \in Lists, LookUndeclared(n, ls)
      PROVE  /\ e = Engine /\ InCheck /\ Quiet /\ pc' = pc
             /\ f.name \in Names /\ f.at = f.ls /\ f.info = env[f.name] /\ <<f.name, f.ls>> \in Met
  <2>1. /\ facts' = [facts EXCEPT ![Engine] = facts[Engine] \cup {[name |-> n, ls |-> ls, info |-> Undeclared, at |-> ls]}]
        /\ InCheck /\ <<n, ls>> \in Met /\ n \notin Declared /\ pc' = pc
    BY <1>3 DEF LookUndeclared
  <2>2. e = Engine /\ f = [name |-> n, ls |-> ls, info |-> Undeclared, at |-> ls]
    BY <1>1, <2>1
  <2>3. env[n] = Undeclared
    BY <2>1 DEF Declared
  <2> QED BY <1>3, <2>1, <2>2, <2>3 DEF LookUndeclared, Quiet
<1>4. CASE UNCHANGED facts \/ \E d \in Engines : start_session(d)
  BY <1>1, <1>4 DEF start_session
<1>5. CASE Begin \/ End \/ Query \/ QueryEnds \/ GivesUp \/ AcceptMain \/ AddProbe \/ Terminated \/ UNCHANGED vars
  BY <1>4, <1>5 DEF Begin, End, Query, QueryEnds, GivesUp, AcceptMain, AddProbe, Terminated, vars, caches
<1>6. CASE Restart \/ RollBack \/ AcceptScratch \/ \E t \in AllTerms : RejectScratch(t)
  BY <1>4, <1>6 DEF Restart, RollBack, AcceptScratch, RejectScratch, Engines
<1>7. CASE \E n \in Names : sig_of(n)
  BY <1>4, <1>7 DEF sig_of
<1>8. CASE \E t \in AllTerms : InferOnly(t) \/ InferChecked(t)
  BY <1>4, <1>8 DEF InferOnly, InferChecked
<1> QED BY <1>2, <1>3, <1>5, <1>6, <1>7, <1>8 DEF Next

\* What the scratch session has at a step it had before, was just added, or nothing.
LEMMA ScratchFacts ==
  ASSUME TypeOK, Course, [Next]_vars, NEW f \in facts'["scratch"]
  PROVE  /\ pc' = "scratch"
         /\ \/ Quiet
            \/ AddProbe /\ f \in facts["scratch"]
<1>1. pc' = "scratch"
  BY ScratchEnds
<1>2. CASE Begins \/ GivesUp
  <2>1. pc # "scratch" /\ facts' = facts
    BY <1>2 DEF Begins, Begin, GivesUp, caches
  <2> QED BY <2>1 DEF Course
<1>3. CASE AddProbe
  BY <1>1, <1>3 DEF AddProbe, caches
<1>4. CASE RollBack
  BY <1>4 DEF RollBack, start_session, TypeOK, Engines
<1>5. CASE Accepts \/ Rejects
  <2>1. pc' \in {"next", "over"}
    <3>1. CASE Accepts
      BY <3>1 DEF Accepts, AcceptMain, AcceptScratch
    <3>2. CASE Rejects
      BY <3>2, RejectsAre
    <3> QED BY <1>5, <3>1, <3>2
  <2> QED BY <1>1, <2>1
<1> QED BY <1>1, <1>2, <1>3, <1>4, <1>5, Steps

LEMMA FactsNext ==
  ASSUME TypeOK, Course, Environments, Parameters, Substitutions, Facts, [Next]_vars
  PROVE  Facts'
<1>1. facts \in [Engines -> SUBSET Fact] /\ "main" \in Engines /\ "scratch" \in Engines
  BY DEF TypeOK, Engines
<1>2. ASSUME NEW e \in Engines, NEW f \in facts'[e]
      PROVE  f.at = f.ls
  BY <1>2, NewFacts DEF Facts
<1>3. ASSUME NEW f \in facts'["main"], f.info # Undeclared
      PROVE  f.info = Base'[f.name]
  <2>1. \A n \in DeclaredIn(Base) : Base'[n] = Base[n]
    BY BaseGrows
  <2>2. f.name \in Names /\ f.info = Base[f.name]
    <3>1. CASE f \in facts["main"]
      <4>1. f \in Fact
        BY <1>1, <3>1
      <4> QED BY <1>3, <3>1, <4>1 DEF Facts, Fact
    <3>2. CASE f \notin facts["main"]
      <4>1. Engine = "main" /\ InCheck /\ f.name \in Names /\ f.info = env[f.name]
        BY <1>1, <3>2, NewFacts
      <4>2. env = Base
        BY <4>1 DEF Engine, Course, Environments, Base
      <4> QED BY <4>1, <4>2
    <3> QED BY <3>1, <3>2
  <2> HIDE DEF Base
  <2>3. f.name \in DeclaredIn(Base)
    BY <1>3, <2>2 DEF DeclaredIn
  <2> QED BY <2>1, <2>2, <2>3
<1>4. ASSUME NEW f \in facts'["scratch"], f.info # Undeclared
      PROVE  f.info = env'[f.name]
  <2>1. CASE Quiet
    <3>1. env' = env
      BY <2>1 DEF Quiet
    <3>2. CASE f \in facts["scratch"]
      BY <1>4, <3>1, <3>2 DEF Facts
    <3>3. CASE f \notin facts["scratch"]
      BY <1>1, <3>1, <3>3, NewFacts
    <3> QED BY <3>2, <3>3
  <2>2. CASE AddProbe /\ f \in facts["scratch"]
    <3>1. f \in Fact /\ f.info = env[f.name]
      BY <1>1, <1>4, <2>2 DEF Facts
    <3>2. f.name \in DeclaredIn(env)
      BY <1>4, <3>1 DEF Fact, DeclaredIn
    <3> QED BY <2>2, <3>1, <3>2, ProbeJoins
  <2> QED BY <2>1, <2>2, ScratchFacts
<1> QED BY <1>2, <1>3, <1>4 DEF Facts

\* What is met undeclared is met in the value of a constant.
LEMMA MetUndeclared ==
  ASSUME TypeOK, Course, Environments, Facts, InCheck, stage = 1, NEW n, n \notin Declared, NEW ls, <<n, ls>> \in Met
  PROVE  \E m \in DeclaredIn(Base) : n \in Mentions(Base[m])
<1>1. PICK f \in facts[Engine] : <<n, ls>> \in Unfolded(f)
  BY DEF Met
<1>2. PICK c \in f.info.cites : n = c[1]
  BY <1>1 DEF Unfolded
<1>3. f.info # Undeclared
  BY <1>2 DEF Undeclared
<1>4. f.info = env[f.name] /\ f.name \in Declared
  BY <1>3, FactsHere
<1>5. env = Base
  BY DEF Environments, Base
<1>6. n \in Mentions(env[f.name])
  BY <1>2, <1>4 DEF Mentions
<1>7. f.name \in DeclaredIn(env)
  BY <1>4 DEF Declared, DeclaredIn
<1> HIDE DEF Base
<1> QED BY <1>5, <1>6, <1>7

LEMMA CitedFirst ==
  ASSUME TypeOK, Course, Environments, Origins, Facts, InCheck, stage = 1, NEW n, n \notin Declared, NEW ls, <<n, ls>> \in Met
  PROVE  CitedBefore(at, n)
<1>1. PICK m \in DeclaredIn(Base) : n \in Mentions(Base[m])
  BY MetUndeclared
<1>2. PICK j \in 1..(at - 1) : m \in Own(export[j]) /\ Base[m] = Final(export[j])[m]
  BY <1>1 DEF Origins
<1>3. n \in Mentions(Final(export[j])[m])
  BY <1>1, <1>2
<1> QED BY <1>2, <1>3 DEF CitedBefore

LEMMA AtomsNext ==
  ASSUME TypeOK, Course, Environments, Origins, Parameters, Substitutions, Facts, Atoms, [Next]_vars
  PROVE  Atoms'
<1> DEFINE C(n) == CitedBefore(at, n)
<1>1. ASSUME NEW f \in facts'["scratch"], f.info = Undeclared
      PROVE  /\ UNCHANGED <<export, at>>
             /\ stage' = 1 => env'[f.name] = Undeclared /\ C(f.name)
             /\ env'[f.name] # Undeclared => f.name \in DOMAIN Decl.probe /\ C(f.name)
  <2>1. CASE Quiet
    <3>1. env' = env /\ stage' = stage /\ UNCHANGED <<export, at>>
      BY <2>1 DEF Quiet
    <3>2. CASE f \in facts["scratch"]
      BY <1>1, <3>1, <3>2 DEF Atoms
    <3>3. CASE f \notin facts["scratch"]
      <4>1. InCheck /\ <<f.name, f.ls>> \in Met /\ env[f.name] = Undeclared
        BY <1>1, <3>3, NewFacts DEF Engines
      <4>2. f.name \notin Declared
        BY <4>1 DEF Declared
      <4>3. stage = 1 => C(f.name)
        BY <4>1, <4>2, CitedFirst
      <4> QED BY <3>1, <4>1, <4>3
    <3> QED BY <3>2, <3>3
  <2>2. CASE AddProbe /\ f \in facts["scratch"]
    <3>1. stage = 1 /\ stage' = 2 /\ UNCHANGED <<export, at>>
      BY <2>2, Enters
    <3>2. env[f.name] = Undeclared /\ C(f.name)
      BY <1>1, <2>2, <3>1 DEF Atoms
    <3>3. f.name \in Names
      BY <2>2 DEF TypeOK, Engines, Fact
    <3>4. DeclaredIn(env') = DeclaredIn(env) \cup DOMAIN Decl.probe
      BY <2>2, ProbeJoins
    <3>5. env'[f.name] # Undeclared => f.name \in DOMAIN Decl.probe
      BY <3>2, <3>3, <3>4 DEF DeclaredIn
    <3> QED BY <3>1, <3>2, <3>5
  <2> QED BY <2>1, <2>2, ScratchFacts
<1>2. UNCHANGED <<export, at>> => \A n : CitedBefore(at, n)' <=> C(n)
  BY DEF CitedBefore, Own, Final, Added, Mentions
<1>3. UNCHANGED <<export, at>> => Decl' = Decl
  BY DEF Decl
<1> HIDE DEF C
<1> QED BY <1>1, <1>2, <1>3 DEF Atoms
-------------------------------------------------------------------------------
(* Checks.                                                                   *)

\* A check misreads nothing: what it meets is as the environment has it, at the levels it is
\* met at, and the signatures tell nothing else.
LEMMA NothingMisread ==
  ASSUME TypeOK, Course, Environments, Signatures, Facts, InCheck
  PROVE  ~Misread
<1>1. ~\E f \in facts[Engine] :
         <<f.name, f.ls>> \in Met /\ f.info # Undeclared /\ (f.info # env[f.name] \/ f.at # f.ls)
  BY FactsHere
<1>2. ASSUME NEW c \in Met, c[1] \in Declared
      PROVE  sig[Engine][c[1]] \in {"none", "nothing", env[c[1]].rel}
  <2>1. Engine \in Engines /\ c[1] \in Names /\ env[c[1]] # Undeclared
    BY <1>2 DEF Engine, Engines, Declared
  <2>2. CASE sig[Engine][c[1]] \notin {"none", "nothing"}
    <3>1. PICK i \in Info : Told(c[1], i) /\ sig[Engine][c[1]] = i.rel
      BY <2>1, <2>2 DEF Signatures
    <3> QED BY <2>1, <3>1 DEF Told, SameTraits
  <2> QED BY <2>2
<1> QED BY <1>1, <1>2 DEF Misread

\* Atoms of the constants a check adds are met only by a block that an earlier constant
\* mentions.
LEMMA AtomIsPremature ==
  ASSUME TypeOK, Course, Environments, Atoms, pc = "scratch", Atom
  PROVE  Premature(at)
<1>1. PICK f \in facts["scratch"] : f.info = Undeclared /\ env[f.name].kind \notin {"none", "axiom"}
  BY DEF Atom, Engine
<1>2. at \in DOMAIN export /\ Declaration(Decl) /\ InCheck
  BY ExportsAre DEF Course, InCheck, Engines, Decl
<1>3. env[f.name] # Undeclared
  BY <1>1 DEF Undeclared
<1>4. f.name \in DOMAIN Decl.probe /\ CitedBefore(at, f.name) /\ stage # 1
  BY <1>1, <1>3 DEF Atoms
<1>5. Decl.kind = "block"
  <2>1. Decl.kind \in {"plain", "quot", "recursive", "block"}
    BY <1>2 DEF Declaration
  <2>2. stage \in {1, 2, 3} /\ stage <= LastStage(Decl)
    BY <1>2 DEF Course, TypeOK, Stages
  <2>3. Decl.kind # "recursive"
    <3>1. SUFFICES ASSUME Decl.kind = "recursive" PROVE FALSE
      OBVIOUS
    <3>2. stage = 2
      BY <1>4, <2>2, <3>1, LastStages
    <3>3. env = Added(Decl.probe, mark) /\ Constants(Decl.probe) /\ mark \in [Names -> Known]
      BY <1>2, <3>2 DEF Environments, Declaration, TypeOK
    <3>4. f.name \in Names /\ env[f.name] = Decl.probe[f.name]
      <4>1. f.name \in Names
        BY <1>4, <3>3 DEF Constants
      <4> QED BY <1>4, <3>3, <4>1, Adding
    <3>5. Decl.probe[f.name].kind = "axiom"
      BY <1>2, <1>4, <3>1 DEF Declaration
    <3> QED BY <1>1, <3>4, <3>5
  <2> QED BY <1>4, <2>1, <2>2, <2>3, LastStages
<1>6. PICK j \in 1..(at - 1) : \E n \in Own(export[j]) : f.name \in Mentions(Final(export[j])[n])
  BY <1>4 DEF CitedBefore
<1> QED BY <1>4, <1>5, <1>6 DEF Premature, Decl

\* A checked term is right where it is checked: by what is known of it, or by checking it.
LEMMA CheckedIsRight ==
  ASSUME TypeOK, Course, Suspended, Remembered, Entries, Environments, NEW t, InferChecked(t)
  PROVE  /\ t \in Decl.terms[stage] /\ Mentions(t) \subseteq Declared /\ Decl.scope[stage] \in t.scopes
         /\ params = Decl.scope[stage] /\ scope = Decl.scope[stage]
<1>1. /\ InCheck /\ saved = <<>> /\ t \in Decl.terms[stage]
      /\ Hit(t) \/ ((\A c \in t.cites : Typed(c)) /\ (params \in t.scopes \/ Misread))
  BY DEF InferChecked, Checking
<1>2. params = Decl.scope[stage] /\ scope = Decl.scope[stage] /\ scope \in Scopes
  BY <1>1 DEF Suspended, TypeOK
<1>3. CASE (\A c \in t.cites : Typed(c)) /\ (params \in t.scopes \/ Misread)
  <2>1. ~Misread
    BY <1>1, NothingMisread DEF Remembered
  <2>2. ASSUME NEW c \in t.cites PROVE c[1] \in Declared
    <3>1. PICK f \in facts[Engine] : f.name = c[1] /\ f.info # Undeclared
      BY <1>3, <2>2 DEF Typed
    <3> QED BY <1>1, <3>1, FactsHere DEF Remembered
  <2> QED BY <1>1, <1>2, <1>3, <2>1, <2>2 DEF Mentions
<1>4. CASE Hit(t)
  <2> DEFINE x == [term |-> t, scope |-> scope]
  <2>1. x \in infer[Engine] /\ x.term = t /\ x.scope = scope /\ scope # "unchecked"
    BY <1>2, <1>4, SessionsAssumption DEF Hit
  <2>2. Right(x, env)
    <3>1. CASE pc = "main"
      <4>1. env = mark /\ Base = mark
        BY <1>1, <3>1 DEF Course, Environments, Base
      <4> QED BY <2>1, <3>1, <4>1 DEF Entries, Engine
    <3>2. CASE pc # "main"
      BY <2>1, <3>2 DEF Entries, Engine
    <3> QED BY <3>1, <3>2
  <2>3. scope \in t.scopes /\ Mentions(t) \subseteq DeclaredIn(env)
    BY <2>1, <2>2 DEF Right
  <2> QED BY <1>1, <1>2, <2>3 DEF Declared, DeclaredIn
<1> QED BY <1>1, <1>3, <1>4

\* The entries a step adds.
LEMMA NewEntries ==
  ASSUME TypeOK, Course, Suspended, Remembered, Entries, Environments, [Next]_vars,
         NEW e \in Engines, NEW x \in infer'[e], x \notin infer[e]
  PROVE  Right(x, env) /\ e = Engine /\ Quiet /\ pc' = pc /\ InCheck
<1>1. DOMAIN infer = Engines /\ Engine \in Engines
  BY DEF TypeOK, Engine, Engines
<1>2. CASE \E t \in AllTerms : InferOnly(t)
  <2>1. PICK t \in AllTerms : InferOnly(t)
    BY <1>2
  <2>2. infer' = [infer EXCEPT ![Engine] = infer[Engine] \cup {[term |-> t, scope |-> "unchecked"]}]
    BY <2>1 DEF InferOnly
  <2>3. e = Engine /\ x = [term |-> t, scope |-> "unchecked"]
    BY <1>1, <2>2
  <2> QED BY <2>1, <2>3 DEF InferOnly, Right, Quiet
<1>3. CASE \E t \in AllTerms : InferChecked(t)
  <2>1. PICK t \in AllTerms : InferChecked(t)
    BY <1>3
  <2>2. infer' = infer \/ infer' = [infer EXCEPT ![Engine] =
                  {y \in infer[Engine] : y.term # t} \cup {[term |-> t, scope |-> scope]}]
    BY <2>1 DEF InferChecked
  <2>3. e = Engine /\ x = [term |-> t, scope |-> scope]
    BY <1>1, <2>2
  <2>4. Mentions(t) \subseteq Declared /\ scope \in t.scopes
    BY <2>1, CheckedIsRight
  <2>5. Right(x, env)
    BY <2>3, <2>4 DEF Right, Declared, DeclaredIn
  <2>6. Quiet /\ pc' = pc /\ InCheck
    BY <2>1 DEF InferChecked, Checking, Quiet
  <2> QED BY <2>3, <2>5, <2>6
<1>4. CASE UNCHANGED infer \/ \E d \in Engines : start_session(d)
  BY <1>1, <1>4 DEF start_session
<1>5. CASE Begin \/ End \/ Query \/ QueryEnds \/ GivesUp \/ AcceptMain \/ AddProbe \/ Terminated \/ UNCHANGED vars
  BY <1>4, <1>5 DEF Begin, End, Query, QueryEnds, GivesUp, AcceptMain, AddProbe, Terminated, vars, caches
<1>6. CASE Restart \/ RollBack \/ AcceptScratch \/ \E t \in AllTerms : RejectScratch(t)
  BY <1>4, <1>6 DEF Restart, RollBack, AcceptScratch, RejectScratch, Engines
<1>7. CASE Looks
  BY <1>4, <1>7 DEF Looks, Look, LookUndeclared, sig_of
<1> QED BY <1>2, <1>3, <1>5, <1>6, <1>7 DEF Next, Looks

LEMMA EntriesNext ==
  ASSUME TypeOK, Course, Suspended, Remembered, Entries, Environments, [Next]_vars
  PROVE  Entries'
<1>1. ASSUME NEW x \in infer'["main"]
      PROVE  Right(x, Base')
  <2>1. DeclaredIn(Base) \subseteq DeclaredIn(Base')
    BY BaseGrows
  <2>2. Right(x, Base)
    <3>1. CASE x \in infer["main"]
      BY <3>1 DEF Entries
    <3>2. CASE x \notin infer["main"]
      <4>1. Right(x, env) /\ Engine = "main" /\ InCheck
        BY <3>2, NewEntries DEF Engines
      <4>2. pc = "main"
        BY <4>1 DEF Engine
      <4>3. env = mark /\ Base = mark
        BY <4>1, <4>2 DEF Course, Environments, Base
      <4> QED BY <4>1, <4>3
    <3> QED BY <3>1, <3>2
  <2> HIDE DEF Base
  <2> QED BY <2>1, <2>2 DEF Right
<1>2. ASSUME NEW x \in infer'["scratch"]
      PROVE  Right(x, env')
  <2>1. pc' = "scratch"
    BY <1>2, ScratchEnds
  <2>2. CASE Quiet
    <3>1. env' = env
      BY <2>2 DEF Quiet
    <3>2. CASE x \in infer["scratch"]
      BY <3>1, <3>2 DEF Entries
    <3>3. CASE x \notin infer["scratch"]
      BY <3>1, <3>3, NewEntries DEF Engines
    <3> QED BY <3>2, <3>3
  <2>3. CASE Begins \/ GivesUp
    <3>1. pc # "scratch" /\ infer' = infer
      BY <2>3 DEF Begins, Begin, GivesUp, caches
    <3> QED BY <1>2, <3>1 DEF Course
  <2>4. CASE AddProbe
    <3>1. x \in infer["scratch"] /\ DeclaredIn(env) \subseteq DeclaredIn(env')
      BY <1>2, <2>4, ProbeJoins DEF AddProbe, caches
    <3>2. Right(x, env)
      BY <3>1 DEF Entries
    <3> QED BY <3>1, <3>2 DEF Right
  <2>5. CASE RollBack
    BY <1>2, <2>5 DEF RollBack, start_session, TypeOK, Engines
  <2>6. CASE Accepts \/ Rejects
    <3>1. pc' \in {"next", "over"}
      BY <2>6, AcceptsAre, RejectsAre
    <3> QED BY <2>1, <3>1
  <2> QED BY <2>2, <2>3, <2>4, <2>5, <2>6, Steps
<1>3. (\A x \in infer["main"] : Right(x, Base))'
  <2>1. \A x \in infer'["main"] : x.scope # "unchecked" =>
           x.scope \in x.term.scopes /\ Mentions(x.term) \subseteq {n \in Names : Base'[n] # Undeclared}
    BY <1>1 DEF Right, DeclaredIn
  <2> QED BY <2>1 DEF Right, DeclaredIn
<1>4. (\A x \in infer["scratch"] : Right(x, env))'
  <2>1. \A x \in infer'["scratch"] : x.scope # "unchecked" =>
           x.scope \in x.term.scopes /\ Mentions(x.term) \subseteq {n \in Names : env'[n] # Undeclared}
    BY <1>2 DEF Right, DeclaredIn
  <2> QED BY <2>1 DEF Right, DeclaredIn
<1> QED BY <1>3, <1>4 DEF Entries

-------------------------------------------------------------------------------
(* Verdicts.                                                                 *)

LEMMA CheckedSteps ==
  ASSUME [Next]_vars
  PROVE  \/ Quiet /\ checked' = checked
         \/ \E t \in AllTerms : InferChecked(t)
         \/ Begins \/ GivesUp \/ AddProbe \/ RollBack \/ Accepts \/ Rejects
<1>1. CASE Begin \/ GivesUp \/ AddProbe \/ RollBack \/ AcceptMain \/ AcceptScratch
           \/ \E t \in AllTerms : RejectScratch(t)
  BY <1>1 DEF Begins, Accepts, Rejects
<1>2. CASE End \/ Restart \/ Query \/ QueryEnds \/ Terminated \/ UNCHANGED vars
  BY <1>2 DEF End, Restart, Query, QueryEnds, Terminated, vars, Quiet
<1>3. CASE Looks
  BY <1>3 DEF Looks, Look, LookUndeclared, sig_of, Quiet
<1>4. CASE \E t \in AllTerms : InferOnly(t) \/ InferChecked(t)
  BY <1>4 DEF InferOnly, Quiet
<1> QED BY <1>1, <1>2, <1>3, <1>4 DEF Next, Looks

LEMMA PassesKept ==
  ASSUME UNCHANGED export
  PROVE  \A i, k, t : Passes(i, k, t)' <=> Passes(i, k, t)
<1>1. \A i : Before(i)' = Before(i)
  BY DEF Before
<1>2. ASSUME NEW i, NEW k
      PROVE  InView(i, k)' = InView(i, k)
  BY <1>1, <1>2, Zenon DEF InView
<1> QED BY <1>2 DEF Passes

\* A check passes what a checker without caches passes.
LEMMA JudgedNext ==
  ASSUME TypeOK, Course, Suspended, Remembered, Entries, Environments, Judged, [Next]_vars
  PROVE  Judged'
<1>1. SUFFICES ASSUME InCheck', UNCHANGED <<export, at>>
               PROVE  /\ \A t \in checked' : Passes(at, stage', t)
                      /\ \A k \in 1..(stage' - 1) : \A t \in Decl.terms[k] : Passes(at, k, t)
  <2>1. InCheck' => UNCHANGED <<export, at>>
    <3>1. Accepts \/ Rejects => ~InCheck'
      BY AcceptsAre, RejectsAre DEF InCheck, Engines
    <3> QED BY <3>1, Steps, Enters DEF Quiet
  <2>2. ASSUME InCheck', UNCHANGED <<export, at>>,
               \A t \in checked' : Passes(at, stage', t),
               \A k \in 1..(stage' - 1) : \A t \in Decl.terms[k] : Passes(at, k, t)
        PROVE  Judged'
    <3>1. \A k, t : Passes(at, k, t) <=> (Mentions(t) \subseteq InView(at, k)' /\ export[at].scope[k] \in t.scopes)
      BY <2>2, PassesKept DEF Passes
    <3>2. Decl' = Decl
      BY <2>2 DEF Decl
    <3> QED BY <2>2, <3>1, <3>2 DEF Judged, Passes
  <2> QED BY <2>1, <2>2 DEF Judged
<1>2. InCheck => /\ \A t \in checked : Passes(at, stage, t)
                 /\ \A k \in 1..(stage - 1) : \A t \in Decl.terms[k] : Passes(at, k, t)
  BY DEF Judged
<1>3. CASE Quiet /\ checked' = checked
  <2>1. InCheck /\ stage' = stage
    BY <1>1, <1>3 DEF Quiet, InCheck, Engines
  <2> QED BY <1>2, <1>3, <2>1
<1>4. CASE \E t \in AllTerms : InferChecked(t)
  <2>1. PICK t \in AllTerms : InferChecked(t)
    BY <1>4
  <2>2. InCheck /\ stage' = stage /\ checked' = checked \cup {t}
    BY <2>1 DEF InferChecked, Checking
  <2>3. Passes(at, stage, t)
    BY <2>1, <2>2, CheckedIsRight, InViewDeclared DEF Passes, Decl
  <2> QED BY <1>2, <2>2, <2>3
<1>5. CASE Begins \/ GivesUp \/ AddProbe \/ RollBack
  <2>1. /\ checked' = {} /\ (Begins \/ GivesUp) => stage' = 1
        /\ AddProbe => stage' = 2 /\ stage = 1
        /\ RollBack => stage' = 3 /\ stage = 2
    BY <1>5, Enters
  <2>2. CASE Begins \/ GivesUp
    <3>1. checked' = {} /\ stage' = 1
      BY <2>2, Enters
    <3> QED BY <3>1
  <2>3. CASE AddProbe \/ RollBack
    <3>1. InCheck /\ Decl.terms[stage] \subseteq checked
      BY <2>3 DEF AddProbe, RollBack, Finished
    <3>2. stage' = stage + 1 /\ stage \in 1..3 /\ checked' = {}
      BY <2>3, Enters DEF TypeOK, Stages
    <3>3. ASSUME NEW k \in 1..(stage' - 1), NEW t \in Decl.terms[k]
          PROVE  Passes(at, k, t)
      <4>1. k = stage \/ k \in 1..(stage - 1)
        BY <3>2
      <4> QED BY <1>2, <3>1, <3>3, <4>1
    <3> QED BY <3>2, <3>3
  <2> QED BY <1>5, <2>2, <2>3
<1>6. CASE Accepts \/ Rejects
  BY <1>1, <1>6, AcceptsAre, RejectsAre DEF InCheck, Engines
<1> QED BY <1>3, <1>4, <1>5, <1>6, CheckedSteps

-------------------------------------------------------------------------------
(* Verdicts.                                                                 *)

\* The declaration is accepted when a checker without caches accepts it.
LEMMA AcceptedIsFresh ==
  ASSUME TypeOK, Course, Environments, Judged, Accepts
  PROVE  Fresh(at)
<1>1. InCheck /\ at \in DOMAIN export /\ stage = LastStage(Decl) /\ Decl.terms[stage] \subseteq checked
  BY AcceptsAre DEF Finished
<1>2. Own(Decl) \cap Before(at) = {} /\ LastStage(Decl) \in {1, 2, 3}
  BY <1>1, LastStages, ExportsAre DEF Course, Declaration, Decl
<1>3. ASSUME NEW k \in 1..LastStage(Decl), NEW t \in Decl.terms[k]
      PROVE  Passes(at, k, t)
  <2>1. k = stage \/ k \in 1..(stage - 1)
    BY <1>1, <1>2
  <2> QED BY <1>1, <1>3, <2>1 DEF Judged
<1> QED BY <1>2, <1>3 DEF Fresh, Passes, Decl

\* A declaration is rejected when that checker rejects it, or meets atoms of its own block.
LEMMA RejectedIsNotFresh ==
  ASSUME TypeOK, Course, Environments, Suspended, Remembered, Rejects
  PROVE  ~Fresh(at) \/ Premature(at)
<1>1. CASE Begin /\ Own(Decl) \cap Declared # {}
  <2>1. Declared = Before(at)
    BY <1>1 DEF Begin, Environments, Exact, Base, InCheck, Engines, Declared, DeclaredIn
  <2> QED BY <1>1, <2>1 DEF Fresh, Decl
<1>2. CASE \E t \in AllTerms : RejectScratch(t)
  <2>1. PICK t \in AllTerms : RejectScratch(t)
    BY <1>2
  <2>2. /\ pc = "scratch" /\ InCheck /\ saved = <<>> /\ t \in Decl.terms[stage]
        /\ (\E c \in t.cites : c[1] \notin Declared) \/ params \notin t.scopes \/ Misread \/ Atom
    BY <2>1 DEF RejectScratch, Checking
  <2>3. params = Decl.scope[stage] /\ Declared = InView(at, stage)
    BY <2>2, InViewDeclared DEF Suspended
  <2>4. stage \in 1..LastStage(Decl)
    <3>1. at \in DOMAIN export /\ stage <= LastStage(Decl) /\ stage \in 1..3
      BY <2>2 DEF Course, TypeOK, Stages
    <3>2. LastStage(Decl) \in {1, 2, 3}
      BY <3>1, LastStages, ExportsAre DEF Declaration, Decl
    <3> QED BY <3>1, <3>2
  <2>5. ~Misread
    BY <2>2, NothingMisread DEF Remembered
  <2>6. Atom => Premature(at)
    BY <2>2, AtomIsPremature DEF Remembered
  <2>7. ASSUME (\E c \in t.cites : c[1] \notin Declared) \/ params \notin t.scopes
        PROVE  ~Fresh(at)
    <3>1. ~(Mentions(t) \subseteq InView(at, stage) /\ Decl.scope[stage] \in t.scopes)
      BY <2>3, <2>7 DEF Mentions
    <3> QED BY <2>2, <2>4, <3>1 DEF Fresh, Decl
  <2> QED BY <2>2, <2>5, <2>6, <2>7
<1> QED BY <1>1, <1>2 DEF Rejects

LEMMA FreshKept ==
  ASSUME UNCHANGED export
  PROVE  \A i : (Fresh(i)' <=> Fresh(i)) /\ (Premature(i)' <=> Premature(i))
<1>1. \A i : Before(i)' = Before(i)
  BY DEF Before
<1>2. ASSUME NEW i, NEW k
      PROVE  InView(i, k)' = InView(i, k)
  BY <1>1, <1>2, Zenon DEF InView
<1>3. \A d : Own(d)' = Own(d) /\ LastStage(d)' = LastStage(d)
  OBVIOUS
<1>4. \A i : Fresh(i)' <=> Fresh(i)
  BY <1>1, <1>2, <1>3 DEF Fresh, Own, LastStage
<1>5. \A i : Premature(i)' <=> Premature(i)
  BY DEF Premature, Own, Final, Added
<1> QED BY <1>4, <1>5

LEMMA VerdictNext ==
  ASSUME TypeOK, Course, Environments, Suspended, Remembered, Judged, VerdictUncached, [Next]_vars
  PROVE  VerdictUncached'
<1>1. UNCHANGED export
  BY Steps, AcceptsAre, RejectsAre, Enters DEF Quiet
<1>2. ASSUME NEW i \in DOMAIN export
      PROVE  /\ verdict'[i] = "accepted" => Fresh(i)
             /\ verdict'[i] = "rejected" => ~Fresh(i) \/ Premature(i)
  <2>1. CASE verdict' = verdict
    BY <2>1 DEF VerdictUncached
  <2>2. CASE Accepts
    <3>1. verdict' = [verdict EXCEPT ![at] = "accepted"] /\ Fresh(at)
      BY <2>2, AcceptsAre, AcceptedIsFresh
    <3> QED BY <3>1 DEF VerdictUncached, TypeOK
  <2>3. CASE Rejects
    <3>1. verdict' = [verdict EXCEPT ![at] = "rejected"] /\ (~Fresh(at) \/ Premature(at))
      BY <2>3, RejectsAre, RejectedIsNotFresh
    <3> QED BY <3>1 DEF VerdictUncached, TypeOK
  <2> QED BY <2>1, <2>2, <2>3, Steps, Enters DEF Quiet
<1> QED BY <1>1, <1>2, FreshKept DEF VerdictUncached

-------------------------------------------------------------------------------
(* What the caches hold.                                                     *)

LEMMA CurrentNext ==
  ASSUME NamesAgree, IInv, Current, [Next]_vars
  PROVE  Current'
<1>1. /\ TypeOK /\ Course /\ Environments /\ Origins /\ Suspended
      /\ Remembered /\ Entries /\ Judged /\ VerdictUncached
  BY DEF IInv, Current
<1>2. Signatures /\ Parameters /\ Substitutions /\ Facts /\ Atoms
  BY <1>1 DEF Remembered
<1>3. Signatures' /\ Parameters' /\ Substitutions'
  BY <1>1, <1>2, SignaturesNext, ParametersNext, SubstitutionsNext
<1>4. Facts' /\ Atoms'
  BY <1>1, <1>2, FactsNext, AtomsNext
<1>5. Entries' /\ Judged' /\ VerdictUncached'
  BY <1>1, EntriesNext, JudgedNext, VerdictNext
<1> QED BY <1>3, <1>4, <1>5 DEF Current, Remembered

LEMMA StartsCurrent ==
  ASSUME Init
  PROVE  Current
<1>1. IInv /\ ~InCheck
  BY Starts DEF Init, InCheck, Engines
<1>2. Signatures /\ Parameters
  BY DEF Init, Signatures, Parameters
<1>3. Substitutions /\ Facts /\ Atoms /\ Entries
  BY DEF Init, Substitutions, Facts, Atoms, Entries, Engines
<1>4. Judged
  BY <1>1 DEF Judged
<1>5. VerdictUncached
  BY DEF Init, VerdictUncached
<1> QED BY <1>2, <1>3, <1>4, <1>5 DEF Current, Remembered

\* What is remembered from session to session (c_sig, p_plist) and within one (facts, level
\* substitutions, inferred types) is right in every reachable state, if no name made for a
\* check is used for a constant of another relevance or of other universe parameters.
THEOREM CachesAreRight ==
  ASSUME NamesAgree
  PROVE  Spec => []Current
<1>1. Init => Current
  BY StartsCurrent
<1>2. IInv /\ Current /\ [Next]_vars => Current'
  BY CurrentNext
<1> QED BY <1>1, <1>2, Invariance, PTL DEF Spec

\* Whichever session judges a declaration (check_decl), whatever the caches hold of earlier
\* ones, of other scopes, stages and queries, and whatever they tell of names used before,
\* the verdict is the one without caches.  The hypothesis is needed: the run sessions_reuse
\* shows that without it a valid block may be rejected.
THEOREM VerdictsAreUncached ==
  ASSUME NamesAgree
  PROVE  Spec => []VerdictUncached
<1>1. Current => VerdictUncached
  BY DEF Current
<1> QED BY <1>1, CachesAreRight, PTL

\* The relevance signatures agree with the types the constants have (nbe.cpp:1199), though
\* they outlive the sessions, under the same hypothesis.
THEOREM SignaturesAreCurrent ==
  ASSUME NamesAgree
  PROVE  Spec => []SigCurrent
<1>1. Current => SigCurrent
  <2> SUFFICES ASSUME Signatures, NEW e \in Engines, NEW n \in Declared, sig[e][n] \notin {"none", "nothing"}
               PROVE  sig[e][n] = env[n].rel
    BY DEF SigCurrent, Current, Remembered
  <2>1. n \in Names /\ env[n] # Undeclared
    BY DEF Declared
  <2>2. PICK i \in Info : Told(n, i) /\ sig[e][n] = i.rel
    BY <2>1 DEF Signatures
  <2> QED BY <2>1, <2>2 DEF Told, SameTraits
<1> QED BY <1>1, CachesAreRight, PTL

-------------------------------------------------------------------------------
(* Constants met before they are declared.                                   *)

LEMMA RejectedStays ==
  ASSUME TypeOK, Course, Environments, [Next]_vars
  PROVE  /\ SomeRejected => SomeRejected'
         /\ Rejects => SomeRejected'
<1>1. CASE UNCHANGED <<export, verdict>> /\ ~Rejects
  BY <1>1 DEF SomeRejected
<1>2. CASE Accepts \/ Rejects
  <2>1. /\ at \in DOMAIN export /\ verdict[at] = "none" /\ UNCHANGED export
        /\ \E v \in {"accepted", "rejected"} : verdict' = [verdict EXCEPT ![at] = v]
        /\ Rejects => verdict' = [verdict EXCEPT ![at] = "rejected"]
    <3>1. at \in DOMAIN export /\ at <= at
      BY <1>2, AcceptsAre, RejectsAre, ExportsAre
    <3>2. verdict[at] = "none"
      BY <3>1 DEF Course
    <3> QED BY <1>2, <3>1, <3>2, AcceptsAre, RejectsAre
  <2>2. DOMAIN verdict = DOMAIN export
    BY DEF TypeOK
  <2>3. Rejects => verdict'[at] = "rejected"
    BY <2>1, <2>2
  <2>4. \A i \in DOMAIN export : verdict[i] = "rejected" => verdict'[i] = "rejected"
    BY <2>1, <2>2
  <2> QED BY <2>1, <2>3, <2>4 DEF SomeRejected
<1>3. UNCHANGED <<export, verdict>> \/ Accepts \/ Rejects
  BY Steps, Enters DEF Quiet
<1> QED BY <1>1, <1>2, <1>3

\* Until a rejected declaration is kept, what a first stage meets is declared.
LEMMA MetDeclared ==
  ASSUME TypeOK, Course, Environments, Facts, Closed, InCheck, stage = 1, ~SomeRejected,
         NEW n \in Names, NEW ls, <<n, ls>> \in Met
  PROVE  env[n] # Undeclared
<1>1. SUFFICES ASSUME n \notin Declared PROVE FALSE
  BY DEF Declared
<1>2. PICK m \in DeclaredIn(Base) : n \in Mentions(Base[m])
  BY <1>1, MetUndeclared
<1>3. Mentions(Base[m]) \subseteq DeclaredIn(Base)
  BY <1>2 DEF Closed
<1>4. env = Base
  BY DEF Environments, Base
<1> HIDE DEF Base
<1> QED BY <1>1, <1>2, <1>3, <1>4 DEF Declared, DeclaredIn

\* What an accepted declaration adds mentions only what is declared.
LEMMA ValuesClosed ==
  ASSUME ValuesChecked, TypeOK, Course, Environments, Judged, Closed, [Next]_vars
  PROVE  SomeRejected' \/ \A n \in DeclaredIn(Base') : Mentions(Base'[n]) \subseteq DeclaredIn(Base')
<1>1. CASE SomeRejected \/ Rejects
  BY <1>1, RejectedStays
<1>2. CASE ~SomeRejected /\ ~Rejects /\ ~Accepts
  <2>1. Base' = Base
    BY <1>2, BaseGrows
  <2>2. \A n \in DeclaredIn(Base) : Mentions(Base[n]) \subseteq DeclaredIn(Base)
    BY <1>2 DEF Closed
  <2> HIDE DEF Base
  <2> QED BY <2>1, <2>2
<1>3. CASE ~SomeRejected /\ Accepts
  <2>1. /\ InCheck /\ at \in DOMAIN export /\ stage = LastStage(Decl) /\ Decl.terms[stage] \subseteq checked
        /\ pc' = "next" /\ Declaration(Decl)
    BY <1>3, AcceptsAre, ExportsAre DEF Finished, Decl
  <2>2. /\ DeclaredIn(env') = DeclaredIn(Base) \cup Own(Decl)
        /\ \A n \in DeclaredIn(Base) : env'[n] = Base[n]
        /\ \A n \in Own(Decl) : env'[n] = Final(Decl)[n]
    BY <1>3, AcceptedEnvironment
  <2>3. Base' = env'
    BY <2>1 DEF Base, InCheck, Engines
  <2>4. \A n \in DeclaredIn(Base) : Mentions(Base[n]) \subseteq DeclaredIn(Base)
    BY <1>3 DEF Closed
  <2>5. DeclaredIn(Base) = Before(at)
    BY <2>1 DEF Environments, Exact, InCheck, Engines
  <2>6. InView(at, stage) \subseteq Before(at) \cup Own(Decl)
    <3>1. CASE Decl.kind = "recursive"
      BY <2>1, <3>1, LastStages, Views DEF Declaration, Own, Decl
    <3>2. CASE Decl.kind = "block"
      BY <2>1, <3>2, LastStages, Views DEF Own, Decl
    <3>3. CASE Decl.kind \notin {"recursive", "block"}
      BY <2>1, <3>3, LastStages, Views
    <3> QED BY <3>1, <3>2, <3>3
  <2>7. \A t \in Decl.terms[stage] : Mentions(t) \subseteq Before(at) \cup Own(Decl)
    BY <2>1, <2>6 DEF Judged, Passes
  <2>8. \A n \in Own(Decl) : Mentions(Final(Decl)[n]) \subseteq Mentioned(Decl, stage) \cup Own(Decl)
    BY <2>1 DEF ValuesChecked, TypeOK, Decl
  <2>9. \A n \in Own(Decl) : Mentions(Final(Decl)[n]) \subseteq Before(at) \cup Own(Decl)
    <3>1. Mentioned(Decl, stage) \subseteq Before(at) \cup Own(Decl)
      BY <2>7 DEF Mentioned
    <3> QED BY <2>8, <3>1
  <2> HIDE DEF Base
  <2>10. \A n \in DeclaredIn(env') : Mentions(env'[n]) \subseteq DeclaredIn(env')
    BY <2>2, <2>4, <2>5, <2>9
  <2> QED BY <2>3, <2>10
<1> QED BY <1>1, <1>2, <1>3

LEMMA ClosedNext ==
  ASSUME ValuesChecked, TypeOK, Course, Environments, Parameters, Substitutions, Facts, Judged, Closed, [Next]_vars
  PROVE  Closed'
<1>1. (SomeRejected \/ \A n \in DeclaredIn(Base) : Mentions(Base[n]) \subseteq DeclaredIn(Base))'
  <2>1. SomeRejected' \/ \A n \in {m \in Names : Base'[m] # Undeclared} :
                           Mentions(Base'[n]) \subseteq {m \in Names : Base'[m] # Undeclared}
    BY ValuesClosed DEF DeclaredIn
  <2> QED BY <2>1 DEF DeclaredIn, Mentions
<1>2. ASSUME NEW f \in facts'["main"], f.info = Undeclared
      PROVE  SomeRejected'
  <2>1. SomeRejected
    <3>1. CASE f \in facts["main"]
      BY <1>2, <3>1 DEF Closed
    <3>2. CASE f \notin facts["main"]
      <4>1. /\ Engine = "main" /\ InCheck /\ f.name \in Names /\ env[f.name] = Undeclared
            /\ <<f.name, f.ls>> \in Met
        BY <1>2, <3>2, NewFacts DEF Engines
      <4>2. stage = 1
        BY <4>1 DEF Engine, Course
      <4> QED BY <4>1, <4>2, MetDeclared
    <3> QED BY <3>1, <3>2
  <2> QED BY <2>1, RejectedStays
<1>3. ASSUME NEW f \in facts'["scratch"], f.info = Undeclared
      PROVE  SomeRejected' \/ (stage' # 1 /\ env'[f.name] = Undeclared)
  <2>1. CASE Quiet
    <3>1. env' = env /\ stage' = stage
      BY <2>1 DEF Quiet
    <3>2. SomeRejected \/ (stage # 1 /\ env[f.name] = Undeclared)
      <4>1. CASE f \in facts["scratch"]
        BY <1>3, <4>1 DEF Closed
      <4>2. CASE f \notin facts["scratch"]
        <5>1. InCheck /\ f.name \in Names /\ env[f.name] = Undeclared /\ <<f.name, f.ls>> \in Met
          BY <1>3, <4>2, NewFacts DEF Engines
        <5> QED BY <5>1, MetDeclared
      <4> QED BY <4>1, <4>2
    <3> QED BY <3>1, <3>2, RejectedStays
  <2>2. CASE AddProbe /\ f \in facts["scratch"]
    <3>1. stage = 1
      BY <2>2, Enters
    <3> QED BY <1>3, <2>2, <3>1, RejectedStays DEF Closed
  <2> QED BY <2>1, <2>2, ScratchFacts
<1> QED BY <1>1, <1>2, <1>3 DEF Closed

\* No session answers from a declaration that a constant no longer has (nbe.cpp:1791), nor
\* at levels it was not asked for, if names agree and values mention only what was checked:
\* facts about a constant are about what it is now, or date from before it was declared,
\* which a kept rejected declaration allows.
THEOREM SessionsAreCurrent ==
  ASSUME NamesAgree, ValuesChecked
  PROVE  Spec => []SessionCurrent
<1>1. Init => Closed
  <2> SUFFICES ASSUME Init PROVE Closed
    OBVIOUS
  <2>1. Base = env /\ DeclaredIn(env) = {}
    BY DEF Init, Base, InCheck, Engines, DeclaredIn
  <2> QED BY <2>1 DEF Closed, Init, Engines
<1>2. IInv /\ Current /\ Closed /\ [Next]_vars => Closed'
  BY ClosedNext DEF IInv, Current, Remembered
<1>3. IInv /\ Current /\ Closed => SessionCurrent
  <2> SUFFICES ASSUME IInv, Facts, Closed, NEW e \in Engines, NEW f \in facts[e]
               PROVE  (f.info = env[f.name] /\ f.at = f.ls) \/ (f.info = Undeclared /\ SomeRejected)
    BY DEF SessionCurrent, SomeRejected, Current, Remembered
  <2>1. f.at = f.ls /\ f.name \in Names
    BY DEF Facts, IInv, TypeOK, Fact
  <2>2. CASE e = "scratch"
    BY <2>1, <2>2 DEF Facts, Closed
  <2>3. CASE e = "main"
    <3>1. f.info # Undeclared => f.info = Base[f.name]
      BY <2>3 DEF Facts
    <3>2. Base[f.name] # Undeclared => env[f.name] = Base[f.name]
      BY <2>1, EnvExtendsBase DEF IInv
    <3>3. f.info = Undeclared => SomeRejected
      BY <2>3 DEF Closed
    <3> HIDE DEF Base
    <3> QED BY <2>1, <3>1, <3>2, <3>3
  <2> QED BY <2>2, <2>3 DEF Engines
<1> QED BY <1>1, <1>2, <1>3, Invariance, CachesAreRight, PTL DEF Spec
===============================================================================
