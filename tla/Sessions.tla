-------------------------------- MODULE Sessions --------------------------------
(***************************************************************************)
(* The two sessions of the checker (src/src/nbe.cpp check_decl, Engine,    *)
(* Facade; src/src/inductive.cpp add_inductive_decl).                      *)
(*                                                                         *)
(* Most declarations are checked in the main session, whose caches live    *)
(* across declarations.  What the main session gives up, and what needs    *)
(* terms of its own, is checked in the scratch session, which is emptied   *)
(* afterwards.  A declaration may put constants in the environment for the *)
(* time of its check and take them out again: the unsafe axiom a recursive *)
(* definition is for itself, the types - auxiliary ones included - and     *)
(* constructors of an inductive block.                                     *)
(*                                                                         *)
(* What is computed is abstract; what matters is from which declarations   *)
(* of the constants, at which universe levels, and under which universe    *)
(* parameters and safety.  A check reads what its session has computed, so *)
(* its outcome is open where that is not what the environment says now.    *)
(***************************************************************************)
EXTENDS Naturals, Sequences, FiniteSets, TLC

CONSTANTS
  Names,      \* names of constants
  Lists,      \* lists of universe levels, those of constants' own parameters among them
  NoParams,   \* the empty one
  Scopes,     \* universe parameters and safety under which terms are checked
  Rels,       \* what types tell of the relevance of arguments and results
  Exports,    \* the exports considered: sequences of declarations
  KeepGoing,  \* --keep-going
  MaxNest     \* bound: derivations of rules nested in a check (8 in the code)

\* A constant at levels.
Use == Names \X Lists

\* What the environment knows of a constant: its kind, what its type tells of
\* relevance, its universe parameters, the constants its value mentions.
Info == [kind: {"axiom", "def", "induct", "ctor", "rec", "quot"}, rel: Rels, params: Lists, cites: SUBSET Use]
Undeclared == [kind |-> "none", rel |-> "none", params |-> NoParams, cites |-> {}]

\* A term: the constants it mentions, the scopes under which it is well-typed.
Term == [cites: SUBSET Use, scopes: SUBSET Scopes]
Mentions(x) == {c[1] : c \in x.cites}

\* A declaration is checked in up to three stages, each with its terms and its
\* scope.  `probe` is in the environment during the second only, `gives` from
\* the third on, `adds` from the end on.
\*   plain      a definition, theorem, axiom or opaque constant: one stage
\*   quot       a quotient constant: one stage
\*   recursive  an unsafe or partial definition: type; value, with itself as an axiom
\*   block      types; constructors, with types, auxiliary types and constructors;
\*              recursors, with the exported types and constructors
Stages == 1..3
Constants(f) == DOMAIN f \subseteq Names /\ f \in [DOMAIN f -> Info]
Declaration(d) ==
  /\ d.kind \in {"plain", "quot", "recursive", "block"}
  /\ d.scope \in [Stages -> Scopes] /\ d.terms \in [Stages -> SUBSET Term]
  /\ Constants(d.probe) /\ Constants(d.gives) /\ Constants(d.adds)
  /\ DOMAIN d.gives \cap DOMAIN d.adds = {}
  /\ DOMAIN d.gives \subseteq DOMAIN d.probe
  /\ d.kind # "block" => DOMAIN d.gives = {}
  /\ d.kind = "recursive" =>
       DOMAIN d.probe \subseteq DOMAIN d.adds /\ \A n \in DOMAIN d.probe : d.probe[n].kind = "axiom"

Own(d) == DOMAIN d.gives \cup DOMAIN d.adds
LastStage(d) == CASE d.kind = "recursive" -> 2 [] d.kind = "block" -> 3 [] OTHER -> 1

\* The environment e with the constants of f added.
Added(f, e) == [n \in DOMAIN f \cup DOMAIN e |-> IF n \in DOMAIN f THEN f[n] ELSE e[n]]

\* The declaration's constants, as the export has them.
Final(d) == Added(d.gives, d.adds)

ASSUME SessionsAssumption ==
  /\ KeepGoing \in BOOLEAN /\ MaxNest \in Nat
  /\ "none" \notin Rels /\ "nothing" \notin Rels /\ "unchecked" \notin Scopes
  /\ NoParams \in Lists /\ "none" \notin Lists
  /\ \A x \in Exports : x \in Seq({x[i] : i \in DOMAIN x}) /\ \A i \in DOMAIN x :
       /\ Declaration(x[i])
       \* what is declared for the check has the relevance and the parameters it has in the end
       /\ \A n \in DOMAIN x[i].probe \cap Own(x[i]) :
            x[i].probe[n].rel = Final(x[i])[n].rel /\ x[i].probe[n].params = Final(x[i])[n].params
       \* a name made for the check (inductive.cpp:72 unique_name) is not taken
       /\ \A j \in 1..(i - 1) : (DOMAIN x[i].probe \ Own(x[i])) \cap Own(x[j]) = {}

Engines == {"main", "scratch"}

VARIABLES
  export, at,     \* the export (never changes), the declaration
  pc,             \* next, main, scratch, over
  stage, checked, \* of the check: its stage, the terms it has checked
  env, mark,      \* the environment, and what it is rolled back to
  facts,          \* session caches: something computed for a use, from what at which levels
  lsubs,          \* session cache c_lsub: level substitutions, by parameters and levels
  infer,          \* session cache: inferred types, each with the scope it was checked in
  plist,          \* p_plist, parameters of constants by name: outlives sessions
  sig,            \* relevance signatures: outlive sessions
  params, scope,  \* of the engine in use: its parameters and safety, and their number
  saved,          \* those of the checks suspended by a query of the term-level interface
  verdict         \* history

caches == <<facts, lsubs, infer, plist, sig>>
context == <<params, scope, saved>>
vars == <<export, at, pc, stage, checked, env, mark, caches, context, verdict>>

Decl == export[at]
Declared == {n \in Names : env[n] # Undeclared}
Engine == IF pc = "main" THEN "main" ELSE "scratch"
InCheck == pc \in Engines

Init ==
  /\ export \in Exports /\ at = 1 /\ pc = "next"
  /\ stage = 1 /\ checked = {}
  /\ env = [n \in Names |-> Undeclared] /\ mark = env
  /\ facts = [e \in Engines |-> {}] /\ lsubs = facts /\ infer = facts
  /\ sig = [e \in Engines |-> [n \in Names |-> "none"]] /\ plist = sig
  /\ params = "unset" /\ scope = "unset" /\ saved = <<>>
  /\ verdict = [i \in DOMAIN export |-> "none"]
-------------------------------------------------------------------------------
(* Environment and sessions.                                                 *)

\* The parameters of constants and the signatures stay.
start_session(e) ==
  /\ facts' = [facts EXCEPT ![e] = {}]
  /\ lsubs' = [lsubs EXCEPT ![e] = {}]
  /\ infer' = [infer EXCEPT ![e] = {}]
  /\ UNCHANGED <<plist, sig>>

\* Both fields are set together, when a check or a query begins.
SetScope(s) == params' = s /\ scope' = s

Enter(p, k) ==
  /\ pc' = p /\ stage' = k /\ checked' = {}
  /\ SetScope(Decl.scope[k])

\* A declaration is judged: on to the next one.
Judge(v) == verdict' = [verdict EXCEPT ![at] = v] /\ at' = at + 1

\* Slip: what the check put in the environment stays.
RejectWithoutRollback(m) ==
  /\ Judge("rejected")
  /\ pc' = IF KeepGoing THEN "next" ELSE "over"
  /\ env' = IF KeepGoing THEN Added(env, Final(Decl)) ELSE env

\* A KernelError: the environment is rolled back to m, and with --keep-going the constants
\* of the declaration it does not have are added as the export has them.
Reject(m) ==
  /\ Judge("rejected")
  /\ pc' = IF KeepGoing THEN "next" ELSE "over"
  /\ env' = [n \in Names |->
               IF KeepGoing /\ n \in Own(Decl) /\ m[n] = Undeclared
                 THEN Final(Decl)[n] ELSE m[n]]

\* check_decl: a name that is taken is refused, the rest is sent to a session.
Begin ==
  /\ pc = "next" /\ at <= Len(export)
  /\ mark' = env
  /\ IF Own(Decl) \cap Declared # {}
       THEN Reject(env) /\ UNCHANGED <<stage, checked, params, scope>>
       ELSE /\ Enter(IF Decl.kind = "plain" THEN "main" ELSE "scratch", 1)
            /\ UNCHANGED <<at, verdict, env>>
  /\ UNCHANGED <<export, caches, saved>>

End == pc = "next" /\ at > Len(export) /\ pc' = "over"
       /\ UNCHANGED <<export, at, stage, checked, env, mark, caches, context, verdict>>

\* nbe_between_decls: a main session that has grown starts over.
Restart ==
  /\ pc = "next" /\ start_session("main")
  /\ UNCHANGED <<export, at, pc, stage, checked, env, mark, context, verdict>>
-------------------------------------------------------------------------------
(* What a session does with constants and terms.                             *)

\* A value's parameters are read at the levels the value was computed for.
Unfolded(f) == {<<c[1], IF c[2] = f.info.params THEN f.at ELSE c[2]>> : c \in f.info.cites}

\* The constants whose values a check meets: those the terms mention, which inference
\* has found declared; those unfolding leads to; and the recursors, which the
\* rules name before they are added.
Met ==
  {c \in UNION {t.cites : t \in Decl.terms[stage]} : c[1] \in Declared}
    \cup UNION {Unfolded(f) : f \in facts[Engine]}
    \cup (IF stage = 3 THEN {<<n, Decl.adds[n].params>> : n \in DOMAIN Decl.adds} ELSE {})

\* The parameters of the constant n, found once.
plist_of(n) == IF plist[Engine][n] = "none" THEN env[n].params ELSE plist[Engine][n]

\* Slip: substitutions are told apart by the levels alone.
SubstitutionByLevels(n, ls) ==
  IF env[n].params = NoParams \/ plist_of(n) = ls THEN NoParams
  ELSE LET hits == {s \in lsubs[Engine] : s.vs = ls}
       IN IF hits = {} THEN env[n].params ELSE (CHOOSE s \in hits : TRUE).ps

\* The parameters that ls is put for in the constant n (none if ls is them): those of the
\* constant that pair of lists was first met for.
lsub_of(n, ls) ==
  IF env[n].params = NoParams \/ plist_of(n) = ls THEN NoParams
  ELSE LET hits == {s \in lsubs[Engine] : s.pl = plist_of(n) /\ s.vs = ls}
       IN IF hits = {} THEN env[n].params ELSE (CHOOSE s \in hits : TRUE).ps

\* The levels the constant is read at when ls is put for ps: parameters not in ps stay.
ReadAt(n, ls, ps) == IF ps = env[n].params THEN ls ELSE env[n].params

\* Evaluation, unfolding, typing (eval_inst): something is computed from a declared constant
\* and kept.
Look(n, ls) ==
  LET ps == lsub_of(n, ls)
  IN /\ InCheck /\ <<n, ls>> \in Met /\ n \in Declared
     /\ facts' = [facts EXCEPT ![Engine] =
          @ \cup {[name |-> n, ls |-> ls, info |-> env[n], at |-> ReadAt(n, ls, ps)]}]
     /\ plist' = IF env[n].params = NoParams THEN plist ELSE [plist EXCEPT ![Engine][n] = plist_of(n)]
     /\ lsubs' = IF ps = NoParams THEN lsubs
                 ELSE [lsubs EXCEPT ![Engine] = @ \cup {[pl |-> plist_of(n), vs |-> ls, ps |-> ps]}]
     /\ UNCHANGED <<export, at, pc, stage, checked, env, mark, infer, sig, context, verdict>>

\* For an undeclared one const_head keeps no atom, but values that contain it are kept.
LookUndeclared(n, ls) ==
  /\ InCheck /\ <<n, ls>> \in Met /\ n \notin Declared
  /\ facts' = [facts EXCEPT ![Engine] = @ \cup {[name |-> n, ls |-> ls, info |-> Undeclared, at |-> ls]}]
  /\ UNCHANGED <<export, at, pc, stage, checked, env, mark, lsubs, infer, plist, sig, context, verdict>>

\* What a session has from the declarations of the constant n.
TypesOf(n) == {f.info : f \in {g \in facts[Engine] : g.name = n /\ g.info # Undeclared}}

\* Slip: a constant that cannot be typed is taken for one without proof arguments.
SigOfUndeclared(n) ==
  /\ InCheck /\ n \in Mentions([cites |-> Met]) /\ sig[Engine][n] = "none"
  /\ \E b \in Rels :
       /\ n \in Declared => b = env[n].rel
       /\ sig' = [sig EXCEPT ![Engine][n] = b]
  /\ UNCHANGED <<export, at, pc, stage, checked, env, mark, facts, lsubs, infer, plist, context, verdict>>

\* The signature of a constant is computed once, from its type; a failure on the way (it is
\* undeclared, the budget runs out) leaves one that tells nothing.  (It is kept for the
\* constant at levels; the levels a type's relevance depends on are not told apart here.)
sig_of(n) ==
  /\ InCheck /\ n \in Mentions([cites |-> Met]) /\ sig[Engine][n] = "none"
  /\ \E b \in {"nothing"} \cup {i.rel : i \in TypesOf(n)} : sig' = [sig EXCEPT ![Engine][n] = b]
  /\ UNCHANGED <<export, at, pc, stage, checked, env, mark, facts, lsubs, infer, plist, context, verdict>>

\* The types of the constants in a term: const_type has an answer for each.
Typed(c) == \E f \in facts[Engine] : f.name = c[1] /\ f.ls = c[2] /\ f.info # Undeclared

\* A type inferred without checking is kept unless there is an entry.
InferOnly(t) ==
  /\ InCheck /\ \A c \in t.cites : Typed(c)
  /\ ~\E x \in infer[Engine] : x.term = t
  /\ infer' = [infer EXCEPT ![Engine] = @ \cup {[term |-> t, scope |-> "unchecked"]}]
  /\ UNCHANGED <<export, at, pc, stage, checked, env, mark, facts, lsubs, plist, sig, context, verdict>>

\* Something the check meets is not as the environment has it now: another declaration of a
\* constant, other levels, a signature (conv skips arguments it says are proofs).
Misread ==
  \/ \E f \in facts[Engine] :
       <<f.name, f.ls>> \in Met /\ f.info # Undeclared /\ (f.info # env[f.name] \/ f.at # f.ls)
  \/ \E c \in Met : c[1] \in Declared /\ sig[Engine][c[1]] \notin {"none", "nothing", env[c[1]].rel}

\* Or it is an atom made when the constant was undeclared: its head is of another kind
\* (head_kind: like an axiom's) and equals only itself.
Atom == \E f \in facts[Engine] :
          <<f.name, f.ls>> \in Met /\ f.info = Undeclared /\ env[f.name].kind \notin {"none", "axiom"}

\* Slip: any inferred type will do, whatever it was checked for.
AnyEntryHits(t) == \E x \in infer[Engine] : x.term = t

\* A term checked before is not checked again, if it was checked in this scope.
Hit(t) == [term |-> t, scope |-> scope] \in infer[Engine]

\* The check itself is suspended while a query is answered, and queries of rule
\* derivations check nothing.
Checking(t) == InCheck /\ saved = <<>> /\ t \in Decl.terms[stage] \ checked

\* A check that goes through, rightly or because it misreads a constant.
InferChecked(t) ==
  /\ Checking(t)
  /\ Hit(t) \/ ((\A c \in t.cites : Typed(c)) /\ (params \in t.scopes \/ Misread))
  /\ checked' = checked \cup {t}
  /\ infer' = IF Hit(t) THEN infer
              ELSE [infer EXCEPT ![Engine] =
                      {x \in @ : x.term # t} \cup {[term |-> t, scope |-> scope]}]
  /\ UNCHANGED <<export, at, pc, stage, env, mark, facts, lsubs, plist, sig, context, verdict>>

\* A query of the term-level interface in the middle of a check: the lazy machine asks
\* for the fixpoint rule of a definition, whose derivation has parameters of its own.
Query ==
  /\ pc = "scratch" /\ Decl.kind \in {"plain", "recursive"} /\ Len(saved) < MaxNest
  /\ saved' = Append(saved, [params |-> params, scope |-> scope])
  /\ \E s \in Scopes : SetScope(s)
  /\ UNCHANGED <<export, at, pc, stage, checked, env, mark, caches, verdict>>

Restored == LET s == saved[Len(saved)]
            IN /\ params' = s.params /\ scope' = s.scope
               /\ saved' = SubSeq(saved, 1, Len(saved) - 1)

QueryEnds ==
  /\ saved # <<>> /\ Restored
  /\ UNCHANGED <<export, at, pc, stage, checked, env, mark, caches, verdict>>
-------------------------------------------------------------------------------
(* The course of a check.                                                    *)

Finished == InCheck /\ saved = <<>> /\ Decl.terms[stage] \subseteq checked

\* The main session gives up: a check fails, or its step or memory budget runs out.
\* The scratch session begins anew.
GivesUp ==
  /\ pc = "main"
  /\ Enter("scratch", 1)
  /\ UNCHANGED <<export, at, env, mark, caches, saved, verdict>>

AcceptMain ==
  /\ pc = "main" /\ Finished
  /\ env' = Added(Decl.adds, env)
  /\ Judge("accepted") /\ pc' = "next"
  /\ UNCHANGED <<export, stage, checked, mark, caches, context>>

\* The constants of the check are declared.
AddProbe ==
  /\ pc = "scratch" /\ stage = 1 /\ LastStage(Decl) > 1 /\ Finished
  /\ env' = Added(Decl.probe, env)
  /\ Enter("scratch", 2)
  /\ UNCHANGED <<export, at, mark, caches, saved, verdict>>

\* Slip: the scratch session is not told.
RollBackSilently ==
  /\ pc = "scratch" /\ Decl.kind = "block" /\ stage = 2 /\ Finished
  /\ env' = Added(Decl.gives, mark)
  /\ Enter("scratch", 3)
  /\ UNCHANGED <<export, at, mark, caches, saved, verdict>>

\* A block's types and constructors are replaced by the exported ones, and
\* kernel_env_rolled_back starts the scratch session over.
RollBack ==
  /\ pc = "scratch" /\ Decl.kind = "block" /\ stage = 2 /\ Finished
  /\ env' = Added(Decl.gives, mark)
  /\ start_session("scratch")
  /\ Enter("scratch", 3)
  /\ UNCHANGED <<export, at, mark, saved, verdict>>

\* The last stage is over: constants added for the check alone go, the declaration's
\* are added; either way the scratch session ends empty.
AcceptScratch ==
  /\ pc = "scratch" /\ stage = LastStage(Decl) /\ Finished
  /\ env' = Added(Decl.adds, IF Decl.kind = "block" THEN env ELSE mark)
  /\ Judge("accepted") /\ pc' = "next"
  /\ start_session("scratch")
  /\ UNCHANGED <<export, stage, checked, mark, context>>

\* A check fails: a constant is unknown, the term is ill-typed, or something is misread.
RejectScratch(t) ==
  /\ pc = "scratch" /\ Checking(t) /\ ~Hit(t)
  /\ \/ \E c \in t.cites : c[1] \notin Declared /\ ~Typed(c)
     \/ params \notin t.scopes
     \/ Misread \/ Atom
  /\ Reject(mark)
  /\ start_session("scratch")
  /\ UNCHANGED <<export, stage, checked, mark, context>>

Terminated == pc = "over" /\ UNCHANGED vars

AllTerms == UNION {UNION {export[i].terms[k] : k \in Stages} : i \in DOMAIN export}

Next ==
  \/ Begin \/ End \/ Restart
  \/ \E n \in Names : sig_of(n) \/ \E ls \in Lists : Look(n, ls) \/ LookUndeclared(n, ls)
  \/ \E t \in AllTerms : InferOnly(t) \/ InferChecked(t) \/ RejectScratch(t)
  \/ Query \/ QueryEnds
  \/ GivesUp \/ AcceptMain \/ AddProbe \/ RollBack \/ AcceptScratch
  \/ Terminated

Spec == Init /\ [][Next]_vars
-------------------------------------------------------------------------------
\* No session answers from a declaration a constant no longer has (nbe.cpp:1791 "the
\* scratch session may hold values of them, so it starts over"), nor at levels it was not
\* asked for: what is kept for a constant at levels was computed from what the environment
\* has for it now, at those levels, although its parameters are remembered by name
\* from session to session and substitutions are shared by constants with equal
\* parameters - or before it was declared, which happens only once a rejected
\* declaration was kept.
SessionCurrent ==
  \A e \in Engines : \A f \in facts[e] :
    \/ f.info = env[f.name] /\ f.at = f.ls
    \/ f.info = Undeclared /\ \E i \in DOMAIN export : verdict[i] = "rejected"

\* The relevance signatures, which are never dropped, agree with the types the constants
\* have now (nbe.cpp:1199 "Signatures are plain bits keyed by permanent handles, so they
\* outlive sessions").  Violated when two blocks use the name of an auxiliary type
\* for types of different relevance: the name is free again after the rollback.
SigCurrent ==
  \A e \in Engines : \A n \in Declared : sig[e][n] \in {"none", "nothing", env[n].rel}

\* What a checker that remembers nothing would say of declaration i, after the earlier
\* ones have been added.
Before(i) == UNION {Own(export[j]) : j \in 1..(i - 1)}
InView(i, k) ==
  Before(i) \cup CASE k = 2 -> DOMAIN export[i].probe
                   [] k = 3 -> DOMAIN export[i].gives
                   [] OTHER -> {}
Fresh(i) ==
  LET d == export[i]
  IN /\ Own(d) \cap Before(i) = {}
     /\ \A k \in 1..LastStage(d) : \A t \in d.terms[k] :
          Mentions(t) \subseteq InView(i, k) /\ d.scope[k] \in t.scopes

\* A constant kept from an earlier declaration mentions a type or constructor of block i.
Premature(i) ==
  /\ export[i].kind = "block"
  /\ \E j \in 1..(i - 1) : \E n \in Own(export[j]) :
       Mentions(Final(export[j])[n]) \cap DOMAIN export[i].probe # {}

\* "Either way it is the same checker" (nbe.cpp:1802), and the scratch session "is emptied
\* afterwards": whichever session judges a declaration, and whatever earlier declarations,
\* suspended checks and earlier stages left in it, the verdict is that of a checker without
\* caches.  (A block whose types unfold to the block itself, which takes --keep-going and
\* an export out of order, may be rejected.  The limits of the scratch session, 2^34 steps
\* and a recursion depth of 100000, are taken as not reached.)
VerdictUncached ==
  \A i \in DOMAIN export :
    /\ verdict[i] = "accepted" => Fresh(i)
    /\ verdict[i] = "rejected" => ~Fresh(i) \/ Premature(i)

\* Between declarations the environment has the constants of the declarations so far
\* and nothing else, each as the export has it, whatever stage a check failed in
\* (inductive.cpp:696, nbe.cpp:1849).
EnvExact ==
  pc = "next" =>
    /\ Declared = Before(at)
    /\ \A i \in 1..(at - 1) : verdict[i] = "accepted" =>
         \A n \in Own(export[i]) : env[n] = Final(export[i])[n]
===============================================================================
