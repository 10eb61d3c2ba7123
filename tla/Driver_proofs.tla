---------------------------- MODULE Driver_proofs ----------------------------
(***************************************************************************)
(* Theorems about Driver, for every set of exports and of command lines    *)
(* and every number of workers.                                            *)
(***************************************************************************)
EXTENDS Driver, FiniteSetTheorems, TLAPS

InLoop == {"claim", "test", "check", "stop", "report", "leave"}

\* Where the processes can be: a worker is unborn, in the loop or gone, as its
\* status says; process 0 runs the loop only when there are no workers.
Control ==
  /\ \A p \in Workers :
       /\ pc[p] \in InLoop \cup {"unborn", "gone"}
       /\ pc[p] = "unborn" <=> status[p] = "unborn"
       /\ pc[p] \in InLoop <=> status[p] = "running"
       /\ pc[p] = "unborn" => failed[p] = 0 /\ ok[p] = 0
       /\ pc[p] # "unborn" => p <= opt.jobs /\ check_topological_order
  /\ pc[0] # "gone" <=> status[0] = "running"
  /\ pc[0] \notin {"unborn", "leave"}
  /\ Prebuilt => pc[0] \in {"order", "prebuild", "fork", "wait", "gone"}
  /\ ~Prebuilt => /\ \A p \in Workers : pc[p] = "unborn"
                  /\ pc[0] \notin {"prebuild", "fork", "wait"}
  /\ pc[0] \in {"prebuild", "fork"} => check_topological_order

\* How far the parent is: the workers up to `kid` are forked, then waited for.
Forking ==
  /\ pc[0] \in {"order", "prebuild", "fork"} =>
       /\ kid <= opt.jobs
       /\ \A p \in Workers : pc[p] = "unborn" <=> p > kid
  /\ pc[0] = "wait" =>
       /\ kid \in 1..(opt.jobs + 1)
       /\ \A p \in 1..opt.jobs : pc[p] # "unborn"

\* What the parent knows of the workers it has waited for.
Waited ==
  pc[0] = "wait" \/ (Prebuilt /\ status[0] = "exit0") =>
    /\ \A k \in 1..(kid - 1) :
         /\ k \in Workers => pc[k] = "gone"
         /\ k \in Workers /\ ~died => Exited(status[k])
         /\ k \in Workers /\ tot.failed = 0 => results[k].failed = 0
    /\ status[0] = "exit0" => kid > opt.jobs /\ ~died /\ tot.failed = 0

Taken(i) == IF Prebuilt THEN claim[i] # 0 ELSE verdict[i] = "accepted"
Prefix(n) == \A i \in Decls : i < n /\ Selected(i) => Taken(i)

\* A process that left the loop did so because of a rejection or because it had
\* walked past every selected declaration.
Finished(p) ==
  \/ stop \/ failed[p] > 0 \/ opt.count > 0
  \/ \A i \in Decls : Selected(i) => Taken(i)

\* A process in the loop has seen every selected declaration before its own taken.
ProgressAt(p) ==
  /\ pc[p] \in {"unborn", "order", "prebuild", "fork"} => di[p] = 1
  /\ pc[p] \in {"claim", "test", "check"} => failed[p] > 0 \/ Prefix(di[p])
  /\ pc[p] \in {"test", "check"} =>
       /\ di[p] \in Decls
       /\ Prebuilt /\ InShard(di[p]) => claim[di[p]] # 0
       /\ ~Prebuilt => chk[p] = InShard(di[p])
  /\ pc[p] = "check" => chk[p]
  /\ pc[p] = "stop" => failed[p] > 0 /\ di[p] \in Decls
  /\ pc[p] \in {"report", "leave"} => Finished(p)
Progress == \A p \in Procs : ProgressAt(p)

\* What a process that left by itself has reported.
Left ==
  /\ \A p \in Workers :
       /\ pc[p] = "leave" => results[p].failed = failed[p]
       /\ Exited(status[p]) /\ ~opt.oom => results[p].failed = failed[p] /\ Finished(p)
  /\ ~Prebuilt /\ status[0] = "exit0" => failed[0] = 0 /\ Finished(0)

\* A claimed declaration that is not accepted is in its claimer's hand, or the
\* run has a reason not to answer 0.
InHand ==
  /\ ~Prebuilt => \A i \in Decls : claim[i] = 0
  /\ \A p \in Procs : Prebuilt /\ pc[p] \in {"test", "check"} /\ chk[p] => claim[di[p]] = p
  /\ \A i \in Decls : claim[i] # 0 /\ Selected(i) /\ verdict[i] # "accepted" =>
       \/ pc[claim[i]] \in {"test", "check"} /\ di[claim[i]] = i /\ chk[claim[i]]
       \/ failed[claim[i]] > 0 \/ stop
       \/ status[claim[i]] = "signal" \/ opt.oom

\* The run is only stopped by a worker that rejected.
StopCause == stop => Prebuilt /\ \E p \in Workers : failed[p] > 0

\* Only the process that claimed a declaration begins to check it.
Claimed == \A i \in Decls : \A p \in checkers[i] : IF Prebuilt THEN claim[i] = p /\ p # 0 ELSE p = 0

\* Environments hold names the export introduces: in a worker any of them, in
\* the single process those of the declarations it has passed.
EnvironmentAt(p) ==
  /\ pc[p] = "order" => env[p] = {}
  /\ pc[p] \in {"fork", "claim", "test", "check"} =>
       \A n \in env[p] : Introduced(n, IF Prebuilt THEN Decls ELSE 1..(di[p] - 1))
Environments == \A p \in Procs : EnvironmentAt(p)

IInv ==
  /\ TypeOK /\ Control /\ Forking /\ Waited /\ Progress /\ Left /\ InHand /\ StopCause
  /\ Claimed /\ Environments /\ AcceptedCitesEarlier
-----------------------------------------------------------------------------
(* Type correctness.                                                         *)

\* An export is a finite sequence of declarations.
LEMMA ExportFacts ==
  ASSUME TypeOK
  PROVE  /\ Len(export) \in Nat /\ Decls = 1..Len(export)
         /\ \A i \in Decls : export[i] \in Declaration
  BY DriverAssumption DEF TypeOK, Decls

\* The numbers of processes, and the options that are numbers.
LEMMA ProcFacts ==
  /\ MaxJobs \in Nat \ {0}
  /\ 0 \in Procs /\ Workers \subseteq Procs /\ 0 \notin Workers
  /\ Procs = Workers \cup {0}
  BY DriverAssumption DEF Procs, Workers

LEMMA OptionFacts ==
  ASSUME TypeOK
  PROVE  /\ opt.jobs \in 1..MaxJobs /\ opt.jobs \in Nat
         /\ opt.count \in Nat /\ opt.stop_at \in Nat
<1>1. opt \in Option
  BY DriverAssumption DEF TypeOK
<1>2. opt.jobs \in 1..MaxJobs /\ opt.count \in Nat /\ opt.stop_at \in Nat
  BY <1>1 DEF Option
<1> QED BY <1>2, DriverAssumption

LEMMA InitTypeOK == Init => TypeOK
<1> SUFFICES ASSUME Init PROVE TypeOK
  OBVIOUS
<1> USE ProcFacts DEF Init
<1>1. /\ export \in Exports /\ opt \in Opts
      /\ pc \in [Procs -> Labels] /\ status \in [Procs -> Statuses]
  BY DEF Labels, Statuses
<1>2. /\ di \in [Procs -> Nat \ {0}] /\ chk \in [Procs -> BOOLEAN]
      /\ env \in [Procs -> SUBSET Names]
      /\ ok \in [Procs -> Nat] /\ failed \in [Procs -> Nat]
  OBVIOUS
<1>3. /\ claim \in [Decls -> Procs] /\ stop \in BOOLEAN
      /\ results \in [Workers -> Counters]
      /\ kid \in Nat /\ (pc[0] = "wait" => kid > 0) /\ died \in BOOLEAN /\ tot \in Counters
  BY DEF Counters
<1>5. \A p \in Procs : pc[p] \in {"test", "check"} => di[p] \in Decls
  OBVIOUS
<1>4. /\ verdict \in [Decls -> {"none", "accepted", "rejected"}]
      /\ checkers \in [Decls -> SUBSET Procs]
  OBVIOUS
<1> QED BY <1>1, <1>2, <1>3, <1>4, <1>5 DEF TypeOK

LEMMA ParentTypeOK ==
  ASSUME TypeOK, Parent
  PROVE  TypeOK'
<1>a. opt.jobs \in 1..MaxJobs /\ kid \in Nat /\ MaxJobs \in Nat
  BY OptionFacts, ProcFacts DEF TypeOK
<1>b. kid < opt.jobs => kid + 1 \in Procs /\ kid + 1 # 0
  BY <1>a DEF Procs
<1>c. pc[0] = "wait" /\ kid <= opt.jobs => results[kid] \in Counters
  BY <1>a DEF TypeOK, Workers
<1>d. AllNames \in SUBSET Names
  BY ExportFacts DEF AllNames, Declaration
<1> USE ProcFacts DEF TypeOK, Goto, Exit, loc, par, hist, Labels, Statuses
<1>1. CASE VerifyOrder
  BY <1>1 DEF VerifyOrder, Decls
<1>2. CASE Prebuild
  BY <1>2, <1>d DEF Prebuild, Decls
<1>3. CASE Fork
  BY <1>3, <1>b DEF Fork, Decls
<1>4. CASE ForkFails
  BY <1>4 DEF ForkFails, Decls
<1>5. CASE ForkedAll
  BY <1>5 DEF ForkedAll, Decls
<1>6. CASE Wait
  <2>1. tot' \in Counters
    BY <1>6, <1>c DEF Wait, Counters
  <2> QED BY <1>6, <2>1, <1>a DEF Wait, Decls
<1>7. CASE ParentReturns
  BY <1>7 DEF ParentReturns, Decls
<1> QED BY <1>1, <1>2, <1>3, <1>4, <1>5, <1>6, <1>7 DEF Parent

LEMMA LoopTypeOK ==
  ASSUME TypeOK, NEW p \in Procs, Loop(p) \/ Killed(p)
  PROVE  TypeOK'
<1>a. \A i \in Decls : export[i].names \in SUBSET Names
  BY ExportFacts DEF Declaration
<1>b. di[p] \in Nat \ {0} /\ ok[p] \in Nat /\ failed[p] \in Nat /\ env[p] \in SUBSET Names
  BY DEF TypeOK
<1>c. ASSUME pc[p] \in {"test", "check"}
      PROVE  di[p] \in Decls /\ export[di[p]].names \in SUBSET Names
  BY <1>a, <1>c DEF TypeOK
<1> USE ProcFacts DEF TypeOK, Goto, Exit, loc, par, hist, Labels, Statuses
<1>1. CASE Claim(p)
  <2>1. claim' \in [Decls -> Procs]
    BY <1>1 DEF Claim
  <2>2. chk' \in [Procs -> BOOLEAN]
    BY <1>1 DEF Claim, InShard
  <2> QED BY <1>1, <2>1, <2>2 DEF Claim, Decls
<1>2. CASE LoopEnds(p)
  BY <1>2 DEF LoopEnds, Decls
<1>3. CASE SeesStop(p)
  BY <1>3 DEF SeesStop, Decls
<1>4. CASE BeginsCheck(p)
  <2>1. checkers' \in [Decls -> SUBSET Procs]
    BY <1>4, <1>c DEF BeginsCheck
  <2> QED BY <1>4, <2>1, <1>c DEF BeginsCheck, Decls
<1>5. CASE Skips(p)
  <2>1. /\ env' \in [Procs -> SUBSET Names] /\ ok' = ok /\ failed' \in [Procs -> Nat]
        /\ di' \in [Procs -> Nat \ {0}]
        /\ \E l \in {"claim", "report", "stop"} : pc' = [pc EXCEPT ![p] = l]
    BY <1>5, <1>b, <1>c DEF Skips, Advance, add_unchecked, KernelError
  <2>2. \A q \in Procs : pc'[q] \in {"test", "check"} => di'[q] = di[q] /\ pc'[q] = pc[q]
    BY <1>5 DEF Skips, Advance, add_unchecked, KernelError
  <2> QED BY <1>5, <2>1, <2>2 DEF Skips, Decls
<1>6. CASE Check(p)
  <2>1. /\ env' \in [Procs -> SUBSET Names] /\ ok' \in [Procs -> Nat] /\ failed' \in [Procs -> Nat]
        /\ di' \in [Procs -> Nat \ {0}]
        /\ \E l \in {"claim", "report", "stop"} : pc' = [pc EXCEPT ![p] = l]
    BY <1>6, <1>b, <1>c DEF Check, Advance, KernelError
  <2>2. \A q \in Procs : pc'[q] \in {"test", "check"} => di'[q] = di[q] /\ pc'[q] = pc[q]
    BY <1>6 DEF Check, Advance, KernelError
  <2>3. verdict' \in [Decls -> {"none", "accepted", "rejected"}]
    BY <1>6 DEF Check
  <2> QED BY <1>6, <2>1, <2>2, <2>3 DEF Check, Decls
<1>7. CASE Escape(p)
  BY <1>7 DEF Escape, Decls
<1>8. CASE StoreStop(p)
  BY <1>8 DEF StoreStop, Prebuilt, Decls
<1>9. CASE Report(p)
  BY <1>9 DEF Report, Decls, Counters
<1>10. CASE worker_exit(p)
  BY <1>10 DEF worker_exit, Decls
<1>11. CASE Killed(p)
  BY <1>11 DEF Killed, Decls
<1> QED
  BY <1>1, <1>2, <1>3, <1>4, <1>5, <1>6, <1>7, <1>8, <1>9, <1>10, <1>11 DEF Loop

LEMMA NextTypeOK == TypeOK /\ [Next]_vars => TypeOK'
<1> SUFFICES ASSUME TypeOK, [Next]_vars PROVE TypeOK'
  OBVIOUS
<1>1. CASE UNCHANGED vars
  BY <1>1 DEF vars, loc, par, hist, TypeOK, Decls
<1> QED BY <1>1, ParentTypeOK, LoopTypeOK DEF Next, Terminated

\* Type correctness of the driver, whatever the exports, options and workers.
THEOREM TypeCorrect == Spec => []TypeOK
<1> QED BY InitTypeOK, NextTypeOK, PTL DEF Spec
-----------------------------------------------------------------------------
(* What a step of process p leaves alone.                                    *)

LEMMA LoopFrame ==
  ASSUME TypeOK, NEW p \in Procs, Loop(p) \/ Killed(p)
  PROVE  /\ UNCHANGED <<export, opt, kid, died, tot>>
         /\ \A q \in Procs \ {p} :
              /\ pc'[q] = pc[q] /\ status'[q] = status[q] /\ di'[q] = di[q]
              /\ chk'[q] = chk[q] /\ env'[q] = env[q] /\ failed'[q] = failed[q]
              /\ ok'[q] = ok[q]
         /\ \A q \in Workers \ {p} : results'[q] = results[q]
         /\ failed'[p] >= failed[p]
         /\ \A i \in Decls : claim[i] # 0 => claim'[i] = claim[i]
<1> USE ProcFacts DEF TypeOK, Goto, Exit, loc, par, hist
<1>1. CASE Claim(p)
  BY <1>1 DEF Claim
<1>2. CASE LoopEnds(p) \/ SeesStop(p) \/ BeginsCheck(p)
  BY <1>2 DEF LoopEnds, SeesStop, BeginsCheck
<1>3. CASE Skips(p)
  BY <1>3 DEF Skips, Advance, add_unchecked, KernelError
<1>4. CASE Check(p)
  BY <1>4 DEF Check, Advance, KernelError
<1>5. CASE Escape(p) \/ StoreStop(p) \/ Report(p) \/ worker_exit(p) \/ Killed(p)
  BY <1>5 DEF Escape, StoreStop, Report, worker_exit, Killed
<1> QED BY <1>1, <1>2, <1>3, <1>4, <1>5 DEF Loop

\* Predicates of the input alone keep their value.
LEMMA InputFrame ==
  ASSUME UNCHANGED <<export, opt>>
  PROVE  /\ Decls' = Decls /\ Prebuilt' = Prebuilt
         /\ check_topological_order' = check_topological_order
         /\ \A i \in Decls : InShard(i)' = InShard(i) /\ Selected(i)' = Selected(i)
         /\ \A n, I : Introduced(n, I)' = Introduced(n, I)
  BY DEF Decls, Prebuilt, check_topological_order, Introduced, InShard, Selected

\* Where process p goes, and with which status.
LEMMA LoopMoves ==
  ASSUME TypeOK, NEW p \in Procs, Loop(p) \/ Killed(p)
  PROVE  \/ /\ pc[p] \in InLoop /\ pc'[p] \in InLoop /\ status'[p] = status[p]
            /\ pc[p] # "leave" /\ (pc'[p] = "leave" => p # 0)
         \/ /\ pc'[p] = "gone" /\ status'[p] \in {"exit0", "exit1", "signal"}
            /\ pc[p] \in InLoop \/ (p \in Workers /\ status[p] = "running")
<1> USE ProcFacts DEF TypeOK, Goto, Exit, InLoop
<1>1. CASE Claim(p) \/ LoopEnds(p) \/ SeesStop(p) \/ BeginsCheck(p)
  BY <1>1 DEF Claim, LoopEnds, SeesStop, BeginsCheck
<1>2. CASE Skips(p)
  BY <1>2 DEF Skips, Advance, add_unchecked, KernelError
<1>3. CASE Check(p)
  BY <1>3 DEF Check, Advance, KernelError
<1>4. CASE Escape(p) \/ StoreStop(p)
  BY <1>4 DEF Escape, StoreStop
<1>5. CASE Report(p) \/ worker_exit(p) \/ Killed(p)
  BY <1>5 DEF Report, worker_exit, Killed
<1> QED BY <1>1, <1>2, <1>3, <1>4, <1>5 DEF Loop

LEMMA LoopControl ==
  ASSUME TypeOK, Control, Forking, NEW p \in Procs, Loop(p) \/ Killed(p)
  PROVE  Control' /\ Forking'
<1>1. /\ UNCHANGED <<export, opt, kid>>
      /\ \A q \in Procs \ {p} :
           pc'[q] = pc[q] /\ status'[q] = status[q] /\ failed'[q] = failed[q] /\ ok'[q] = ok[q]
  BY LoopFrame
<1>2. Prebuilt' = Prebuilt /\ check_topological_order' = check_topological_order
  BY <1>1, InputFrame
<1>3. pc[p] \in InLoop /\ (pc'[p] \in InLoop \cup {"gone"})
  BY LoopMoves, ProcFacts DEF Control
<1>4. CASE p = 0
  BY <1>1, <1>2, <1>3, <1>4, LoopMoves, ProcFacts, OptionFacts DEF Control, Forking, InLoop, Workers
<1>5. CASE p \in Workers
  BY <1>1, <1>2, <1>3, <1>5, LoopMoves, ProcFacts, OptionFacts DEF Control, Forking, InLoop, Workers
<1> QED BY <1>4, <1>5, ProcFacts
-----------------------------------------------------------------------------
(* Steps of the parent.                                                      *)

LEMMA ParentFrame ==
  ASSUME TypeOK, Parent
  PROVE  /\ UNCHANGED <<export, opt, di, chk, ok, failed, claim, stop, results, verdict, checkers>>
         /\ pc[0] \in {"order", "prebuild", "fork", "wait"}
         /\ pc'[0] \in {"claim", "prebuild", "fork", "wait", "gone"}
         /\ \A q \in Workers :
              \/ pc'[q] = pc[q] /\ status'[q] = status[q] /\ env'[q] = env[q]
              \/ /\ pc[0] = "fork" /\ q = kid + 1 /\ q <= opt.jobs /\ kid' = kid + 1
                 /\ pc'[q] = "claim" /\ status'[q] = "running" /\ env'[q] = env[0]
<1>1. CASE VerifyOrder \/ ForkFails \/ ForkedAll
  BY <1>1, ProcFacts DEF VerifyOrder, ForkFails, ForkedAll, Goto, Exit, TypeOK, loc, par, hist
<1>2. CASE Prebuild
  BY <1>2, ProcFacts DEF Prebuild, Goto, Exit, TypeOK, loc, par, hist
<1>3. CASE Fork
  <2>0. kid \in Nat /\ opt.jobs \in 1..MaxJobs /\ MaxJobs \in Nat
    BY OptionFacts, ProcFacts DEF TypeOK
  <2>1. kid + 1 \in Procs /\ kid + 1 # 0 /\ kid + 1 <= opt.jobs
    BY <1>3, <2>0 DEF Fork, Procs
  <2> QED BY <1>3, <2>1, ProcFacts DEF Fork, Goto, Exit, TypeOK, loc, par, hist
<1>4. CASE Wait \/ ParentReturns
  BY <1>4, ProcFacts DEF Wait, ParentReturns, Goto, Exit, TypeOK, loc, par, hist
<1> QED BY <1>1, <1>2, <1>3, <1>4 DEF Parent

\* What each step of the parent does to process 0 and to `kid`.
LEMMA ParentMoves ==
  ASSUME TypeOK, Parent
  PROVE  \/ /\ pc[0] = "order" /\ kid' = kid
            /\ \/ pc'[0] = "gone" /\ status'[0] = "exit1"
               \/ /\ ~Prebuilt /\ pc'[0] = "claim" /\ status'[0] = status[0]
               \/ /\ Prebuilt /\ pc'[0] = "prebuild" /\ status'[0] = status[0]
                  /\ check_topological_order
         \/ /\ pc[0] = "prebuild" /\ kid' = kid
            /\ \/ pc'[0] = "gone" /\ status'[0] = "exit1"
               \/ pc'[0] = "fork" /\ status'[0] = status[0]
         \/ /\ pc[0] = "fork" /\ kid < opt.jobs /\ kid' = kid
            /\ pc'[0] = "gone" /\ status'[0] = "exit1"
         \/ /\ pc[0] = "fork" /\ kid < opt.jobs /\ kid' = kid + 1
            /\ pc'[0] = "fork" /\ status'[0] = status[0] /\ pc'[kid + 1] = "claim"
         \/ /\ pc[0] = "fork" /\ kid = opt.jobs /\ kid' = 1
            /\ pc'[0] = "wait" /\ status'[0] = status[0]
         \/ /\ pc[0] = "wait" /\ kid <= opt.jobs /\ kid' = kid + 1
            /\ pc'[0] = "wait" /\ status'[0] = status[0]
         \/ /\ pc[0] = "wait" /\ kid > opt.jobs /\ kid' = kid
            /\ pc'[0] = "gone" /\ status'[0] \in {"exit0", "exit1"}
<1>1. pc \in [Procs -> Labels] /\ status \in [Procs -> Statuses] /\ 0 \in Procs
  BY ProcFacts DEF TypeOK
<1>2. CASE VerifyOrder
  BY <1>1, <1>2 DEF VerifyOrder, Goto, Exit, Prebuilt, par
<1>3. CASE Prebuild \/ ForkFails
  BY <1>1, <1>3 DEF Prebuild, ForkFails, Goto, Exit, par
<1>4. CASE Fork
  <2>0. kid \in Nat /\ opt.jobs \in 1..MaxJobs /\ MaxJobs \in Nat
    BY OptionFacts, ProcFacts DEF TypeOK
  <2>1. kid + 1 \in Procs /\ kid + 1 # 0
    BY <1>4, <2>0 DEF Fork, Procs
  <2> QED BY <1>1, <1>4, <2>1 DEF Fork
<1>5. CASE ForkedAll \/ Wait \/ ParentReturns
  BY <1>1, <1>5 DEF ForkedAll, Wait, ParentReturns, Goto, Exit, par
<1> QED BY <1>2, <1>3, <1>4, <1>5 DEF Parent

\* Process 0 in the parent's part of the program and the workers it has.
LEMMA ParentControl ==
  ASSUME TypeOK, Control, Forking, Parent
  PROVE  Control' /\ Forking'
<1>1. UNCHANGED <<export, opt, failed, ok>>
  BY ParentFrame
<1>2. Prebuilt' = Prebuilt /\ check_topological_order' = check_topological_order
  BY <1>1, InputFrame
<1>3. opt.jobs \in 1..MaxJobs /\ MaxJobs \in Nat /\ kid \in Nat
  BY OptionFacts, ProcFacts DEF TypeOK
<1>4. \A q \in Workers :
        \/ pc'[q] = pc[q] /\ status'[q] = status[q]
        \/ /\ pc[0] = "fork" /\ q = kid + 1 /\ q <= opt.jobs /\ kid' = kid + 1
           /\ pc'[q] = "claim" /\ status'[q] = "running"
  BY ParentFrame
<1>5. Control'
  <2>1. \A q \in Workers :
          /\ pc'[q] \in InLoop \cup {"unborn", "gone"}
          /\ pc'[q] = "unborn" <=> status'[q] = "unborn"
          /\ pc'[q] \in InLoop <=> status'[q] = "running"
          /\ pc'[q] = "unborn" => failed'[q] = 0 /\ ok'[q] = 0
          /\ pc'[q] # "unborn" => q <= opt'.jobs /\ check_topological_order'
    BY <1>1, <1>2, <1>4 DEF Control, InLoop
  <2>2. /\ pc'[0] # "gone" <=> status'[0] = "running"
        /\ pc'[0] \notin {"unborn", "leave"}
        /\ Prebuilt' => pc'[0] \in {"order", "prebuild", "fork", "wait", "gone"}
        /\ ~Prebuilt' => pc'[0] \notin {"prebuild", "fork", "wait"}
        /\ pc'[0] \in {"prebuild", "fork"} => check_topological_order'
    BY <1>2, ParentMoves DEF Control
  <2>3. ~Prebuilt' => \A q \in Workers : pc'[q] = "unborn"
    BY <1>2, <1>4 DEF Control
  <2> QED BY <2>1, <2>2, <2>3 DEF Control
<1>6. Forking'
  <2>1. pc[0] \in {"order", "prebuild"} /\ pc'[0] \in {"prebuild", "fork"} /\ kid' = kid => Forking'
    BY <1>1, <1>4 DEF Forking
  <2>2. ASSUME pc[0] = "fork", kid < opt.jobs, kid' = kid + 1, pc'[0] = "fork", pc'[kid + 1] = "claim"
        PROVE  Forking'
    <3>1. \A q \in Workers : pc'[q] = "unborn" <=> q > kid'
      BY <1>3, <1>4, <2>2 DEF Forking, Workers
    <3> QED BY <1>1, <1>3, <2>2, <3>1 DEF Forking
  <2>3. ASSUME pc[0] = "fork", kid = opt.jobs, kid' = 1, pc'[0] = "wait"
        PROVE  Forking'
    BY <1>1, <1>3, <1>4, <2>3 DEF Forking, Workers
  <2>4. ASSUME pc[0] = "wait", kid <= opt.jobs, kid' = kid + 1, pc'[0] = "wait"
        PROVE  Forking'
    BY <1>1, <1>3, <1>4, <2>4 DEF Forking, Workers
  <2>5. pc'[0] \in {"gone", "claim"} => Forking'
    BY DEF Forking
  <2> QED BY <2>1, <2>2, <2>3, <2>4, <2>5, ParentMoves
<1> QED BY <1>5, <1>6

\* The parent's knowledge of the workers it waited for is not disturbed by those
\* workers, which are gone.
LEMMA LoopWaited ==
  ASSUME TypeOK, Control, Waited, NEW p \in Procs, Loop(p) \/ Killed(p)
  PROVE  Waited'
<1>1. pc[p] \in InLoop
  BY LoopMoves, ProcFacts DEF Control
<1>2. UNCHANGED <<export, opt, kid, died, tot>> /\ Prebuilt' = Prebuilt
  BY LoopFrame, InputFrame
<1>3. CASE p = 0
  BY <1>1, <1>2, <1>3, LoopMoves DEF Control, Waited, InLoop
<1>4. CASE p # 0
  BY <1>1, <1>2, <1>4, LoopFrame, ProcFacts DEF Waited, InLoop, Exited
<1> QED BY <1>3, <1>4

LEMMA ParentWaited ==
  ASSUME TypeOK, Control, Forking, Waited, Parent
  PROVE  Waited'
<1>1. /\ opt' = opt /\ results' = results /\ Prebuilt' = Prebuilt
  BY ParentFrame, InputFrame
<1>2. opt.jobs \in 1..MaxJobs /\ MaxJobs \in Nat /\ kid \in Nat
  BY OptionFacts, ProcFacts DEF TypeOK
<1>3. pc \in [Procs -> Labels] /\ status \in [Procs -> Statuses] /\ 0 \in Procs
  BY ProcFacts DEF TypeOK
<1>4. CASE VerifyOrder \/ Prebuild \/ Fork \/ ForkFails
  BY <1>1, <1>4, ParentMoves DEF VerifyOrder, Prebuild, Fork, ForkFails, Waited, Control
<1>5. CASE ForkedAll
  <2>1. kid' = 1 /\ status'[0] = "running"
    BY <1>5 DEF ForkedAll, Control
  <2> QED BY <2>1 DEF Waited
<1>6. CASE Wait
  <2>1. kid \in Workers /\ pc[kid] = "gone" /\ kid \in 1..opt.jobs
    BY <1>2, <1>6 DEF Wait, Forking, Control, Workers
  <2>2. results[kid].failed \in Nat /\ tot.failed \in Nat
    BY <2>1 DEF TypeOK, Counters
  <2>3. pc' = pc /\ status' = status /\ kid' = kid + 1 /\ pc[0] = "wait" /\ status[0] = "running"
    BY <1>6 DEF Wait, Control
  <2>4. ~died' => ~died /\ Exited(status[kid])
    BY <1>6, Zenon DEF Wait
  <2>6. (tot').failed = 0 => tot.failed = 0 /\ results[kid].failed = 0
    BY <1>6, <2>2 DEF Wait
  <2>5. \A k \in 1..(kid' - 1) : k \in 1..(kid - 1) \/ k = kid
    BY <1>2, <2>3
  <2> QED BY <1>1, <2>1, <2>3, <2>4, <2>5, <2>6 DEF Waited, Exited
<1>7. CASE ParentReturns
  <2>1. tot.failed \in Nat
    BY DEF TypeOK, Counters
  <2>2. /\ pc[0] = "wait" /\ kid' = kid /\ kid > opt.jobs /\ died' = died /\ tot' = tot
        /\ status'[0] = "exit0" => ~died /\ ~(tot.failed > 0)
        /\ \A q \in Workers : pc'[q] = pc[q] /\ status'[q] = status[q]
    BY <1>3, <1>7, ProcFacts DEF ParentReturns, Exit, Goto, par
  <2> QED BY <1>1, <2>1, <2>2 DEF Waited, Exited
<1> QED BY <1>4, <1>5, <1>6, <1>7 DEF Parent
-----------------------------------------------------------------------------
(* What has been walked past is taken.                                       *)

LEMMA StopStays ==
  ASSUME TypeOK, StopCause, NEW p \in Procs, Loop(p) \/ Killed(p)
  PROVE  stop => stop'
<1>1. CASE StoreStop(p)
  BY <1>1 DEF StoreStop, StopCause
<1>2. CASE Claim(p) \/ LoopEnds(p) \/ SeesStop(p) \/ BeginsCheck(p) \/ Skips(p) \/ Check(p)
  BY <1>2 DEF Claim, LoopEnds, SeesStop, BeginsCheck, Skips, Check
<1>3. CASE Escape(p) \/ Report(p) \/ worker_exit(p) \/ Killed(p)
  BY <1>3 DEF Escape, Report, worker_exit, Killed
<1> QED BY <1>1, <1>2, <1>3 DEF Loop

\* Taken declarations stay taken, unless the step is a rejection.
LEMMA TakenStays ==
  ASSUME TypeOK, NEW p \in Procs, Loop(p) \/ Killed(p),
         Prebuilt \/ failed'[p] = failed[p], NEW i \in Decls, Taken(i)
  PROVE  Taken(i)'
<1>1. UNCHANGED <<export, opt>> /\ Prebuilt' = Prebuilt
  BY LoopFrame, InputFrame
<1>2. CASE Prebuilt
  BY <1>1, <1>2, LoopFrame DEF Taken
<1>3. CASE ~Prebuilt
  <2>1. CASE Check(p)
    <3>1. verdict'[i] = "accepted"
      BY <1>3, <2>1 DEF Check, KernelError, Taken, TypeOK
    <3> QED BY <1>1, <1>3, <3>1 DEF Taken
  <2>2. CASE ~Check(p)
    <3>1. verdict' = verdict
      BY <2>2 DEF Loop, Claim, LoopEnds, SeesStop, BeginsCheck, Skips, Escape, StoreStop, Report,
                  worker_exit, Killed, hist
    <3> QED BY <1>1, <1>3, <3>1 DEF Taken
  <2> QED BY <2>1, <2>2
<1> QED BY <1>2, <1>3

\* The end of an iteration: the declaration is rejected, or taken and passed.
LEMMA IterationEnds ==
  ASSUME TypeOK, Control, Progress, NEW p \in Procs, Skips(p) \/ Check(p)
  PROVE  /\ di[p] \in Decls /\ di[p] \in Nat \ {0}
         /\ pc'[p] \in {"claim", "report", "stop"}
         /\ failed'[p] > 0 \/ (failed'[p] = failed[p] /\ pc'[p] # "stop")
         /\ pc'[p] # "stop" => di'[p] = di[p] + 1
         /\ pc'[p] = "stop" => di'[p] = di[p]
         /\ \A i \in Decls : i = di[p] /\ Selected(i) /\ failed'[p] = failed[p] => Taken(i)'
         /\ pc'[p] = "report" => opt.count > 0 \/ di[p] = opt.stop_at
<1>1. /\ pc \in [Procs -> Labels] /\ di \in [Procs -> Nat \ {0}] /\ failed \in [Procs -> Nat]
      /\ verdict \in [Decls -> {"none", "accepted", "rejected"}]
  BY DEF TypeOK
<1>2. pc[p] \in {"test", "check"} /\ di[p] \in Decls
  BY DEF Skips, Check, TypeOK
<1>3. UNCHANGED <<export, opt>> /\ Prebuilt' = Prebuilt
  BY LoopFrame, InputFrame DEF Loop
<1>4. CASE Skips(p)
  <2>1. /\ claim' = claim /\ pc[p] = "test" /\ ~(chk[p] /\ di[p] \notin opt.skip)
    BY <1>4 DEF Skips
  <2>2. \A i \in Decls : i = di[p] /\ Selected(i) => Taken(i)'
    BY <1>2, <1>3, <2>1 DEF Progress, ProgressAt, Selected, Taken
  <2>3. failed'[p] > 0 \/ (failed'[p] = failed[p] /\ pc'[p] # "stop")
    <3>1. failed' = failed => pc'[p] # "stop"
      BY <1>1, <1>4 DEF Skips, Advance, add_unchecked, KernelError, Goto
    <3>2. failed' = failed \/ failed' = [failed EXCEPT ![p] = @ + 1]
      BY <1>4 DEF Skips, add_unchecked, KernelError
    <3> QED BY <1>1, <3>1, <3>2
  <2>4. /\ pc'[p] \in {"claim", "report", "stop"}
        /\ pc'[p] # "stop" => di'[p] = di[p] + 1
        /\ pc'[p] = "stop" => di'[p] = di[p]
        /\ pc'[p] = "report" => opt.count > 0 \/ di[p] = opt.stop_at
    BY <1>1, <1>4 DEF Skips, Advance, add_unchecked, KernelError, Goto
  <2> QED BY <1>1, <1>2, <2>2, <2>3, <2>4
<1>5. CASE Check(p)
  <2>1. claim' = claim /\ pc[p] = "check" /\ chk[p]
    BY <1>5 DEF Check, Progress, ProgressAt
  <2>2. failed'[p] = failed[p] => verdict'[di[p]] = "accepted"
    BY <1>1, <1>2, <1>5 DEF Check, KernelError
  <2>3. \A i \in Decls : i = di[p] /\ Selected(i) /\ failed'[p] = failed[p] => Taken(i)'
    BY <1>2, <1>3, <2>1, <2>2 DEF Progress, ProgressAt, Selected, Taken
  <2>4. failed'[p] > 0 \/ (failed'[p] = failed[p] /\ pc'[p] # "stop")
    <3>1. failed' = failed => pc'[p] # "stop"
      BY <1>1, <1>5 DEF Check, Advance, KernelError, Goto
    <3>2. failed' = failed \/ failed' = [failed EXCEPT ![p] = @ + 1]
      BY <1>5 DEF Check, KernelError
    <3> QED BY <1>1, <3>1, <3>2
  <2>5. /\ pc'[p] \in {"claim", "report", "stop"}
        /\ pc'[p] # "stop" => di'[p] = di[p] + 1
        /\ pc'[p] = "stop" => di'[p] = di[p]
        /\ pc'[p] = "report" => opt.count > 0 \/ di[p] = opt.stop_at
    BY <1>1, <1>5 DEF Check, Advance, KernelError, Goto
  <2> QED BY <1>1, <1>2, <2>3, <2>4, <2>5
<1> QED BY <1>4, <1>5

\* In a run without workers only process 0 steps, and in one with workers only
\* the workers run the loop.
LEMMA LoopOwner ==
  ASSUME TypeOK, Control, NEW p \in Procs, Loop(p) \/ Killed(p)
  PROVE  /\ pc[p] \in InLoop
         /\ Prebuilt => p \in Workers
         /\ ~Prebuilt => p = 0
<1>1. pc[p] \in InLoop
  BY LoopMoves, ProcFacts DEF Control
<1> QED BY <1>1, ProcFacts DEF Control, InLoop

LEMMA FinishedStays ==
  ASSUME TypeOK, Control, StopCause, NEW p \in Procs, Loop(p) \/ Killed(p),
         NEW q \in Procs, Prebuilt \/ failed'[p] = failed[p], Finished(q)
  PROVE  Finished(q)'
<1>1. UNCHANGED <<export, opt>> /\ Decls' = Decls /\ \A i \in Decls : Selected(i)' = Selected(i)
  BY LoopFrame, InputFrame
<1>2. (stop => stop') /\ (failed[q] > 0 => failed'[q] > 0)
  <2>1. failed[q] \in Nat /\ failed'[q] \in Nat /\ failed'[q] >= failed[q]
    BY LoopFrame, LoopTypeOK DEF TypeOK
  <2> QED BY <2>1, StopStays
<1>3. (\A i \in Decls : Selected(i) => Taken(i)) => (\A i \in Decls : Selected(i) => Taken(i)')
  BY TakenStays
<1> QED BY <1>1, <1>2, <1>3 DEF Finished

LEMMA LoopProgress ==
  ASSUME TypeOK, Control, Progress, StopCause, NEW p \in Procs, Loop(p) \/ Killed(p)
  PROVE  Progress'
<1>1. /\ UNCHANGED <<export, opt>> /\ Decls' = Decls /\ Prebuilt' = Prebuilt
      /\ \A i \in Decls : InShard(i)' = InShard(i) /\ Selected(i)' = Selected(i)
  BY LoopFrame, InputFrame
<1>2. /\ di \in [Procs -> Nat \ {0}] /\ failed \in [Procs -> Nat] /\ pc \in [Procs -> Labels]
      /\ claim \in [Decls -> Procs]
      /\ Decls = 1..Len(export) /\ Len(export) \in Nat
      /\ opt.stop_at \in Nat /\ opt.count \in Nat
  BY ExportFacts, OptionFacts DEF TypeOK
<1>3. pc[p] \in InLoop /\ (Prebuilt => p # 0) /\ (~Prebuilt => p = 0)
  BY LoopOwner, ProcFacts
<1>4. failed' \in [Procs -> Nat] /\ failed'[p] >= failed[p]
  BY LoopTypeOK, LoopFrame DEF TypeOK
<1>5. Prebuilt \/ failed'[p] = failed[p] => \A i \in Decls : Taken(i) => Taken(i)'
  BY TakenStays
<1>6. ASSUME NEW q \in Procs, q # p
      PROVE  ProgressAt(q)'
  <2>1. /\ pc'[q] = pc[q] /\ di'[q] = di[q] /\ chk'[q] = chk[q] /\ failed'[q] = failed[q]
        /\ \A i \in Decls : claim[i] # 0 => claim'[i] = claim[i]
    BY <1>6, LoopFrame
  <2>2. CASE Prebuilt
    <3>1. Prefix(di[q]) => Prefix(di[q])'
      BY <1>1, <1>5, <2>1, <2>2 DEF Prefix
    <3>2. Finished(q) => Finished(q)'
      BY <2>2, FinishedStays
    <3>3. ProgressAt(q)
      BY DEF Progress
    <3> QED BY <1>1, <2>1, <2>2, <3>1, <3>2, <3>3 DEF ProgressAt
  <2>3. CASE ~Prebuilt
    <3>1. pc[q] \notin InLoop
      BY <1>3, <1>6, <2>3, ProcFacts DEF Control, InLoop
    <3>2. ProgressAt(q)
      BY DEF Progress
    <3> QED BY <2>1, <3>1, <3>2 DEF InLoop, ProgressAt
  <2> QED BY <2>2, <2>3
<1>7. ProgressAt(p)
  BY DEF Progress
<1>8. ProgressAt(p)'
  <2>1. CASE Claim(p)
    <3>1. /\ pc[p] = "claim" /\ pc'[p] = "test" /\ di' = di /\ failed' = failed /\ di[p] \in Decls
      BY <1>2, <2>1 DEF Claim, Goto
    <3>2. Prefix(di[p]) => Prefix(di[p])'
      BY <1>1, <1>5, <3>1 DEF Prefix
    <3>3. /\ Prebuilt /\ InShard(di[p]) => claim'[di[p]] # 0
          /\ ~Prebuilt => chk'[p] = InShard(di[p])
      BY <1>2, <1>3, <2>1, <3>1 DEF Claim, TypeOK
    <3> QED BY <1>1, <1>7, <3>1, <3>2, <3>3 DEF ProgressAt
  <2>2. CASE LoopEnds(p)
    <3>1. /\ pc[p] = "claim" /\ pc'[p] = "report" /\ failed' = failed
          /\ di[p] \notin Decls /\ di[p] \in Nat \ {0} /\ failed[p] \in Nat
      BY <1>2, <2>2 DEF LoopEnds, Goto, loc
    <3>2. failed[p] > 0 \/ \A i \in Decls : Selected(i) => Taken(i)
      BY <1>2, <1>7, <3>1 DEF ProgressAt, Prefix
    <3>3. Finished(p)'
      BY <3>1, <3>2, FinishedStays DEF Finished
    <3> QED BY <3>1, <3>3 DEF ProgressAt
  <2>3. CASE SeesStop(p)
    <3>1. pc'[p] = "report" /\ stop' = stop
      BY <1>2, <2>3 DEF SeesStop, Goto
    <3>2. stop
      BY <2>3, Zenon DEF SeesStop
    <3>3. Finished(p)'
      BY <3>1, <3>2 DEF Finished
    <3> QED BY <3>1, <3>3 DEF ProgressAt
  <2>4. CASE BeginsCheck(p)
    <3>1. /\ pc[p] = "test" /\ pc'[p] = "check" /\ chk[p]
          /\ di' = di /\ chk' = chk /\ failed' = failed /\ claim' = claim
      BY <1>2, <2>4 DEF BeginsCheck, Goto, loc
    <3>2. Prefix(di[p]) => Prefix(di[p])'
      BY <1>1, <1>5, <3>1 DEF Prefix
    <3> QED BY <1>1, <1>7, <3>1, <3>2 DEF ProgressAt
  <2>5. CASE Skips(p) \/ Check(p)
    <3>1. /\ di[p] \in Decls /\ di[p] \in Nat \ {0}
          /\ pc'[p] \in {"claim", "report", "stop"}
          /\ failed'[p] > 0 \/ (failed'[p] = failed[p] /\ pc'[p] # "stop")
          /\ pc'[p] # "stop" => di'[p] = di[p] + 1
          /\ pc'[p] = "stop" => di'[p] = di[p]
          /\ \A i \in Decls : i = di[p] /\ Selected(i) /\ failed'[p] = failed[p] => Taken(i)'
          /\ pc'[p] = "report" => opt.count > 0 \/ di[p] = opt.stop_at
      BY <2>5, IterationEnds
    <3>2. pc[p] \in {"test", "check"}
      BY <2>5 DEF Skips, Check
    <3>3. failed'[p] > 0 \/ \A i \in Decls : i < di[p] + 1 /\ Selected(i) => Taken(i)'
      <4>1. CASE failed'[p] = failed[p] /\ ~(failed'[p] > 0)
        <5>1. \A i \in Decls : i < di[p] /\ Selected(i) => Taken(i)
          BY <1>7, <3>2, <4>1 DEF ProgressAt, Prefix
        <5> QED BY <1>2, <1>5, <3>1, <4>1, <5>1
      <4> QED BY <3>1, <4>1
    <3>4. pc'[p] = "claim" => ProgressAt(p)'
      BY <1>1, <3>1, <3>3 DEF ProgressAt, Prefix
    <3>5. pc'[p] = "stop" => ProgressAt(p)'
      BY <1>1, <3>1 DEF ProgressAt
    <3>6. ASSUME pc'[p] = "report"
          PROVE  Finished(p)'
      <4>1. CASE failed'[p] > 0 \/ opt.count > 0
        BY <1>1, <4>1 DEF Finished
      <4>2. CASE di[p] = opt.stop_at /\ ~(failed'[p] > 0)
        <5>1. \A i \in Decls : Selected(i) => i < di[p] + 1
          BY <1>2, <3>1, <4>2 DEF Selected
        <5> QED BY <1>1, <3>3, <4>2, <5>1 DEF Finished
      <4> QED BY <3>1, <3>6, <4>1, <4>2
    <3> QED BY <3>1, <3>4, <3>5, <3>6 DEF ProgressAt
  <2>6. CASE Escape(p) \/ worker_exit(p) \/ Killed(p)
    <3>1. pc'[p] = "gone"
      BY <1>2, <2>6 DEF Escape, worker_exit, Killed, Exit, Goto
    <3> QED BY <3>1 DEF ProgressAt
  <2>7. CASE StoreStop(p)
    <3>1. pc[p] = "stop" /\ pc'[p] = "report" /\ failed' = failed
      BY <1>2, <2>7 DEF StoreStop, Goto, loc
    <3>2. Finished(p)
      BY <1>7, <3>1 DEF ProgressAt, Finished
    <3>3. Finished(p)'
      BY <3>1, <3>2, FinishedStays
    <3> QED BY <3>1, <3>3 DEF ProgressAt
  <2>8. CASE Report(p)
    <3>1. pc[p] = "report" /\ pc'[p] \in {"leave", "gone"} /\ failed' = failed
      BY <1>2, <2>8 DEF Report, Exit, Goto, loc
    <3>2. Finished(p)'
      BY <1>7, <3>1, FinishedStays DEF ProgressAt
    <3> QED BY <3>1, <3>2 DEF ProgressAt
  <2> QED BY <2>1, <2>2, <2>3, <2>4, <2>5, <2>6, <2>7, <2>8 DEF Loop
<1> QED BY <1>6, <1>8, <1>1 DEF Progress

LEMMA ParentProgress ==
  ASSUME TypeOK, Control, Forking, Progress, Parent
  PROVE  Progress'
<1>1. /\ UNCHANGED <<export, opt, di, chk, failed, claim, stop, verdict>>
      /\ Decls' = Decls /\ Prebuilt' = Prebuilt
      /\ \A i \in Decls : InShard(i)' = InShard(i) /\ Selected(i)' = Selected(i)
  BY ParentFrame, InputFrame
<1>2. \A i \in Decls : Taken(i)' = Taken(i)
  BY <1>1 DEF Taken
<1>3. ASSUME NEW q \in Procs, pc'[q] = pc[q]
      PROVE  ProgressAt(q)'
  <2>1. ProgressAt(q)
    BY DEF Progress
  <2>2. Finished(q)' = Finished(q) /\ Prefix(di[q])' = Prefix(di[q])
    BY <1>1, <1>2 DEF Finished, Prefix
  <2> QED BY <1>1, <1>3, <2>1, <2>2 DEF ProgressAt
<1>4. ASSUME NEW q \in Procs, pc'[q] = "claim", di[q] = 1
      PROVE  ProgressAt(q)'
  <2>1. Prefix(di[q])'
    BY <1>1, <1>4, ExportFacts DEF Prefix
  <2> QED BY <1>4, <2>1 DEF ProgressAt
<1>5. ProgressAt(0)'
  <2>1. ProgressAt(0)
    BY ProcFacts DEF Progress
  <2>2. CASE pc'[0] = "claim"
    <3>1. di[0] = 1
      BY <2>1, <2>2, ParentMoves DEF ProgressAt
    <3> QED BY <1>4, <2>2, <3>1, ProcFacts
  <2>3. CASE pc'[0] \in {"prebuild", "fork"}
    BY <1>1, <2>1, <2>3, ParentMoves DEF ProgressAt
  <2>4. CASE pc'[0] \in {"wait", "gone"}
    BY <2>4 DEF ProgressAt
  <2> QED BY <2>2, <2>3, <2>4, ParentFrame
<1>6. ASSUME NEW q \in Workers
      PROVE  ProgressAt(q)'
  <2>1. CASE pc'[q] = pc[q]
    BY <1>3, <2>1, ProcFacts
  <2>2. CASE pc[0] = "fork" /\ q = kid + 1 /\ pc'[q] = "claim"
    <3>1. pc[q] = "unborn" /\ ProgressAt(q)
      BY <2>2, ProcFacts DEF Forking, Progress, TypeOK
    <3> QED BY <1>4, <2>2, <3>1, ProcFacts DEF ProgressAt
  <2> QED BY <2>1, <2>2, ParentFrame
<1> QED BY <1>5, <1>6, ProcFacts DEF Progress
-----------------------------------------------------------------------------
(* What a process that left has reported.                                    *)

LEMMA LoopLeft ==
  ASSUME TypeOK, Control, Progress, StopCause, Left, NEW p \in Procs, Loop(p) \/ Killed(p)
  PROVE  Left'
<1>1. UNCHANGED <<export, opt>> /\ Prebuilt' = Prebuilt
  BY LoopFrame, InputFrame
<1>2. /\ pc \in [Procs -> Labels] /\ status \in [Procs -> Statuses] /\ failed \in [Procs -> Nat]
      /\ results \in [Workers -> Counters]
  BY DEF TypeOK
<1>3. pc[p] \in InLoop /\ (Prebuilt => p \in Workers) /\ (~Prebuilt => p = 0)
  BY LoopOwner
<1>4. ProgressAt(p)
  BY DEF Progress
<1>5. ASSUME Prebuilt, NEW q \in Workers
      PROVE  /\ pc'[q] = "leave" => results'[q].failed = failed'[q]
             /\ Exited(status'[q]) /\ ~opt'.oom => results'[q].failed = failed'[q] /\ Finished(q)'
  <2>1. CASE q # p
    <3>1. /\ pc'[q] = pc[q] /\ status'[q] = status[q] /\ failed'[q] = failed[q]
          /\ results'[q] = results[q]
      BY <2>1, LoopFrame, ProcFacts
    <3>2. Finished(q) => Finished(q)'
      BY <1>5, FinishedStays, ProcFacts
    <3> QED BY <1>1, <3>1, <3>2 DEF Left
  <2>2. CASE q = p
    <3>1. status[q] = "running"
      BY <1>3, <2>2 DEF Control
    <3>2. CASE Report(p)
      <4>1. pc'[p] = "leave" /\ status'[p] = status[p] /\ results'[p].failed = failed'[p]
        BY <1>2, <2>2, <3>2, ProcFacts DEF Report, Goto, loc
      <4> QED BY <2>2, <3>1, <4>1 DEF Exited
    <3>3. CASE worker_exit(p)
      <4>1. /\ pc[p] = "leave" /\ pc'[p] = "gone" /\ results' = results /\ failed' = failed
        BY <1>2, <3>3 DEF worker_exit, Exit, Goto, loc
      <4>2. Finished(p)'
        BY <1>4, <1>5, <4>1, FinishedStays DEF ProgressAt
      <4> QED BY <2>2, <4>1, <4>2 DEF Left
    <3>4. CASE Escape(p)
      <4>1. pc'[p] = "gone" /\ opt.oom
        BY <1>2, <3>4 DEF Escape, Exit, Goto
      <4> QED BY <1>1, <2>2, <4>1
    <3>5. CASE Killed(p)
      <4>1. pc'[p] = "gone" /\ status'[p] = "signal"
        BY <1>2, <3>5, ProcFacts DEF Killed, Exit, Goto
      <4> QED BY <2>2, <4>1 DEF Exited
    <3>6. CASE Claim(p) \/ LoopEnds(p) \/ SeesStop(p) \/ BeginsCheck(p) \/ StoreStop(p)
      <4>1. status' = status /\ pc'[p] # "leave"
        BY <1>2, <3>6 DEF Claim, LoopEnds, SeesStop, BeginsCheck, StoreStop, Goto
      <4> QED BY <2>2, <3>1, <4>1 DEF Exited
    <3>7. CASE Skips(p) \/ Check(p)
      <4>1. status' = status /\ pc'[p] # "leave"
        BY <3>7, IterationEnds DEF Skips, Check
      <4> QED BY <2>2, <3>1, <4>1 DEF Exited
    <3> QED BY <3>2, <3>3, <3>4, <3>5, <3>6, <3>7 DEF Loop
  <2> QED BY <2>1, <2>2
<1>6. ASSUME ~Prebuilt
      PROVE  /\ \A q \in Workers : pc'[q] = "unborn" /\ status'[q] = "unborn"
             /\ status'[0] = "exit0" => failed'[0] = 0 /\ Finished(0)'
  <2>1. p = 0
    BY <1>3, <1>6
  <2>2. \A q \in Workers : pc'[q] = "unborn" /\ status'[q] = "unborn"
    BY <1>6, <2>1, LoopFrame, ProcFacts DEF Control
  <2>3. CASE Report(p)
    <3>1. pc[0] = "report" /\ failed' = failed /\ (status'[0] = "exit0" => ~(failed[0] > 0))
      BY <1>2, <2>1, <2>3, ProcFacts DEF Report, Exit, loc
    <3>2. failed[0] \in Nat /\ Finished(0)
      BY <1>2, <1>4, <2>1, <3>1, ProcFacts DEF ProgressAt
    <3> QED BY <2>1, <2>2, <3>1, <3>2, FinishedStays
  <2>4. CASE Escape(p)
    <3>1. status'[0] = "exit1"
      BY <1>2, <2>1, <2>4, ProcFacts DEF Escape, Exit
    <3> QED BY <2>2, <3>1
  <2>5. CASE ~Report(p) /\ ~Escape(p)
    <3>1. pc'[p] # "gone"
      BY <1>2, <1>3, <2>1, <2>5, LoopMoves, ProcFacts, IterationEnds
      DEF Loop, Killed, worker_exit, Claim, LoopEnds, SeesStop, BeginsCheck, StoreStop, Goto, Control
    <3>2. status'[0] = "running"
      BY <1>3, <2>1, <3>1, LoopMoves DEF Control, InLoop
    <3> QED BY <2>2, <3>2
  <2> QED BY <2>3, <2>4, <2>5
<1> QED BY <1>1, <1>5, <1>6 DEF Left, Exited

LEMMA ParentLeft ==
  ASSUME TypeOK, Control, Forking, Left, Parent
  PROVE  Left'
<1>1. /\ UNCHANGED <<export, opt, failed, claim, stop, verdict, results>>
      /\ Decls' = Decls /\ Prebuilt' = Prebuilt
      /\ \A i \in Decls : Selected(i)' = Selected(i)
  BY ParentFrame, InputFrame
<1>2. \A q \in Procs : Finished(q)' = Finished(q)
  BY <1>1 DEF Finished, Taken
<1>3. \A q \in Workers :
        \/ pc'[q] = pc[q] /\ status'[q] = status[q]
        \/ pc'[q] = "claim" /\ status'[q] = "running"
  BY ParentFrame
<1>4. ~Prebuilt => status'[0] # "exit0"
  BY ParentMoves DEF Control
<1> QED BY <1>1, <1>2, <1>3, <1>4, ProcFacts DEF Left, Exited
-----------------------------------------------------------------------------
(* Who stopped the run, and where a claimed declaration is.                  *)

LEMMA LoopStopCause ==
  ASSUME TypeOK, Control, Progress, StopCause, NEW p \in Procs, Loop(p) \/ Killed(p)
  PROVE  StopCause'
<1>1. /\ Prebuilt' = Prebuilt /\ failed \in [Procs -> Nat] /\ failed' \in [Procs -> Nat]
      /\ \A q \in Workers : failed'[q] >= failed[q]
  <2>1. failed \in [Procs -> Nat] /\ failed' \in [Procs -> Nat]
    BY LoopTypeOK DEF TypeOK
  <2> QED BY <2>1, LoopFrame, InputFrame, ProcFacts
<1>2. CASE StoreStop(p)
  <2>1. pc[p] = "stop" /\ failed' = failed /\ (stop' <=> Prebuilt)
    BY <1>2 DEF StoreStop, loc
  <2>2. failed[p] > 0 /\ (Prebuilt => p \in Workers)
    BY <2>1, LoopOwner DEF Progress, ProgressAt
  <2> QED BY <1>1, <2>1, <2>2 DEF StopCause
<1>3. CASE ~StoreStop(p)
  <2>1. stop' = stop
    BY <1>3 DEF Loop, Claim, LoopEnds, SeesStop, BeginsCheck, Skips, Check, Escape, Report,
                worker_exit, Killed
  <2>2. ASSUME stop
        PROVE  Prebuilt /\ \E q \in Workers : failed'[q] > 0
    <3>1. PICK q \in Workers : failed[q] > 0
      BY <2>2 DEF StopCause
    <3>2. failed'[q] > 0
      BY <1>1, <3>1, ProcFacts
    <3> QED BY <2>2, <3>2 DEF StopCause
  <2> QED BY <1>1, <2>1, <2>2 DEF StopCause
<1> QED BY <1>2, <1>3

\* The declaration i is accounted for.
Held(i) ==
  \/ pc[claim[i]] \in {"test", "check"} /\ di[claim[i]] = i /\ chk[claim[i]]
  \/ failed[claim[i]] > 0 \/ stop
  \/ status[claim[i]] = "signal" \/ opt.oom

LEMMA LoopInHand ==
  ASSUME TypeOK, Control, Progress, StopCause, InHand, NEW p \in Procs, Loop(p) \/ Killed(p)
  PROVE  InHand'
<1>1. /\ UNCHANGED <<export, opt>> /\ Decls' = Decls /\ Prebuilt' = Prebuilt
      /\ \A i \in Decls : Selected(i)' = Selected(i)
  BY LoopFrame, InputFrame
<1>2. /\ pc \in [Procs -> Labels] /\ status \in [Procs -> Statuses] /\ failed \in [Procs -> Nat]
      /\ di \in [Procs -> Nat \ {0}] /\ chk \in [Procs -> BOOLEAN]
      /\ claim \in [Decls -> Procs] /\ verdict \in [Decls -> {"none", "accepted", "rejected"}]
  BY DEF TypeOK
<1>3. pc[p] \in InLoop /\ (Prebuilt => p \in Workers) /\ (~Prebuilt => p = 0)
  BY LoopOwner
<1>4. \A q \in Procs \ {p} :
        /\ pc'[q] = pc[q] /\ status'[q] = status[q] /\ di'[q] = di[q]
        /\ chk'[q] = chk[q] /\ failed'[q] = failed[q]
  BY LoopFrame
<1>5. /\ failed'[p] \in Nat /\ failed'[p] >= failed[p] /\ failed[p] \in Nat
      /\ \A i \in Decls : claim[i] # 0 => claim'[i] = claim[i]
  BY LoopFrame, LoopTypeOK DEF TypeOK
<1>6. stop => stop'
  BY StopStays
<1>7. ASSUME Prebuilt, NEW q \in Procs, pc'[q] \in {"test", "check"}, chk'[q]
      PROVE  claim'[di'[q]] = q
  <2>1. CASE q # p
    <3>1. claim[di[q]] = q /\ di[q] \in Decls /\ q # 0
      BY <1>4, <1>7, <2>1 DEF InHand, TypeOK, Control
    <3> QED BY <1>4, <1>5, <2>1, <3>1
  <2>2. CASE q = p /\ Claim(p)
    <3>1. di' = di /\ di[p] \in Decls /\ claim[di[p]] = 0 /\ InShard(di[p])
      BY <1>2, <1>7, <2>2 DEF Claim
    <3> QED BY <1>2, <1>7, <2>2, <3>1 DEF Claim
  <2>3. CASE q = p /\ ~Claim(p)
    <3>1. BeginsCheck(p)
      <4>1. pc'[p] \in {"test", "check"}
        BY <1>7, <2>3
      <4>2. ~Skips(p) /\ ~Check(p)
        BY <4>1, IterationEnds
      <4> QED BY <1>2, <2>3, <4>1, <4>2
          DEF Loop, LoopEnds, SeesStop, Escape, StoreStop, Report, worker_exit, Killed, Goto, Exit
    <3>2. pc[p] = "test" /\ chk[p] /\ di' = di /\ claim' = claim
      BY <3>1 DEF BeginsCheck, loc
    <3> QED BY <1>7, <2>3, <3>2 DEF InHand
  <2> QED BY <2>1, <2>2, <2>3
<1>8. ASSUME NEW i \in Decls, claim'[i] # 0, Selected(i), verdict'[i] # "accepted"
      PROVE  Held(i)'
  <2>1. CASE claim[i] = 0
    <3>1. Claim(p)
      BY <1>8, <2>1 DEF Loop, LoopEnds, SeesStop, BeginsCheck, Skips, Check, Escape, StoreStop, Report,
                        worker_exit, Killed
    <3>2. /\ i = di[p] /\ claim'[i] = p /\ di' = di /\ pc'[p] = "test" /\ chk'[p]
      BY <1>2, <1>8, <2>1, <3>1 DEF Claim, Goto
    <3> QED BY <3>2 DEF Held
  <2>2. CASE claim[i] # 0 /\ claim[i] # p
    <3>1. claim'[i] = claim[i] /\ claim[i] \in Procs \ {p}
      BY <1>2, <1>5, <2>2
    <3>2. CASE verdict[i] # "accepted"
      <4>1. Held(i)
        BY <1>8, <2>2, <3>2 DEF InHand, Held
      <4> QED BY <1>1, <1>4, <1>6, <3>1, <4>1 DEF Held
    <3>3. CASE verdict[i] = "accepted"
      <4>1. Check(p) /\ di[p] = i
        BY <1>2, <1>8, <3>3 DEF Loop, Claim, LoopEnds, SeesStop, BeginsCheck, Skips, Check, Escape, StoreStop,
                            Report, worker_exit, Killed, hist
      <4>2. pc[p] = "check" /\ chk[p]
        BY <4>1 DEF Check, Progress, ProgressAt
      <4>3. Prebuilt => claim[i] = p
        BY <4>1, <4>2 DEF InHand
      <4>4. Prebuilt
        BY <2>2 DEF InHand
      <4> QED BY <2>2, <4>3, <4>4
    <3> QED BY <3>2, <3>3
  <2>3. CASE claim[i] = p /\ p # 0
    <3>1. claim'[i] = p /\ Prebuilt /\ p \in Workers /\ status[p] = "running"
      BY <1>3, <1>5, <2>3 DEF InHand, Control
    <3>2. failed'[p] > 0 => Held(i)'
      BY <3>1 DEF Held
    <3>3. CASE Check(p) /\ di[p] = i
      <4>1. failed'[p] > 0
        BY <1>2, <1>8, <3>3 DEF Check, KernelError
      <4> QED BY <3>2, <4>1
    <3>4. CASE ~(Check(p) /\ di[p] = i)
      <4>1. verdict'[i] = verdict[i]
        BY <1>2, <3>4 DEF Loop, Claim, LoopEnds, SeesStop, BeginsCheck, Skips, Check, Escape, StoreStop,
                          Report, worker_exit, Killed, hist
      <4>2. \/ pc[p] \in {"test", "check"} /\ di[p] = i /\ chk[p]
            \/ failed[p] > 0 \/ stop \/ opt.oom
        BY <1>8, <2>3, <3>1, <4>1 DEF InHand
      <4>3. failed[p] > 0 \/ stop \/ opt.oom => Held(i)'
        BY <1>1, <1>5, <1>6, <3>1 DEF Held
      <4>4. ASSUME pc[p] \in {"test", "check"}, di[p] = i, chk[p], ~stop
            PROVE  Held(i)'
        <5>1. CASE BeginsCheck(p)
          <6>1. pc'[p] = "check" /\ di' = di /\ chk' = chk
            BY <1>2, <5>1 DEF BeginsCheck, Goto, loc
          <6> QED BY <3>1, <4>4, <6>1 DEF Held
        <5>2. CASE Killed(p)
          <6>1. status'[p] = "signal"
            BY <1>2, <5>2 DEF Killed, Exit
          <6> QED BY <3>1, <6>1 DEF Held
        <5>3. CASE Escape(p)
          BY <4>3, <5>3 DEF Escape
        <5>4. ~Skips(p)
          BY <1>8, <4>4 DEF Skips, Selected
        <5>5. ~SeesStop(p)
          BY <4>4, Zenon DEF SeesStop
        <5>6. ~(Claim(p) \/ LoopEnds(p) \/ StoreStop(p) \/ Report(p) \/ worker_exit(p))
          BY <4>4 DEF Claim, LoopEnds, StoreStop, Report, worker_exit
        <5> QED BY <3>4, <4>4, <5>1, <5>2, <5>3, <5>4, <5>5, <5>6 DEF Loop
      <4>5. CASE stop
        BY <4>3, <4>5
      <4> QED BY <4>2, <4>3, <4>4, <4>5
    <3> QED BY <3>3, <3>4
  <2> QED BY <2>1, <2>2, <2>3
<1>9. ~Prebuilt => \A i \in Decls : claim'[i] = 0
  BY DEF InHand, Loop, Claim, LoopEnds, SeesStop, BeginsCheck, Skips, Check, Escape, StoreStop,
         Report, worker_exit, Killed
<1> QED BY <1>1, <1>7, <1>8, <1>9 DEF InHand, Held

LEMMA ParentInHand ==
  ASSUME TypeOK, Control, Forking, InHand, StopCause, Parent
  PROVE  InHand' /\ StopCause'
<1>1. /\ UNCHANGED <<export, opt, di, chk, failed, claim, stop, verdict>>
      /\ Decls' = Decls /\ Prebuilt' = Prebuilt
      /\ \A i \in Decls : Selected(i)' = Selected(i)
  BY ParentFrame, InputFrame
<1>2. \A q \in Procs : pc'[q] \in {"test", "check"} => pc[q] = pc'[q]
  BY ParentFrame, ProcFacts
<1>3. \A q \in Workers : pc[q] \in {"test", "check"} \/ status[q] = "signal" =>
        pc'[q] = pc[q] /\ status'[q] = status[q]
  BY ParentFrame DEF Forking, Control, TypeOK
<1>4. \A i \in Decls : claim[i] # 0 => claim[i] \in Workers
  BY ProcFacts DEF TypeOK
<1>5. StopCause'
  BY <1>1 DEF StopCause
<1>6. \A i \in Decls : claim[i] # 0 /\ Selected(i) /\ verdict[i] # "accepted" =>
        \/ pc'[claim[i]] \in {"test", "check"} /\ di[claim[i]] = i /\ chk[claim[i]]
        \/ failed[claim[i]] > 0 \/ stop
        \/ status'[claim[i]] = "signal" \/ opt.oom
  BY <1>3, <1>4 DEF InHand
<1> QED BY <1>1, <1>2, <1>5, <1>6 DEF InHand
-----------------------------------------------------------------------------
(* Who checks what, against which environment.                               *)

LEMMA LoopClaimed ==
  ASSUME TypeOK, Control, InHand, Claimed, NEW p \in Procs, Loop(p) \/ Killed(p)
  PROVE  Claimed'
<1>1. UNCHANGED <<export, opt>> /\ Decls' = Decls /\ Prebuilt' = Prebuilt
  BY LoopFrame, InputFrame
<1>2. \A i \in Decls : claim[i] # 0 => claim'[i] = claim[i]
  BY LoopFrame
<1>3. CASE BeginsCheck(p)
  <2>1. /\ pc[p] = "test" /\ chk[p] /\ claim' = claim
        /\ checkers' = [checkers EXCEPT ![di[p]] = @ \cup {p}]
    BY <1>3 DEF BeginsCheck
  <2>2. (Prebuilt => claim[di[p]] = p /\ p # 0) /\ (~Prebuilt => p = 0)
    BY <2>1, LoopOwner, ProcFacts DEF InHand
  <2>3. \A i \in Decls : \A q \in checkers'[i] : q \in checkers[i] \/ (q = p /\ i = di[p])
    BY <2>1 DEF TypeOK
  <2> QED BY <1>1, <2>1, <2>2, <2>3 DEF Claimed
<1>4. CASE ~BeginsCheck(p)
  <2>1. checkers' = checkers
    BY <1>4 DEF Loop, Claim, LoopEnds, SeesStop, Skips, Check, Escape, StoreStop, Report,
                worker_exit, Killed, hist
  <2> QED BY <1>1, <1>2, <2>1 DEF Claimed
<1> QED BY <1>3, <1>4

LEMMA LoopEnvironments ==
  ASSUME TypeOK, Control, Environments, NEW p \in Procs, Loop(p) \/ Killed(p)
  PROVE  Environments'
<1>1. /\ UNCHANGED <<export, opt>> /\ Decls' = Decls /\ Prebuilt' = Prebuilt
      /\ \A n, I : Introduced(n, I)' = Introduced(n, I)
  BY LoopFrame, InputFrame
<1>2. \A q \in Procs \ {p} : pc'[q] = pc[q] /\ di'[q] = di[q] /\ env'[q] = env[q]
  BY LoopFrame
<1>3. /\ pc \in [Procs -> Labels] /\ di \in [Procs -> Nat \ {0}] /\ env \in [Procs -> SUBSET Names]
      /\ failed \in [Procs -> Nat]
  BY DEF TypeOK
<1>4. \A q \in Procs \ {p} : EnvironmentAt(q)'
  BY <1>1, <1>2 DEF Environments, EnvironmentAt
<1>5. EnvironmentAt(p)
  BY DEF Environments
<1>6. EnvironmentAt(p)'
  <2>1. CASE Claim(p) \/ BeginsCheck(p)
    <3>1. di' = di /\ env' = env /\ pc[p] \in {"claim", "test"} /\ pc'[p] \in {"test", "check"}
      BY <1>3, <2>1 DEF Claim, BeginsCheck, Goto, loc
    <3> QED BY <1>1, <1>5, <3>1 DEF EnvironmentAt
  <2>2. CASE Skips(p) \/ Check(p)
    <3>1. pc[p] \in {"test", "check"} /\ di[p] \in Decls
      BY <2>2 DEF Skips, Check, TypeOK
    <3>2. /\ pc'[p] \in {"claim", "report", "stop"}
          /\ pc'[p] = "claim" => di'[p] = di[p] + 1
      BY <1>3, <2>2 DEF Skips, Check, Advance, add_unchecked, KernelError, Goto
    <3>3. \A n \in env'[p] : n \in env[p] \/ n \in export[di[p]].names
      BY <1>3, <2>2 DEF Skips, Check, Advance, add_unchecked, KernelError
    <3>4. \A n \in env'[p] : Introduced(n, IF Prebuilt THEN Decls ELSE 1..di[p])
      <4>1. 1..(di[p] - 1) \subseteq 1..di[p] /\ di[p] \in 1..di[p]
        BY <1>3
      <4>2. \A n \in env[p] : Introduced(n, IF Prebuilt THEN Decls ELSE 1..(di[p] - 1))
        BY <1>5, <3>1 DEF EnvironmentAt
      <4> QED BY <3>1, <3>3, <4>1, <4>2 DEF Introduced
    <3>5. pc'[p] = "claim" => di'[p] - 1 = di[p]
      BY <1>3, <3>2
    <3> QED BY <1>1, <3>2, <3>4, <3>5 DEF EnvironmentAt
  <2>3. CASE ~(Claim(p) \/ BeginsCheck(p) \/ Skips(p) \/ Check(p))
    <3>1. pc'[p] \in {"report", "leave", "gone"}
      BY <1>3, <2>3 DEF Loop, LoopEnds, SeesStop, Escape, StoreStop, Report, worker_exit, Killed,
                        Goto, Exit
    <3> QED BY <3>1 DEF EnvironmentAt
  <2> QED BY <2>1, <2>2, <2>3
<1> QED BY <1>4, <1>6, <1>1 DEF Environments

\* A declaration is accepted only if what it mentions is introduced before it.
LEMMA LoopCitesEarlier ==
  ASSUME TypeOK, Control, Environments, AcceptedCitesEarlier,
         NEW p \in Procs, Loop(p) \/ Killed(p)
  PROVE  AcceptedCitesEarlier'
<1>1. /\ UNCHANGED <<export, opt>> /\ Decls' = Decls
      /\ \A n, I : Introduced(n, I)' = Introduced(n, I)
  BY LoopFrame, InputFrame
<1>2. ASSUME NEW i \in Decls, verdict'[i] = "accepted", verdict[i] # "accepted",
             NEW n \in export[i].cites
      PROVE  Introduced(n, 1..(i - 1)) \/ (export[i].self /\ n \in export[i].names)
  <2>1. Check(p) /\ i = di[p] /\ pc[p] = "check"
    BY <1>2 DEF Loop, Claim, LoopEnds, SeesStop, BeginsCheck, Skips, Check, Escape, StoreStop,
                Report, worker_exit, Killed, hist, TypeOK
  <2>2. check_decl(export[i], CheckEnv(p))
    BY <1>2, <2>1 DEF Check, TypeOK
  <2>3. n \in CheckEnv(p) \/ (export[i].self /\ n \in export[i].names)
    BY <1>2, <2>2 DEF check_decl
  <2>4. CASE n \in CheckEnv(p) /\ Prebuilt
    <3>1. n \in env[p] /\ n \notin export[i].names
      BY <2>1, <2>4 DEF CheckEnv
    <3>2. Introduced(n, Decls)
      BY <2>1, <2>4, <3>1 DEF Environments, EnvironmentAt
    <3>3. check_topological_order
      BY <2>1, <2>4, LoopOwner DEF Control, InLoop
    <3>4. Introduced(n, 1..i) /\ i \in Nat
      BY <1>2, <3>2, <3>3, ExportFacts DEF check_topological_order
    <3> QED BY <3>1, <3>4 DEF Introduced
  <2>5. CASE n \in CheckEnv(p) /\ ~Prebuilt
    BY <2>1, <2>5 DEF CheckEnv, Environments, EnvironmentAt
  <2> QED BY <2>3, <2>4, <2>5
<1> QED BY <1>1, <1>2 DEF AcceptedCitesEarlier

LEMMA ParentRest ==
  ASSUME TypeOK, Control, Forking, Claimed, Environments, AcceptedCitesEarlier, Parent
  PROVE  Claimed' /\ Environments' /\ AcceptedCitesEarlier'
<1>1. /\ UNCHANGED <<export, opt, di, claim, checkers, verdict>>
      /\ Decls' = Decls /\ Prebuilt' = Prebuilt
      /\ \A n, I : Introduced(n, I)' = Introduced(n, I)
  BY ParentFrame, InputFrame
<1>2. Claimed' /\ AcceptedCitesEarlier'
  BY <1>1 DEF Claimed, AcceptedCitesEarlier
<1>3. EnvironmentAt(0)'
  <2>1. CASE pc'[0] = "claim"
    <3>1. pc[0] = "order" /\ VerifyOrder
      BY <2>1, ParentMoves DEF Parent, Prebuild, Fork, ForkFails, ForkedAll, Wait, ParentReturns
    <3>2. env' = env /\ env[0] = {}
      BY <3>1, ProcFacts DEF VerifyOrder, loc, Environments, EnvironmentAt
    <3> QED BY <2>1, <3>2 DEF EnvironmentAt
  <2>2. CASE pc'[0] = "fork" /\ Prebuild
    <3>1. Prebuilt /\ env'[0] = AllNames
      BY <2>2, ProcFacts DEF Prebuild, Exit, Goto, Control, TypeOK
    <3> QED BY <1>1, <2>2, <3>1 DEF EnvironmentAt, AllNames, Introduced
  <2>3. CASE pc'[0] = "fork" /\ ~Prebuild
    <3>1. Fork
      <4>1. pc \in [Procs -> Labels] /\ 0 \in Procs
        BY ProcFacts DEF TypeOK
      <4>2. VerifyOrder \/ ForkFails \/ ForkedAll \/ Wait \/ ParentReturns => pc'[0] # "fork"
        BY <4>1 DEF VerifyOrder, ForkFails, ForkedAll, Wait, ParentReturns, Goto, Exit
      <4> QED BY <2>3, <4>2 DEF Parent
    <3>2. env'[0] = env[0] /\ pc[0] = "fork"
      <4>1. kid' # 0
        BY <3>1 DEF Fork, TypeOK
      <4> QED BY <3>1, <4>1, ProcFacts DEF Fork, TypeOK
    <3> QED BY <1>1, <2>3, <3>2, ProcFacts DEF EnvironmentAt, Environments
  <2>4. CASE pc'[0] \notin {"claim", "fork"}
    BY <2>4, ParentFrame DEF EnvironmentAt
  <2> QED BY <2>1, <2>2, <2>3, <2>4
<1>4. ASSUME NEW q \in Workers
      PROVE  EnvironmentAt(q)'
  <2>1. CASE pc'[q] = pc[q] /\ env'[q] = env[q]
    BY <1>1, <2>1, ProcFacts DEF EnvironmentAt, Environments
  <2>2. CASE pc[0] = "fork" /\ pc'[q] = "claim" /\ env'[q] = env[0]
    BY <1>1, <2>2, ProcFacts DEF EnvironmentAt, Environments, Control
  <2> QED BY <2>1, <2>2, ParentFrame
<1> QED BY <1>2, <1>3, <1>4, <1>1, ProcFacts DEF Environments
-----------------------------------------------------------------------------
(* The inductive invariant.                                                  *)

LEMMA InitIInv == Init => IInv
<1> SUFFICES ASSUME Init PROVE IInv
  OBVIOUS
<1>1. TypeOK
  BY InitTypeOK
<1>2. /\ \A p \in Workers : pc[p] = "unborn" /\ status[p] = "unborn" /\ p > 0
      /\ pc[0] = "order" /\ status[0] = "running"
      /\ \A p \in Procs : /\ di[p] = 1 /\ env[p] = {} /\ ok[p] = 0 /\ failed[p] = 0
                          /\ pc[p] \in {"unborn", "order"}
      /\ \A i \in Decls : claim[i] = 0 /\ verdict[i] = "none" /\ checkers[i] = {}
      /\ stop = FALSE /\ kid = 0
  BY ProcFacts DEF Init, Workers
<1>3. Control /\ Forking /\ Waited /\ Left
  BY <1>1, <1>2, OptionFacts, ProcFacts DEF Control, Forking, Waited, Left, InLoop, Exited, Prebuilt
<1>4. Progress
  BY <1>2, ProcFacts DEF Progress, ProgressAt
<1>5. InHand /\ StopCause /\ Claimed
  BY <1>2, ProcFacts DEF InHand, StopCause, Claimed
<1>6. Environments /\ AcceptedCitesEarlier
  BY <1>2 DEF Environments, EnvironmentAt, AcceptedCitesEarlier
<1> QED BY <1>1, <1>3, <1>4, <1>5, <1>6 DEF IInv

LEMMA NextIInv == IInv /\ [Next]_vars => IInv'
<1> SUFFICES ASSUME IInv, [Next]_vars PROVE IInv'
  OBVIOUS
<1> USE DEF IInv
<1>1. CASE Parent
  BY <1>1, ParentTypeOK, ParentControl, ParentWaited, ParentProgress, ParentLeft,
     ParentInHand, ParentRest
<1>2. ASSUME NEW p \in Procs, Loop(p) \/ Killed(p)
      PROVE  IInv'
  BY <1>2, LoopTypeOK, LoopControl, LoopWaited, LoopProgress, LoopLeft, LoopStopCause,
     LoopInHand, LoopClaimed, LoopEnvironments, LoopCitesEarlier
<1>3. CASE UNCHANGED vars
  <2>1. UNCHANGED <<export, opt, pc, status, di, chk, env, ok, failed, claim, stop, results,
                    kid, died, tot, verdict, checkers>>
    BY <1>3 DEF vars, loc, par, hist
  <2>2. TypeOK' /\ Control' /\ Forking' /\ Waited'
    BY <2>1, NextTypeOK DEF vars, Control, Forking, Waited, check_topological_order, Decls,
       Introduced, Prebuilt
  <2>3. Progress' /\ Left' /\ InHand' /\ StopCause'
    BY <2>1 DEF Progress, ProgressAt, Left, InHand, StopCause, Prefix, Taken, Finished,
       Selected, InShard, Decls, Prebuilt
  <2>4. Claimed' /\ Environments' /\ AcceptedCitesEarlier'
    BY <2>1 DEF Claimed, Environments, EnvironmentAt, AcceptedCitesEarlier, Introduced, Decls,
       Prebuilt
  <2> QED BY <2>2, <2>3, <2>4
<1> QED BY <1>1, <1>2, <1>3 DEF Next, Terminated

\* The invariant that carries the driver's safety: where each process is, what the
\* parent knows, who holds which declaration.
THEOREM Invariance == Spec => []IInv
<1> QED BY InitIInv, NextIInv, PTL DEF Spec
-----------------------------------------------------------------------------
(* What it is for.                                                           *)

\* Every selected declaration of a run that answers 0 is accepted.
LEMMA ExitZeroAccepts == IInv => ExitZeroMeansAccepted
<1> SUFFICES ASSUME IInv, status[0] = "exit0", ~opt.oom, opt.count = 0,
                    NEW i \in Decls, Selected(i)
             PROVE  verdict[i] = "accepted"
  BY DEF ExitZeroMeansAccepted
<1>a. TypeOK /\ Control /\ Forking /\ Waited /\ Left /\ InHand /\ StopCause
  BY DEF IInv
<1>b. /\ failed \in [Procs -> Nat] /\ claim \in [Decls -> Procs] /\ kid \in Nat
      /\ opt.jobs \in Nat
  BY <1>a, OptionFacts DEF TypeOK
<1>1. CASE ~Prebuilt
  <2>1. failed[0] = 0 /\ Finished(0) /\ ~stop
    BY <1>1, <1>a DEF Left, StopCause
  <2> QED BY <1>1, <2>1 DEF Finished, Taken
<1>2. CASE Prebuilt
  <2>1. kid > opt.jobs /\ ~died /\ tot.failed = 0
    BY <1>2, <1>a DEF Waited
  <2>2. ASSUME NEW p \in Workers, pc[p] # "unborn"
        PROVE  Exited(status[p]) /\ failed[p] = 0 /\ Finished(p)
    <3>1. p \in 1..(kid - 1)
      BY <2>1, <2>2, <1>a, <1>b DEF Control, Workers
    <3>2. Exited(status[p]) /\ results[p].failed = 0
      BY <1>2, <1>a, <2>1, <3>1 DEF Waited
    <3> QED BY <1>a, <3>2 DEF Left
  <2>3. \A p \in Workers : failed[p] = 0
    BY <1>a, <2>2 DEF Control
  <2>4. ~stop
    <3> SUFFICES ASSUME stop PROVE FALSE
      OBVIOUS
    <3>1. PICK p \in Workers : failed[p] > 0
      BY <1>a DEF StopCause
    <3> QED BY <2>3, <3>1
  <2>5. 1 \in Workers /\ pc[1] # "unborn"
    BY <1>2, <1>a, <1>b, ProcFacts, <2>1 DEF Waited, Workers, Prebuilt
  <2>6. claim[i] # 0
    BY <1>2, <2>2, <2>4, <2>5 DEF Finished, Taken
  <2>7. claim[i] \in Workers
    BY <1>b, <2>6, ProcFacts
  <2>8. status[claim[i]] # "signal" /\ pc[claim[i]] \notin {"test", "check"}
    BY <1>a, <2>2, <2>7 DEF Control, Exited, InLoop
  <2> QED BY <1>a, <2>3, <2>4, <2>6, <2>7, <2>8 DEF InHand
<1> QED BY <1>1, <1>2

\* "Exit status 0 means every declaration was accepted": for any number of workers,
\* any interleaving and any worker killed, as long as no allocation fails.
THEOREM ExitStatus == Spec => []ExitZeroMeansAccepted
<1> QED BY Invariance, ExitZeroAccepts, PTL

\* The claim flags give every declaration one checker at most.
THEOREM OneChecker == Spec => []CheckedOnce
<1>1. IInv => CheckedOnce
  BY DEF IInv, Claimed, CheckedOnce
<1> QED BY <1>1, Invariance, PTL

\* Nothing accepted mentions a constant introduced after it, however the workers
\* interleave over their prebuilt environments.
THEOREM NoCircularCitation == Spec => []AcceptedCitesEarlier
<1>1. IInv => AcceptedCitesEarlier
  BY DEF IInv
<1> QED BY <1>1, Invariance, PTL
-------------------------------------------------------------------------------
(***************************************************************************)
(* What Driver decides: the environments declarations are checked against, *)
(* the verdicts, the counters and the answer.  This rests on the invariant *)
(* above, which is about the processes.                                    *)
(***************************************************************************)

Looking == {"claim", "test", "check"}

\* The environments: a prebuilt one holds every constant of the export and was
\* built from an export without redeclarations, that of the single process
\* holds the constants of the declarations it has passed.
EnvironmentExactAt(p) ==
  /\ pc[p] = "fork" => env[p] = AllNames /\ NoRedeclaration
  /\ pc[p] \in Looking =>
       IF Prebuilt THEN env[p] = AllNames /\ NoRedeclaration ELSE env[p] = Earlier(di[p])
EnvironmentsExact == \A p \in Procs : EnvironmentExactAt(p)

\* A declaration has no verdict before a process has taken it and is done with it.
Unjudged ==
  /\ Prebuilt => \A i \in Decls : claim[i] = 0 => verdict[i] = "none"
  /\ Prebuilt => \A p \in Workers :
       pc[p] \in {"test", "check"} /\ chk[p] => verdict[di[p]] = "none"
  /\ ~Prebuilt /\ pc[0] \in Looking \cup {"order"} =>
       \A i \in Decls : i >= di[0] => verdict[i] = "none"

\* The declarations a worker has given verdict v.
JudgedBy(p, v) == {i \in Decls : claim[i] = p /\ verdict[i] = v}

\* The local counters count the verdicts.
Counted ==
  /\ Prebuilt => \A p \in Workers : /\ ok[p] = Cardinality(JudgedBy(p, "accepted"))
                                    /\ failed[p] = Cardinality(JudgedBy(p, "rejected"))
  /\ ~Prebuilt => \A i \in Decls : verdict[i] = "rejected" => failed[0] > 0

\* What the shared results hold of a worker: nothing before it reports, its
\* counters once it has.  A worker that an escaping exception ended has reported
\* nothing; without --keep-going it had not rejected anything either.
ReportedAt(p) ==
  /\ pc[p] \in InLoop \cup {"unborn"} =>
       results[p] = IF pc[p] = "leave" THEN [ok |-> ok[p], failed |-> failed[p]]
                                       ELSE [ok |-> 0, failed |-> 0]
  /\ ~opt.keep_going /\ pc[p] \in Looking => failed[p] = 0
  /\ Exited(status[p]) =>
       /\ ~opt.oom => results[p] = [ok |-> ok[p], failed |-> failed[p]]
       /\ ~opt.oom \/ ~opt.keep_going => results[p].failed = failed[p]
Reported == \A p \in Workers : ReportedAt(p)

\* The declarations with verdict v among those of the workers waited for.
JudgedByFirst(k, v) == {i \in Decls : claim[i] \in 1..k /\ verdict[i] = v}

Summed ==
  /\ pc[0] \in {"order", "prebuild", "fork"} => tot = [ok |-> 0, failed |-> 0] /\ ~died
  /\ pc[0] = "wait" \/ (Prebuilt /\ pc[0] = "gone" /\ kid > opt.jobs) =>
       /\ kid \in 1..(opt.jobs + 1)
       /\ \A k \in 1..(kid - 1) : k \in Workers /\ pc[k] = "gone"
       /\ ~died /\ ~opt.oom =>
            /\ tot.ok = Cardinality(JudgedByFirst(kid - 1, "accepted"))
            /\ tot.failed = Cardinality(JudgedByFirst(kid - 1, "rejected"))

AllSound == \A i \in Decls : SequentiallySound(i)

\* When every declaration passes in file order nothing is ever rejected, and only
\* a killed worker, a failed allocation or system call makes the answer 1.
Unfailing ==
  AllSound =>
    /\ \A p \in Procs : failed[p] = 0 /\ pc[p] # "stop"
    /\ \A p \in Workers : results[p].failed = 0
    /\ tot.failed = 0
    /\ died => \E p \in Workers : status[p] = "signal"
    /\ status[0] = "exit1" => opt.oom \/ died \/ (Prebuilt /\ kid <= opt.jobs)

-----------------------------------------------------------------------------
(* The input of a run, and what follows from it.                             *)

LEMMA InputStays ==
  ASSUME UNCHANGED <<export, opt>>
  PROVE  /\ Decls' = Decls /\ Prebuilt' = Prebuilt
         /\ AllNames' = AllNames /\ NoRedeclaration' = NoRedeclaration
         /\ \A i : Earlier(i)' = Earlier(i)
         /\ \A i : SequentiallySound(i)' = SequentiallySound(i)
         /\ AllSound' = AllSound
  BY DEF Decls, Prebuilt, AllNames, NoRedeclaration, Earlier, SequentiallySound, check_decl, AllSound

LEMMA EarlierFacts ==
  ASSUME TypeOK
  PROVE  /\ \A i, n : n \in Earlier(i) <=> Introduced(n, 1..(i - 1))
         /\ \A n : n \in AllNames <=> Introduced(n, Decls)
         /\ Earlier(1) = {}
         /\ \A i \in Decls : /\ Earlier(i + 1) = Earlier(i) \cup export[i].names
                             /\ Earlier(i) \subseteq AllNames
                             /\ export[i].names \subseteq AllNames
<1>1. \A i, n : n \in Earlier(i) <=> Introduced(n, 1..(i - 1))
  BY DEF Earlier, Introduced
<1>2. \A n : n \in AllNames <=> Introduced(n, Decls)
  BY DEF AllNames, Introduced
<1>3. Earlier(1) = {}
  <2>1. 1..(1 - 1) = {}
    OBVIOUS
  <2> QED BY <1>1, <2>1 DEF Introduced
<1>4. ASSUME NEW i \in Decls
      PROVE  /\ Earlier(i + 1) = Earlier(i) \cup export[i].names
             /\ Earlier(i) \subseteq AllNames
             /\ export[i].names \subseteq AllNames
  <2>1. Len(export) \in Nat /\ i \in 1..Len(export) /\ Decls = 1..Len(export)
    BY ExportFacts
  <2>2. 1..((i + 1) - 1) = 1..(i - 1) \cup {i} /\ 1..(i - 1) \subseteq Decls
    BY <2>1
  <2>3. \A n : Introduced(n, 1..((i + 1) - 1)) <=> Introduced(n, 1..(i - 1)) \/ n \in export[i].names
    BY <2>2 DEF Introduced
  <2>4. \A n : Introduced(n, 1..(i - 1)) => Introduced(n, Decls)
    BY <2>2 DEF Introduced
  <2>5. \A n : n \in export[i].names => Introduced(n, Decls)
    BY DEF Introduced
  <2>6. Earlier(i + 1) = Earlier(i) \cup export[i].names
    BY <1>1, <2>3
  <2> QED BY <1>1, <1>2, <2>4, <2>5, <2>6
<1> QED BY <1>1, <1>2, <1>3, <1>4
-----------------------------------------------------------------------------
(* The environments.                                                         *)

\* A declaration that passes in file order passes in every environment it is
\* checked against, and is added without meeting its own constants.
LEMMA SoundPasses ==
  ASSUME TypeOK, EnvironmentsExact, NEW p \in Procs, pc[p] \in {"test", "check"},
         SequentiallySound(di[p])
  PROVE  /\ check_decl(export[di[p]], CheckEnv(p))
         /\ ~Prebuilt => export[di[p]].names \cap env[p] = {}
<1>1. di[p] \in Decls
  BY DEF TypeOK
<1>2. Earlier(di[p]) \subseteq AllNames
  BY <1>1, EarlierFacts
<1>3. IF Prebuilt THEN env[p] = AllNames ELSE env[p] = Earlier(di[p])
  BY DEF EnvironmentsExact, EnvironmentExactAt, Looking
<1> DEFINE d == export[di[p]]
<1>4. /\ d.names \cap Earlier(di[p]) = {} /\ d.judgement = "right"
      /\ d.cites \cup d.lits \subseteq Earlier(di[p]) \cup (IF d.self THEN d.names ELSE {})
  BY DEF SequentiallySound, check_decl
<1> HIDE DEF d
<1>5. d.names \cap CheckEnv(p) = {} /\ Earlier(di[p]) \subseteq CheckEnv(p)
  BY <1>2, <1>3, <1>4 DEF CheckEnv, d
<1>6. check_decl(d, CheckEnv(p))
  BY <1>4, <1>5 DEF check_decl
<1> QED BY <1>3, <1>4, <1>6 DEF d

LEMMA LoopEnvironmentsExact ==
  ASSUME TypeOK, Control, EnvironmentsExact, NEW p \in Procs, Loop(p) \/ Killed(p)
  PROVE  EnvironmentsExact'
<1>1. /\ UNCHANGED <<export, opt>> /\ Prebuilt' = Prebuilt /\ AllNames' = AllNames
      /\ NoRedeclaration' = NoRedeclaration /\ \A i : Earlier(i)' = Earlier(i)
  BY LoopFrame, InputStays
<1>2. \A q \in Procs \ {p} : pc'[q] = pc[q] /\ di'[q] = di[q] /\ env'[q] = env[q]
  BY LoopFrame
<1>3. /\ pc \in [Procs -> Labels] /\ di \in [Procs -> Nat \ {0}] /\ env \in [Procs -> SUBSET Names]
  BY DEF TypeOK
<1>4. \A q \in Procs \ {p} : EnvironmentExactAt(q)'
  <2> SUFFICES ASSUME NEW q \in Procs \ {p} PROVE EnvironmentExactAt(q)'
    OBVIOUS
  <2>1. EnvironmentExactAt(q) /\ pc'[q] = pc[q] /\ di'[q] = di[q] /\ env'[q] = env[q]
    BY <1>2 DEF EnvironmentsExact
  <2>2. Earlier(di[q])' = Earlier(di[q])
    BY <1>1, <2>1 DEF Earlier
  <2> QED BY <1>1, <2>1, <2>2 DEF EnvironmentExactAt
<1>5. EnvironmentExactAt(p)
  BY DEF EnvironmentsExact
<1>6. EnvironmentExactAt(p)'
  <2>1. CASE Claim(p) \/ BeginsCheck(p)
    <3>1. di' = di /\ env' = env /\ pc[p] \in {"claim", "test"} /\ pc'[p] \in {"test", "check"}
      BY <1>3, <2>1 DEF Claim, BeginsCheck, Goto, loc
    <3>2. Earlier(di[p])' = Earlier(di[p])
      BY <1>1, <3>1 DEF Earlier
    <3> QED BY <1>1, <1>5, <3>1, <3>2 DEF EnvironmentExactAt, Looking
  <2>2. CASE Skips(p) \/ Check(p)
    <3>1. pc[p] \in {"test", "check"} /\ di[p] \in Decls
      BY <2>2 DEF Skips, Check, TypeOK
    <3>2. /\ pc'[p] \in {"claim", "report", "stop"}
          /\ pc'[p] = "claim" => di'[p] = di[p] + 1
      BY <1>3, <2>2 DEF Skips, Check, Advance, add_unchecked, KernelError, Goto
    <3>3. pc'[p] = "claim" =>
            env'[p] = env[p] \cup export[di[p]].names \/ (Prebuilt /\ env'[p] = env[p])
      BY <1>3, <2>2 DEF Skips, Check, Advance, add_unchecked, KernelError, Goto
    <3>4. /\ Earlier(di[p] + 1) = Earlier(di[p]) \cup export[di[p]].names
          /\ export[di[p]].names \subseteq AllNames
      BY <3>1, EarlierFacts
    <3>5. IF Prebuilt THEN env[p] = AllNames /\ NoRedeclaration ELSE env[p] = Earlier(di[p])
      BY <1>5, <3>1 DEF EnvironmentExactAt, Looking
    <3>6. pc'[p] = "claim" => Earlier(di[p])' = Earlier(di[p] + 1)
      BY <1>1, <3>2 DEF Earlier
    <3>7. pc'[p] = "claim" =>
            IF Prebuilt THEN env'[p] = AllNames /\ NoRedeclaration ELSE env'[p] = Earlier(di[p] + 1)
      BY <3>3, <3>4, <3>5
    <3> QED BY <1>1, <3>2, <3>6, <3>7 DEF EnvironmentExactAt, Looking
  <2>3. CASE ~(Claim(p) \/ BeginsCheck(p) \/ Skips(p) \/ Check(p))
    <3>1. pc'[p] \in {"report", "leave", "gone"}
      BY <1>3, <2>3 DEF Loop, LoopEnds, SeesStop, Escape, StoreStop, Report, worker_exit, Killed,
                        Goto, Exit
    <3> QED BY <3>1 DEF EnvironmentExactAt, Looking
  <2> QED BY <2>1, <2>2, <2>3
<1> QED BY <1>4, <1>6, <1>1 DEF EnvironmentsExact

LEMMA ParentEnvironmentsExact ==
  ASSUME TypeOK, Control, Forking, Progress, Environments, EnvironmentsExact, Parent
  PROVE  EnvironmentsExact'
<1>1. /\ UNCHANGED <<export, opt, di>> /\ Prebuilt' = Prebuilt /\ AllNames' = AllNames
      /\ NoRedeclaration' = NoRedeclaration /\ \A i : Earlier(i)' = Earlier(i)
  BY ParentFrame, InputStays
<1>2. /\ pc \in [Procs -> Labels] /\ di \in [Procs -> Nat \ {0}] /\ env \in [Procs -> SUBSET Names]
      /\ \A i : Earlier(di[i])' = Earlier(di[i])
  BY <1>1 DEF TypeOK, Earlier
<1>3. EnvironmentExactAt(0)
  BY ProcFacts DEF EnvironmentsExact
<1>4. EnvironmentExactAt(0)'
  <2>1. CASE pc[0] = "order"
    <3>1. di[0] = 1 /\ env[0] = {}
      BY <2>1, ProcFacts DEF Progress, ProgressAt, Environments, EnvironmentAt
    <3>2. env' = env /\ pc'[0] \notin {"fork", "test", "check"} /\ (pc'[0] = "claim" => ~Prebuilt)
      BY <1>2, <2>1, ProcFacts DEF Parent, VerifyOrder, Prebuild, Fork, ForkFails, ForkedAll, Wait,
                                   ParentReturns, Goto, Exit, loc
    <3>3. env'[0] = Earlier(di[0])'
      BY <1>2, <3>1, <3>2, EarlierFacts
    <3> QED BY <1>1, <3>2, <3>3 DEF EnvironmentExactAt, Looking
  <2>2. CASE pc[0] = "prebuild"
    <3>1. pc'[0] \notin Looking /\ (pc'[0] = "fork" => env'[0] = AllNames /\ NoRedeclaration)
      BY <1>2, <2>2, ProcFacts DEF Parent, VerifyOrder, Prebuild, Fork, ForkFails, ForkedAll, Wait,
                                   ParentReturns, Goto, Exit, Looking
    <3> QED BY <1>1, <3>1 DEF EnvironmentExactAt
  <2>3. CASE pc[0] \in {"fork", "wait"}
    <3>1. /\ pc'[0] \notin Looking /\ (pc'[0] = "fork" => pc[0] = "fork" /\ env'[0] = env[0])
      <4>0. kid \in Nat
        BY DEF TypeOK
      <4>1. kid + 1 # 0
        BY <4>0
      <4>2. CASE Fork
        BY <1>2, <2>3, <4>1, <4>2, ProcFacts DEF Fork, Looking
      <4> QED BY <1>2, <2>3, <4>2, ProcFacts DEF Parent, VerifyOrder, Prebuild, ForkFails, ForkedAll,
                     Wait, ParentReturns, Goto, Exit, Looking, loc
    <3> QED BY <1>1, <1>3, <3>1 DEF EnvironmentExactAt
  <2> QED BY <2>1, <2>2, <2>3, ParentFrame
<1>5. ASSUME NEW q \in Workers
      PROVE  EnvironmentExactAt(q)'
  <2>1. EnvironmentExactAt(q)
    BY ProcFacts DEF EnvironmentsExact
  <2>2. CASE pc'[q] = pc[q] /\ env'[q] = env[q]
    BY <1>1, <1>2, <2>1, <2>2 DEF EnvironmentExactAt
  <2>3. CASE pc[0] = "fork" /\ pc'[q] = "claim" /\ env'[q] = env[0]
    <3>1. Prebuilt
      BY <2>3 DEF Control
    <3> QED BY <1>1, <1>3, <2>3, <3>1 DEF EnvironmentExactAt
  <2> QED BY <2>2, <2>3, ParentFrame
<1>6. \A q \in Procs : EnvironmentExactAt(q)'
  BY <1>4, <1>5, ProcFacts
<1>7. Procs' = Procs
  BY DEF Procs
<1> QED BY <1>6, <1>7 DEF EnvironmentsExact

-----------------------------------------------------------------------------
(* Verdicts are given once.                                                  *)

\* Only a check gives a verdict, to the declaration the process is at.
LEMMA VerdictFrame ==
  ASSUME TypeOK, NEW p \in Procs, Loop(p) \/ Killed(p)
  PROVE  /\ ~Check(p) => verdict' = verdict
         /\ \A i \in Decls : verdict'[i] # verdict[i] => pc[p] = "check" /\ i = di[p]
         /\ Check(p) =>
              /\ pc[p] = "check" /\ di[p] \in Decls
              /\ verdict'[di[p]] = IF check_decl(export[di[p]], CheckEnv(p))
                                   THEN "accepted" ELSE "rejected"
<1> USE DEF TypeOK, hist
<1>1. CASE Check(p)
  BY <1>1 DEF Check
<1>2. CASE ~Check(p)
  <2>1. verdict' = verdict
    BY <1>2 DEF Loop, Claim, LoopEnds, SeesStop, BeginsCheck, Skips, Escape, StoreStop, Report,
                worker_exit, Killed
  <2> QED BY <1>2, <2>1
<1> QED BY <1>1, <1>2

LEMMA LoopUnjudged ==
  ASSUME TypeOK, Control, Progress, InHand, Unjudged, NEW p \in Procs, Loop(p) \/ Killed(p)
  PROVE  Unjudged'
<1>1. /\ UNCHANGED <<export, opt>> /\ Prebuilt' = Prebuilt /\ Decls' = Decls /\ Workers' = Workers
  BY LoopFrame, InputStays DEF Workers
<1>2. /\ pc \in [Procs -> Labels] /\ di \in [Procs -> Nat \ {0}] /\ chk \in [Procs -> BOOLEAN]
      /\ claim \in [Decls -> Procs] /\ verdict \in [Decls -> {"none", "accepted", "rejected"}]
  BY DEF TypeOK
<1>3. \A i \in Decls : verdict'[i] # verdict[i] => pc[p] = "check" /\ i = di[p]
  BY VerdictFrame
<1>4. /\ pc[p] = "check" => chk[p] /\ di[p] \in Decls
      /\ Prebuilt => /\ p \in Workers
                     /\ \A q \in Workers : pc[q] \in {"test", "check"} /\ chk[q] => claim[di[q]] = q
      /\ ~Prebuilt => p = 0
      /\ \A q \in Workers : pc[q] \in {"test", "check"} => di[q] \in Decls
  BY LoopOwner, ProcFacts DEF Progress, ProgressAt, InHand, TypeOK
<1>5. \A i \in Decls : claim[i] # 0 => claim'[i] = claim[i]
  BY LoopFrame
<1>6. ASSUME Prebuilt, NEW i \in Decls, claim'[i] = 0
      PROVE  verdict'[i] = "none"
  <2>1. claim[i] = 0
    BY <1>5, <1>6
  <2>2. p # 0 /\ verdict[i] = "none"
    BY <1>4, <1>6, <2>1, ProcFacts DEF Unjudged
  <2> QED BY <1>3, <1>4, <1>6, <2>1, <2>2
<1>7. ASSUME Prebuilt, NEW q \in Workers, pc'[q] \in {"test", "check"}, chk'[q]
      PROVE  verdict'[di'[q]] = "none"
  <2>1. CASE q # p
    <3>1. pc'[q] = pc[q] /\ di'[q] = di[q] /\ chk'[q] = chk[q]
      BY <2>1, LoopFrame, ProcFacts
    <3>2. verdict[di[q]] = "none" /\ claim[di[q]] = q /\ di[q] \in Decls
      BY <1>4, <1>7, <3>1 DEF Unjudged
    <3> QED BY <1>3, <1>4, <1>7, <2>1, <3>1, <3>2
  <2>2. CASE q = p
    <3>1. CASE Claim(p)
      <4>1. /\ di[p] \in Decls /\ di' = di /\ verdict' = verdict
            /\ chk'[p] => claim[di[p]] = 0
        BY <1>2, <1>7, <3>1 DEF Claim, hist
      <4> QED BY <1>7, <2>2, <4>1 DEF Unjudged
    <3>2. CASE BeginsCheck(p)
      <4>1. di' = di /\ verdict' = verdict /\ chk[p] /\ pc[p] = "test"
        BY <3>2 DEF BeginsCheck, loc
      <4> QED BY <1>7, <2>2, <4>1 DEF Unjudged
    <3>3. CASE ~(Claim(p) \/ BeginsCheck(p))
      <4>1. pc'[p] \in {"claim", "report", "stop", "leave", "gone"}
        BY <1>2, <3>3 DEF Loop, LoopEnds, SeesStop, Escape, StoreStop, Report, worker_exit, Killed,
                          Skips, Check, Advance, add_unchecked, KernelError, Goto, Exit
      <4> QED BY <1>7, <2>2, <4>1
    <3> QED BY <3>1, <3>2, <3>3
  <2> QED BY <2>1, <2>2
<1>8. ASSUME ~Prebuilt, pc'[0] \in Looking \cup {"order"}, NEW i \in Decls, i >= di'[0]
      PROVE  verdict'[i] = "none"
  <2>1. p = 0 /\ di[0] \in Nat \ {0} /\ i \in Nat
    BY <1>2, <1>4, <1>8, ExportFacts
  <2>2. CASE Claim(p) \/ BeginsCheck(p)
    <3>1. di' = di /\ verdict' = verdict /\ pc[p] \in Looking
      BY <1>2, <2>2 DEF Claim, BeginsCheck, loc, hist, Looking
    <3> QED BY <1>8, <2>1, <3>1 DEF Unjudged
  <2>3. CASE Skips(p) \/ Check(p)
    <3>1. pc[p] \in Looking
      BY <2>3 DEF Skips, Check, Looking
    <3>2. /\ pc'[p] \in {"claim", "report", "stop"}
          /\ pc'[p] = "claim" => di'[p] = di[p] + 1
      BY <1>2, <2>3 DEF Skips, Check, Advance, add_unchecked, KernelError, Goto
    <3>3. di'[0] = di[0] + 1
      BY <1>8, <2>1, <3>2 DEF Looking
    <3>4. i >= di[0] /\ i # di[0]
      BY <1>8, <2>1, <3>3
    <3>5. verdict[i] = "none"
      BY <1>8, <2>1, <3>1, <3>4 DEF Unjudged
    <3> QED BY <1>3, <2>1, <3>4, <3>5
  <2>4. CASE ~(Claim(p) \/ BeginsCheck(p) \/ Skips(p) \/ Check(p))
    <3>1. pc'[p] \in {"report", "leave", "gone"}
      BY <1>2, <2>4 DEF Loop, LoopEnds, SeesStop, Escape, StoreStop, Report, worker_exit, Killed,
                        Goto, Exit
    <3> QED BY <1>8, <2>1, <3>1 DEF Looking
  <2> QED BY <2>2, <2>3, <2>4
<1> QED BY <1>1, <1>6, <1>7, <1>8 DEF Unjudged

LEMMA ParentUnjudged ==
  ASSUME TypeOK, Control, Forking, Progress, InHand, Unjudged, Parent
  PROVE  Unjudged'
<1>1. /\ UNCHANGED <<export, opt, di, chk, claim, verdict>> /\ Prebuilt' = Prebuilt
      /\ Decls' = Decls /\ Workers' = Workers
  BY ParentFrame, InputStays DEF Workers
<1>2. \A q \in Workers : pc'[q] \in {"test", "check"} => pc'[q] = pc[q]
  BY ParentFrame
<1>3. ~Prebuilt /\ pc'[0] \in Looking \cup {"order"} => pc[0] \in Looking \cup {"order"}
  BY ParentFrame DEF Control, Looking
<1> QED BY <1>1, <1>2, <1>3 DEF Unjudged

-----------------------------------------------------------------------------
(* The counters count the verdicts.                                          *)

LEMMA JudgedFinite ==
  ASSUME TypeOK, NEW p, NEW v
  PROVE  IsFiniteSet(JudgedBy(p, v)) /\ Cardinality(JudgedBy(p, v)) \in Nat
<1>1. Len(export) \in Nat /\ Decls = 1..Len(export)
  BY ExportFacts
<1>2. IsFiniteSet(Decls)
  BY <1>1, FS_Interval
<1>3. JudgedBy(p, v) \in SUBSET Decls
  BY DEF JudgedBy
<1> QED BY <1>2, <1>3, FS_Subset, FS_CardinalityType

\* What a step does to the local counters of its process.
LEMMA CounterFrame ==
  ASSUME TypeOK, NEW p \in Procs, Loop(p) \/ Killed(p)
  PROVE  /\ ~Skips(p) /\ ~Check(p) => ok' = ok /\ failed' = failed
         /\ Skips(p) => /\ ok' = ok /\ (Prebuilt => failed' = failed)
                        /\ failed'[p] \in Nat /\ failed'[p] >= failed[p]
         /\ Check(p) =>
              IF verdict'[di[p]] = "accepted"
                THEN ok'[p] = ok[p] + 1 /\ failed'[p] = failed[p]
                ELSE ok'[p] = ok[p] /\ failed'[p] = failed[p] + 1
<1> USE DEF TypeOK, loc
<1>1. CASE Check(p)
  <2>1. ~Skips(p) /\ di[p] \in Decls
    BY <1>1 DEF Check, Skips
  <2>2. IF check_decl(export[di[p]], CheckEnv(p))
          THEN verdict'[di[p]] = "accepted" /\ ok'[p] = ok[p] + 1 /\ failed'[p] = failed[p]
          ELSE verdict'[di[p]] = "rejected" /\ ok'[p] = ok[p] /\ failed'[p] = failed[p] + 1
    BY <1>1, <2>1 DEF Check, KernelError
  <2> HIDE DEF TypeOK, loc
  <2> QED BY <1>1, <2>1, <2>2
<1>2. CASE Skips(p)
  BY <1>2 DEF Skips, Check, add_unchecked, KernelError
<1>3. CASE ~Skips(p) /\ ~Check(p)
  <2>1. ok' = ok /\ failed' = failed
    BY <1>3 DEF Loop, Claim, LoopEnds, SeesStop, BeginsCheck, Escape, StoreStop, Report,
                worker_exit, Killed
  <2> QED BY <1>3, <2>1
<1> QED BY <1>1, <1>2, <1>3

\* A step moves at most one declaration into one of the sets of the process.
LEMMA JudgedFrame ==
  ASSUME TypeOK, Control, Progress, InHand, Unjudged, NEW p \in Procs, Loop(p) \/ Killed(p), Prebuilt,
         NEW q \in Workers, NEW v \in {"accepted", "rejected"}
  PROVE  IF Check(p) /\ q = p /\ verdict'[di[p]] = v
           THEN JudgedBy(q, v)' = JudgedBy(q, v) \cup {di[p]} /\ di[p] \notin JudgedBy(q, v)
           ELSE JudgedBy(q, v)' = JudgedBy(q, v)
<1>1. Decls' = Decls
  BY LoopFrame, InputStays
<1>2. p \in Workers /\ 0 \notin Workers
  BY LoopOwner, ProcFacts
<1>3. /\ \A i \in Decls : claim[i] # 0 => claim'[i] = claim[i]
      /\ \A i \in Decls : claim[i] = 0 => verdict[i] = "none"
  BY LoopFrame DEF Unjudged
<1>4. ASSUME Check(p)
      PROVE  /\ claim' = claim /\ di[p] \in Decls /\ claim[di[p]] = p /\ verdict[di[p]] = "none"
             /\ \A i \in Decls \ {di[p]} : verdict'[i] = verdict[i]
  <2>1. claim' = claim /\ pc[p] = "check" /\ chk[p]
    BY <1>4, ProcFacts DEF Check, Progress, ProgressAt
  <2> QED BY <1>2, <1>4, <2>1, VerdictFrame DEF InHand, Unjudged
<1>5. ASSUME ~Check(p)
      PROVE  /\ verdict' = verdict
             /\ \A i \in Decls : claim'[i] # claim[i] => verdict[i] = "none"
  BY <1>3, <1>5, VerdictFrame
<1>6. CASE Check(p) /\ q = p /\ verdict'[di[p]] = v
  <2>1. \A i \in Decls : claim'[i] = q /\ verdict'[i] = v <=>
                         (claim[i] = q /\ verdict[i] = v) \/ i = di[p]
    BY <1>4, <1>6
  <2>2. JudgedBy(q, v)' = JudgedBy(q, v) \cup {di[p]}
    BY <1>1, <1>4, <1>6, <2>1 DEF JudgedBy
  <2>3. di[p] \notin JudgedBy(q, v)
    BY <1>4, <1>6 DEF JudgedBy
  <2> QED BY <1>6, <2>2, <2>3
<1>7. CASE Check(p) /\ ~(q = p /\ verdict'[di[p]] = v)
  <2>1. \A i \in Decls : claim'[i] = q /\ verdict'[i] = v <=> claim[i] = q /\ verdict[i] = v
    BY <1>4, <1>7
  <2>2. JudgedBy(q, v)' = JudgedBy(q, v)
    BY <1>1, <2>1 DEF JudgedBy
  <2> QED BY <1>7, <2>2
<1>8. CASE ~Check(p)
  <2>1. \A i \in Decls : claim'[i] = q /\ verdict'[i] = v <=> claim[i] = q /\ verdict[i] = v
    BY <1>2, <1>3, <1>5, <1>8
  <2>2. JudgedBy(q, v)' = JudgedBy(q, v)
    BY <1>1, <2>1 DEF JudgedBy
  <2> QED BY <1>8, <2>2
<1> QED BY <1>6, <1>7, <1>8

LEMMA LoopCounted ==
  ASSUME TypeOK, Control, Progress, InHand, Unjudged, Counted, NEW p \in Procs, Loop(p) \/ Killed(p)
  PROVE  Counted'
<1>1. /\ Prebuilt' = Prebuilt /\ Decls' = Decls /\ Workers' = Workers
  BY LoopFrame, InputStays DEF Workers
<1>2. ASSUME Prebuilt, NEW q \in Workers
      PROVE  /\ ok'[q] = Cardinality(JudgedBy(q, "accepted")')
             /\ failed'[q] = Cardinality(JudgedBy(q, "rejected")')
  <2>1. /\ ok[q] = Cardinality(JudgedBy(q, "accepted"))
        /\ failed[q] = Cardinality(JudgedBy(q, "rejected"))
    BY <1>2 DEF Counted
  <2>2. CASE q = p /\ Check(p)
    <3>1. verdict'[di[p]] \in {"accepted", "rejected"}
      BY <2>2, VerdictFrame
    <3>2. \A v \in {"accepted", "rejected"} :
            Cardinality(JudgedBy(p, v) \cup {di[p]}) =
              IF di[p] \in JudgedBy(p, v) THEN Cardinality(JudgedBy(p, v))
                                          ELSE Cardinality(JudgedBy(p, v)) + 1
      BY JudgedFinite, FS_AddElement
    <3>3. CASE verdict'[di[p]] = "accepted"
      <4>1. /\ JudgedBy(p, "accepted")' = JudgedBy(p, "accepted") \cup {di[p]}
            /\ di[p] \notin JudgedBy(p, "accepted")
            /\ JudgedBy(p, "rejected")' = JudgedBy(p, "rejected")
        BY <1>2, <2>2, <3>3, JudgedFrame
      <4>2. ok'[p] = ok[p] + 1 /\ failed'[p] = failed[p]
        BY <2>2, <3>3, CounterFrame
      <4> QED BY <2>1, <2>2, <3>2, <4>1, <4>2
    <3>4. CASE verdict'[di[p]] = "rejected"
      <4>1. /\ JudgedBy(p, "rejected")' = JudgedBy(p, "rejected") \cup {di[p]}
            /\ di[p] \notin JudgedBy(p, "rejected")
            /\ JudgedBy(p, "accepted")' = JudgedBy(p, "accepted")
        BY <1>2, <2>2, <3>4, JudgedFrame
      <4>2. ok'[p] = ok[p] /\ failed'[p] = failed[p] + 1
        BY <2>2, <3>4, CounterFrame
      <4> QED BY <2>1, <2>2, <3>2, <4>1, <4>2
    <3> QED BY <3>1, <3>3, <3>4
  <2>3. CASE ~(q = p /\ Check(p))
    <3>1. /\ JudgedBy(q, "accepted")' = JudgedBy(q, "accepted")
          /\ JudgedBy(q, "rejected")' = JudgedBy(q, "rejected")
      BY <1>2, <2>3, JudgedFrame
    <3>2. ok'[q] = ok[q] /\ failed'[q] = failed[q]
      <4>1. CASE q = p
        BY <1>2, <2>3, <4>1, CounterFrame
      <4>2. CASE q # p
        BY <4>2, LoopFrame, ProcFacts
      <4> QED BY <4>1, <4>2
    <3> QED BY <2>1, <3>1, <3>2
  <2> QED BY <2>2, <2>3
<1>3. ASSUME ~Prebuilt, NEW i \in Decls, verdict'[i] = "rejected"
      PROVE  failed'[0] > 0
  <2>1. p = 0 /\ failed[0] \in Nat /\ failed'[0] \in Nat /\ failed'[0] >= failed[0]
    BY <1>3, LoopOwner, LoopFrame, LoopTypeOK, ProcFacts DEF TypeOK
  <2>2. CASE verdict'[i] = verdict[i]
    BY <1>3, <2>1, <2>2 DEF Counted
  <2>3. CASE verdict'[i] # verdict[i]
    <3>1. Check(p) /\ i = di[p]
      BY <2>3, VerdictFrame
    <3>2. failed'[p] = failed[p] + 1
      BY <1>3, <3>1, CounterFrame
    <3> QED BY <2>1, <3>2
  <2> QED BY <2>2, <2>3
<1> QED BY <1>1, <1>2, <1>3 DEF Counted

LEMMA ParentCounted ==
  ASSUME TypeOK, Control, Counted, Parent
  PROVE  Counted'
<1>1. /\ UNCHANGED <<export, opt, ok, failed, claim, verdict>> /\ Prebuilt' = Prebuilt
      /\ Decls' = Decls /\ Workers' = Workers
  BY ParentFrame, InputStays DEF Workers
<1> QED BY <1>1 DEF Counted, JudgedBy

-----------------------------------------------------------------------------
(* What the workers report and what the parent sums.                         *)

LEMMA LoopReported ==
  ASSUME TypeOK, Control, Progress, Reported, NEW p \in Procs, Loop(p) \/ Killed(p)
  PROVE  Reported'
<1>1. UNCHANGED <<export, opt>> /\ Workers' = Workers
  BY LoopFrame DEF Workers
<1>2. \A q \in Workers \ {p} :
        /\ pc'[q] = pc[q] /\ status'[q] = status[q] /\ failed'[q] = failed[q]
        /\ ok'[q] = ok[q] /\ results'[q] = results[q]
  BY LoopFrame, ProcFacts
<1>3. /\ pc \in [Procs -> Labels] /\ status \in [Procs -> Statuses] /\ ok \in [Procs -> Nat]
      /\ failed \in [Procs -> Nat] /\ results \in [Workers -> Counters]
  BY DEF TypeOK
<1>4. \A q \in Workers \ {p} : ReportedAt(q)'
  BY <1>1, <1>2 DEF Reported, ReportedAt
<1>5. ASSUME p \in Workers
      PROVE  ReportedAt(p)'
  <2>1. ReportedAt(p) /\ p # 0
    BY <1>5, ProcFacts DEF Reported
  <2>2. pc[p] \in InLoop /\ status[p] = "running" /\ p \in Procs
    BY <1>5, LoopOwner DEF Control
  <2>3. CASE Claim(p) \/ LoopEnds(p) \/ SeesStop(p) \/ BeginsCheck(p)
    <3>1. /\ UNCHANGED <<status, ok, failed, results>>
          /\ pc[p] \in {"claim", "test"} /\ pc'[p] \in {"test", "check", "report"}
      BY <1>3, <2>3 DEF Claim, LoopEnds, SeesStop, BeginsCheck, Goto, loc
    <3> QED BY <1>1, <2>1, <2>2, <3>1 DEF ReportedAt, InLoop, Looking, Exited
  <2>4. CASE Skips(p) \/ Check(p)
    <3>1. UNCHANGED <<status, results>> /\ pc[p] \in {"test", "check"}
      BY <2>4 DEF Skips, Check
    <3>2. pc'[p] \in {"claim", "report", "stop"}
      BY <2>4, IterationEnds
    <3>3. ~opt.keep_going /\ pc'[p] = "claim" => failed'[p] = failed[p]
      BY <1>3, <2>4 DEF Skips, Check, Advance, add_unchecked, KernelError, Goto
    <3> QED BY <1>1, <2>1, <2>2, <3>1, <3>2, <3>3 DEF ReportedAt, InLoop, Looking, Exited
  <2>5. CASE Escape(p)
    <3>1. /\ UNCHANGED <<ok, failed, results>> /\ opt.oom /\ pc[p] = "check"
          /\ pc'[p] = "gone" /\ status'[p] = "exit0"
      BY <1>3, <2>1, <2>5 DEF Escape, Goto, Exit, loc
    <3> QED BY <1>1, <2>1, <2>2, <3>1 DEF ReportedAt, InLoop, Looking, Exited
  <2>6. CASE StoreStop(p)
    <3>1. UNCHANGED <<status, ok, failed, results>> /\ pc[p] = "stop" /\ pc'[p] = "report"
      BY <1>3, <2>6 DEF StoreStop, Goto, loc
    <3> QED BY <1>1, <2>1, <2>2, <3>1 DEF ReportedAt, InLoop, Looking, Exited
  <2>7. CASE Report(p)
    <3>1. /\ UNCHANGED <<status, ok, failed>> /\ pc'[p] = "leave"
          /\ results'[p] = [ok |-> ok[p], failed |-> failed[p]]
      BY <1>3, <1>5, <2>1, <2>7 DEF Report, Goto, loc
    <3> QED BY <1>1, <2>1, <2>2, <3>1 DEF ReportedAt, InLoop, Looking, Exited
  <2>8. CASE worker_exit(p)
    <3>1. UNCHANGED <<ok, failed, results>> /\ pc[p] = "leave" /\ pc'[p] = "gone"
      BY <1>3, <2>8 DEF worker_exit, Goto, Exit, loc
    <3> QED BY <1>1, <2>1, <2>2, <3>1 DEF ReportedAt, InLoop, Looking, Exited
  <2>9. CASE Killed(p)
    <3>1. UNCHANGED <<ok, failed, results>> /\ pc'[p] = "gone" /\ status'[p] = "signal"
      BY <1>3, <2>9 DEF Killed, Goto, Exit, loc
    <3> QED BY <1>1, <2>1, <2>2, <3>1 DEF ReportedAt, InLoop, Looking, Exited
  <2> QED BY <2>3, <2>4, <2>5, <2>6, <2>7, <2>8, <2>9 DEF Loop
<1> QED BY <1>1, <1>4, <1>5 DEF Reported

LEMMA ParentReported ==
  ASSUME TypeOK, Control, Forking, Reported, Parent
  PROVE  Reported'
<1>1. UNCHANGED <<export, opt, ok, failed, results>> /\ Workers' = Workers
  BY ParentFrame DEF Workers
<1>2. ASSUME NEW q \in Workers
      PROVE  ReportedAt(q)'
  <2>1. ReportedAt(q)
    BY <1>2 DEF Reported
  <2>2. CASE pc'[q] = pc[q] /\ status'[q] = status[q]
    BY <1>1, <2>1, <2>2 DEF ReportedAt
  <2>3. CASE pc[0] = "fork" /\ q = kid + 1 /\ pc'[q] = "claim" /\ status'[q] = "running"
    <3>1. pc[q] = "unborn" /\ failed[q] = 0
      <4>1. kid \in Nat /\ q > kid
        BY <2>3 DEF TypeOK
      <4> QED BY <1>2, <2>3, <4>1 DEF Control, Forking
    <3> QED BY <1>1, <2>1, <2>3, <3>1 DEF ReportedAt, Exited, InLoop, Looking
  <2> QED BY <2>2, <2>3, ParentFrame
<1> QED BY <1>1, <1>2 DEF Reported

LEMMA FirstFinite ==
  ASSUME TypeOK, NEW k, NEW v
  PROVE  IsFiniteSet(JudgedByFirst(k, v)) /\ Cardinality(JudgedByFirst(k, v)) \in Nat
<1>1. Len(export) \in Nat /\ Decls = 1..Len(export)
  BY ExportFacts
<1>2. IsFiniteSet(Decls)
  BY <1>1, FS_Interval
<1>3. JudgedByFirst(k, v) \in SUBSET Decls
  BY DEF JudgedByFirst
<1> QED BY <1>2, <1>3, FS_Subset, FS_CardinalityType

\* The verdicts of the first k + 1 workers are those of the first k and of the last.
LEMMA FirstNext ==
  ASSUME TypeOK, NEW k \in Nat, NEW v
  PROVE  /\ Cardinality(JudgedByFirst(0, v)) = 0
         /\ Cardinality(JudgedByFirst(k + 1, v)) =
              Cardinality(JudgedByFirst(k, v)) + Cardinality(JudgedBy(k + 1, v))
<1>1. JudgedByFirst(0, v) = {}
  <2>1. 1..0 = {}
    OBVIOUS
  <2> QED BY <2>1 DEF JudgedByFirst
<1>2. 1..(k + 1) = 1..k \cup {k + 1} /\ k + 1 \notin 1..k
  OBVIOUS
<1>3. JudgedByFirst(k + 1, v) = JudgedByFirst(k, v) \cup JudgedBy(k + 1, v)
  BY <1>2 DEF JudgedByFirst, JudgedBy
<1>4. JudgedByFirst(k, v) \cap JudgedBy(k + 1, v) = {}
  BY <1>2 DEF JudgedByFirst, JudgedBy
<1>5. /\ IsFiniteSet(JudgedByFirst(k, v)) /\ Cardinality(JudgedByFirst(k, v)) \in Nat
      /\ IsFiniteSet(JudgedBy(k + 1, v)) /\ Cardinality(JudgedBy(k + 1, v)) \in Nat
  BY FirstFinite, JudgedFinite
<1>6. Cardinality(JudgedByFirst(k, v) \cup JudgedBy(k + 1, v)) =
        Cardinality(JudgedByFirst(k, v)) + Cardinality(JudgedBy(k + 1, v))
          - Cardinality(JudgedByFirst(k, v) \cap JudgedBy(k + 1, v))
  BY <1>5, FS_Union
<1>7. Cardinality(JudgedByFirst(k, v) \cap JudgedBy(k + 1, v)) = 0
  BY <1>4, FS_EmptySet
<1> QED BY <1>1, <1>3, <1>5, <1>6, <1>7, FS_EmptySet

\* A worker that is still in the loop judges nothing for those before it.
LEMMA FirstFrame ==
  ASSUME TypeOK, Control, Progress, InHand, Unjudged, NEW p \in Procs, Loop(p) \/ Killed(p), Prebuilt,
         NEW k \in Nat, p \notin 1..k, NEW v \in {"accepted", "rejected"}
  PROVE  JudgedByFirst(k, v)' = JudgedByFirst(k, v)
<1>1. Decls' = Decls
  BY LoopFrame, InputStays
<1>2. p \in Workers /\ 0 \notin Workers
  BY LoopOwner, ProcFacts
<1>3. /\ \A i \in Decls : claim[i] # 0 => claim'[i] = claim[i]
      /\ \A i \in Decls : claim[i] = 0 => verdict[i] = "none"
  BY LoopFrame DEF Unjudged
<1>4. 0 \notin 1..k
  OBVIOUS
<1>5. \A i \in Decls : claim'[i] \in 1..k /\ verdict'[i] = v <=> claim[i] \in 1..k /\ verdict[i] = v
  <2>1. CASE Check(p)
    <3>1. claim' = claim /\ pc[p] = "check" /\ chk[p]
      BY <2>1, ProcFacts DEF Check, Progress, ProgressAt
    <3>2. claim[di[p]] = p /\ \A i \in Decls : verdict'[i] # verdict[i] => i = di[p]
      BY <3>1, VerdictFrame DEF InHand
    <3> QED BY <3>1, <3>2
  <2>2. CASE ~Check(p)
    <3>1. verdict' = verdict
      BY <2>2, VerdictFrame
    <3> QED BY <1>3, <1>4, <3>1
  <2> QED BY <2>1, <2>2
<1> QED BY <1>1, <1>5 DEF JudgedByFirst

LEMMA LoopSummed ==
  ASSUME TypeOK, Control, Progress, InHand, Unjudged, Summed, NEW p \in Procs, Loop(p) \/ Killed(p)
  PROVE  Summed'
<1>1. /\ UNCHANGED <<export, opt, kid, died, tot>> /\ Prebuilt' = Prebuilt /\ Decls' = Decls
      /\ Workers' = Workers
  BY LoopFrame, InputStays DEF Workers
<1>2. pc[p] \in InLoop /\ (Prebuilt => p \in Workers) /\ (~Prebuilt => p = 0)
  BY LoopOwner
<1>3. CASE Prebuilt
  <2>1. pc'[0] = pc[0] /\ kid \in Nat
    BY <1>2, <1>3, LoopFrame, ProcFacts DEF TypeOK
  <2>2. ASSUME pc[0] = "wait" \/ (Prebuilt /\ pc[0] = "gone" /\ kid > opt.jobs)
        PROVE  /\ \A k \in 1..(kid - 1) : k \in Workers /\ pc'[k] = "gone"
               /\ JudgedByFirst(kid - 1, "accepted")' = JudgedByFirst(kid - 1, "accepted")
               /\ JudgedByFirst(kid - 1, "rejected")' = JudgedByFirst(kid - 1, "rejected")
    <3>1. kid \in 1..(opt.jobs + 1) /\ \A k \in 1..(kid - 1) : k \in Workers /\ pc[k] = "gone"
      BY <2>2 DEF Summed
    <3>2. p \notin 1..(kid - 1)
      BY <1>2, <3>1 DEF InLoop
    <3>3. \A k \in 1..(kid - 1) : k \in Workers /\ pc'[k] = "gone"
      BY <3>1, <3>2, LoopFrame, ProcFacts
    <3>4. kid - 1 \in Nat
      BY <2>1, <3>1
    <3>5. \A v \in {"accepted", "rejected"} : \A k \in Nat :
             k = kid - 1 => JudgedByFirst(k, v)' = JudgedByFirst(k, v)
      BY <1>3, <3>2, FirstFrame
    <3>7. ASSUME NEW v \in {"accepted", "rejected"}
          PROVE  JudgedByFirst(kid - 1, v)' = JudgedByFirst(kid - 1, v)
      <4>1. PICK k \in Nat : k = kid - 1
        BY <3>4
      <4>2. JudgedByFirst(k, v)' = JudgedByFirst(k, v)
        BY <3>5, <4>1
      <4> QED BY <1>1, <4>1, <4>2 DEF JudgedByFirst
    <3> QED BY <3>3, <3>7
  <2> QED BY <1>1, <2>1, <2>2 DEF Summed
<1>4. CASE ~Prebuilt
  <2>1. pc'[0] \in InLoop \cup {"gone"}
    BY <1>2, <1>4, LoopMoves
  <2> QED BY <1>1, <1>4, <2>1 DEF Summed, InLoop
<1> QED BY <1>3, <1>4

LEMMA ParentSummed ==
  ASSUME TypeOK, Control, Forking, Counted, Reported, Summed, Parent
  PROVE  Summed'
<1>1. /\ UNCHANGED <<export, opt, claim, verdict>> /\ Prebuilt' = Prebuilt /\ Decls' = Decls
      /\ Workers' = Workers
  BY ParentFrame, InputStays DEF Workers
<1>2. /\ kid \in Nat /\ opt.jobs \in Nat /\ opt.jobs <= MaxJobs /\ MaxJobs \in Nat
      /\ pc \in [Procs -> Labels] /\ tot \in Counters
  BY OptionFacts, ProcFacts DEF TypeOK
<1>3. \A k, v : JudgedByFirst(k, v)' = JudgedByFirst(k, v)
  BY <1>1 DEF JudgedByFirst
<1>4. \A q \in Workers : pc[q] = "gone" => pc'[q] = "gone"
  <2>1. \A q \in Workers : q = kid + 1 /\ pc[0] = "fork" => pc[q] = "unborn"
    <3>1. kid + 1 > kid
      BY <1>2
    <3> QED BY <3>1 DEF Forking
  <2> QED BY <2>1, ParentFrame
<1>5. CASE Wait
  <2>1. /\ pc[0] = "wait" /\ kid <= opt.jobs /\ status[kid] # "running" /\ pc' = pc
        /\ kid' = kid + 1 /\ died' = (died \/ ~Exited(status[kid]))
        /\ tot' = [ok |-> tot.ok + results[kid].ok, failed |-> tot.failed + results[kid].failed]
    BY <1>5 DEF Wait
  <2>2. /\ kid \in 1..(opt.jobs + 1) /\ kid \in Workers /\ pc[kid] = "gone" /\ Prebuilt
        /\ \A k \in 1..(kid - 1) : k \in Workers /\ pc[k] = "gone"
    <3>1. kid \in 1..(opt.jobs + 1) /\ \A k \in 1..(kid - 1) : k \in Workers /\ pc[k] = "gone"
      BY <2>1 DEF Summed
    <3>2. kid \in 1..opt.jobs /\ kid \in Workers
      BY <1>2, <2>1, <3>1 DEF Workers
    <3>3. pc[kid] # "unborn" /\ Prebuilt
      BY <2>1, <3>2 DEF Forking, Control
    <3>4. pc[kid] = "gone"
      BY <2>1, <3>2, <3>3 DEF Control
    <3> QED BY <3>1, <3>2, <3>3, <3>4
  <2>3. ASSUME ~died', ~opt.oom
        PROVE  /\ tot'.ok = Cardinality(JudgedByFirst(kid, "accepted"))
               /\ tot'.failed = Cardinality(JudgedByFirst(kid, "rejected"))
    <3>1. ~died /\ results[kid] = [ok |-> ok[kid], failed |-> failed[kid]]
      BY <2>1, <2>2, <2>3 DEF Reported, ReportedAt
    <3>2. /\ ok[kid] = Cardinality(JudgedBy(kid, "accepted"))
          /\ failed[kid] = Cardinality(JudgedBy(kid, "rejected"))
      BY <2>2 DEF Counted
    <3>3. /\ tot.ok = Cardinality(JudgedByFirst(kid - 1, "accepted"))
          /\ tot.failed = Cardinality(JudgedByFirst(kid - 1, "rejected"))
      BY <2>1, <2>3, <3>1 DEF Summed
    <3>4. kid - 1 \in Nat /\ (kid - 1) + 1 = kid
      BY <1>2, <2>2
    <3>5. \A v : Cardinality(JudgedByFirst((kid - 1) + 1, v)) =
                   Cardinality(JudgedByFirst(kid - 1, v)) + Cardinality(JudgedBy((kid - 1) + 1, v))
      BY <3>4, FirstNext
    <3>6. /\ tot'.ok = tot.ok + ok[kid] /\ tot'.failed = tot.failed + failed[kid]
      BY <2>1, <3>1
    <3> QED BY <3>2, <3>3, <3>4, <3>5, <3>6
  <2>4. kid' - 1 = kid /\ kid' \in 1..(opt.jobs + 1)
    BY <1>2, <2>1
  <2>5. \A k \in 1..kid : k \in Workers /\ pc'[k] = "gone"
    BY <1>2, <2>1, <2>2
  <2>6. /\ JudgedByFirst(kid - 1, "accepted")' = JudgedByFirst(kid, "accepted")
        /\ JudgedByFirst(kid - 1, "rejected")' = JudgedByFirst(kid, "rejected")
    BY <1>1, <2>4 DEF JudgedByFirst
  <2> QED BY <1>1, <2>1, <2>2, <2>3, <2>4, <2>5, <2>6 DEF Summed
<1>6. CASE ForkedAll
  <2>1. kid' = 1 /\ pc'[0] = "wait" /\ pc[0] = "fork" /\ tot' = tot /\ died' = died
    BY <1>2, <1>6, ProcFacts DEF ForkedAll, Goto
  <2>2. tot = [ok |-> 0, failed |-> 0]
    BY <2>1 DEF Summed
  <2>3. /\ Cardinality(JudgedByFirst(0, "accepted")) = 0
        /\ Cardinality(JudgedByFirst(0, "rejected")) = 0
    BY FirstNext
  <2>4. kid' - 1 = 0 /\ 1 \in 1..(opt.jobs + 1) /\ 1..0 = {}
    BY <1>2, <2>1
  <2>5. /\ JudgedByFirst(kid - 1, "accepted")' = JudgedByFirst(0, "accepted")
        /\ JudgedByFirst(kid - 1, "rejected")' = JudgedByFirst(0, "rejected")
    BY <1>1, <2>4 DEF JudgedByFirst
  <2> QED BY <1>1, <2>1, <2>2, <2>3, <2>4, <2>5 DEF Summed
<1>7. CASE VerifyOrder \/ Prebuild \/ Fork \/ ForkFails
  <2>1. /\ pc[0] \in {"order", "prebuild", "fork"} /\ tot' = tot /\ died' = died
        /\ pc'[0] \in {"claim", "gone", "prebuild", "fork"}
        /\ pc'[0] = "gone" => kid' = kid
    <3>1. kid + 1 # 0
      BY <1>2
    <3>2. CASE Fork
      BY <1>2, <3>1, <3>2, ProcFacts DEF Fork
    <3> QED BY <1>2, <1>7, <3>2, ProcFacts DEF VerifyOrder, Prebuild, ForkFails, Goto, Exit, par
  <2>2. kid <= opt.jobs
    BY <2>1 DEF Forking
  <2> QED BY <1>1, <1>2, <2>1, <2>2 DEF Summed
<1>8. CASE ParentReturns
  <2>1. /\ pc[0] = "wait" /\ pc'[0] = "gone" /\ kid' = kid /\ tot' = tot /\ died' = died
    BY <1>2, <1>8, ProcFacts DEF ParentReturns, Goto, Exit, par
  <2>2. /\ JudgedByFirst(kid - 1, "accepted")' = JudgedByFirst(kid - 1, "accepted")
        /\ JudgedByFirst(kid - 1, "rejected")' = JudgedByFirst(kid - 1, "rejected")
    BY <1>1, <2>1 DEF JudgedByFirst
  <2>3. \A k \in 1..(kid - 1) : k \in Workers /\ pc'[k] = "gone"
    BY <1>4, <2>1 DEF Summed
  <2> QED BY <1>1, <2>1, <2>2, <2>3 DEF Summed
<1> QED BY <1>5, <1>6, <1>7, <1>8 DEF Parent

-----------------------------------------------------------------------------
(* An export that passes in file order.                                      *)

LEMMA SoundOrdered ==
  ASSUME TypeOK, AllSound
  PROVE  check_topological_order
<1> SUFFICES ASSUME NEW i \in Decls, NEW n \in export[i].cites, Introduced(n, Decls)
             PROVE  Introduced(n, 1..i)
  BY DEF check_topological_order
<1>1. i \in Nat \ {0}
  BY ExportFacts
<1>2. n \in Earlier(i) \cup export[i].names
  BY DEF AllSound, SequentiallySound, check_decl
<1>3. CASE n \in Earlier(i)
  <2>1. Introduced(n, 1..(i - 1)) /\ 1..(i - 1) \subseteq 1..i
    BY <1>1, <1>3, EarlierFacts
  <2> QED BY <2>1 DEF Introduced
<1>4. CASE n \in export[i].names
  <2>1. i \in 1..i
    BY <1>1
  <2> QED BY <1>4, <2>1 DEF Introduced
<1> QED BY <1>2, <1>3, <1>4

LEMMA LoopUnfailing ==
  ASSUME TypeOK, Control, Progress, EnvironmentsExact, Unfailing, NEW p \in Procs, Loop(p) \/ Killed(p)
  PROVE  Unfailing'
<1>1. /\ UNCHANGED <<export, opt, kid, died, tot>> /\ Prebuilt' = Prebuilt /\ AllSound' = AllSound
      /\ Workers' = Workers /\ Procs' = Procs
  BY LoopFrame, InputStays DEF Workers, Procs
<1>2. /\ pc \in [Procs -> Labels] /\ status \in [Procs -> Statuses] /\ ok \in [Procs -> Nat]
      /\ failed \in [Procs -> Nat] /\ results \in [Workers -> Counters]
  BY DEF TypeOK
<1>3. pc[p] \in InLoop /\ (p \in Workers => status[p] = "running") /\ (p = 0 => pc[p] # "leave")
  BY LoopOwner DEF Control
<1> SUFFICES ASSUME AllSound PROVE Unfailing'
  BY <1>1 DEF Unfailing
<1>4. /\ \A q \in Procs : failed[q] = 0 /\ pc[q] # "stop"
      /\ \A q \in Workers : results[q].failed = 0
      /\ tot.failed = 0
      /\ died => \E q \in Workers : status[q] = "signal"
      /\ status[0] = "exit1" => opt.oom \/ died \/ (Prebuilt /\ kid <= opt.jobs)
  BY DEF Unfailing
<1>5. failed' = failed /\ pc'[p] # "stop"
  <2>1. CASE Skips(p)
    <3>1. pc[p] \in {"test", "check"} /\ di[p] \in Decls
      BY <2>1 DEF Skips, TypeOK
    <3>2. ~Prebuilt => export[di[p]].names \cap env[p] = {}
      BY <3>1, SoundPasses DEF AllSound
    <3> QED BY <1>2, <2>1, <3>2 DEF Skips, add_unchecked, Advance, Goto
  <2>2. CASE Check(p)
    <3>1. pc[p] \in {"test", "check"} /\ di[p] \in Decls
      BY <2>2 DEF Check, TypeOK
    <3>2. check_decl(export[di[p]], CheckEnv(p))
      BY <3>1, SoundPasses DEF AllSound
    <3> QED BY <1>2, <2>2, <3>2 DEF Check, Advance, Goto
  <2>3. CASE ~Skips(p) /\ ~Check(p)
    <3>1. pc'[p] # "stop"
      BY <1>2, <2>3 DEF Loop, Claim, LoopEnds, SeesStop, BeginsCheck, Escape, StoreStop, Report,
                        worker_exit, Killed, Goto, Exit
    <3> QED BY <2>3, <3>1, CounterFrame
  <2> QED BY <2>1, <2>2, <2>3
<1>6. \A q \in Procs : failed'[q] = 0 /\ pc'[q] # "stop"
  BY <1>4, <1>5, LoopFrame
<1>7. \A q \in Workers : results'[q].failed = 0
  <2>1. CASE Report(p)
    BY <1>2, <1>4, <2>1, ProcFacts DEF Report
  <2>2. CASE ~Report(p)
    <3>1. results' = results
      BY <2>2 DEF Loop, Claim, LoopEnds, SeesStop, BeginsCheck, Skips, Check, Escape, StoreStop,
                  worker_exit, Killed
    <3> QED BY <1>4, <3>1
  <2> QED BY <2>1, <2>2
<1>8. died => \E q \in Workers : status'[q] = "signal"
  <2>1. \A q \in Workers : status[q] = "signal" => status'[q] = "signal"
    BY <1>3, LoopFrame, ProcFacts
  <2> QED BY <1>4, <2>1
<1>9. status'[0] = "exit1" => opt.oom \/ died \/ (Prebuilt /\ kid <= opt.jobs)
  <2>1. CASE p # 0
    BY <1>4, <2>1, LoopFrame, ProcFacts
  <2>2. CASE p = 0
    <3>1. CASE Report(p)
      <4>1. status'[0] = "exit0"
        BY <1>2, <1>4, <2>2, <3>1 DEF Report, Exit
      <4> QED BY <4>1
    <3>2. CASE Escape(p)
      BY <3>2 DEF Escape
    <3>3. CASE ~Report(p) /\ ~Escape(p)
      <4>1. status' = status
        BY <1>3, <2>2, <3>3, ProcFacts DEF Loop, Claim, LoopEnds, SeesStop, BeginsCheck, Skips, Check,
                               StoreStop, worker_exit, Killed
      <4> QED BY <1>4, <4>1
    <3> QED BY <3>1, <3>2, <3>3
  <2> QED BY <2>1, <2>2
<1> QED BY <1>1, <1>4, <1>6, <1>7, <1>8, <1>9 DEF Unfailing

LEMMA ParentUnfailing ==
  ASSUME TypeOK, Control, Forking, Unfailing, Parent
  PROVE  Unfailing'
<1>1. /\ UNCHANGED <<export, opt, failed, results>> /\ Prebuilt' = Prebuilt /\ AllSound' = AllSound
      /\ Workers' = Workers /\ Procs' = Procs
  BY ParentFrame, InputStays DEF Workers, Procs
<1>2. /\ kid \in Nat /\ opt.jobs \in Nat /\ opt.jobs <= MaxJobs /\ MaxJobs \in Nat
      /\ pc \in [Procs -> Labels] /\ status \in [Procs -> Statuses] /\ tot \in Counters
  BY OptionFacts, ProcFacts DEF TypeOK
<1> SUFFICES ASSUME AllSound PROVE Unfailing'
  BY <1>1 DEF Unfailing
<1>3. /\ \A q \in Procs : failed[q] = 0 /\ pc[q] # "stop"
      /\ \A q \in Workers : results[q].failed = 0
      /\ tot.failed = 0
      /\ died => \E q \in Workers : status[q] = "signal"
  BY DEF Unfailing
<1>4. \A q \in Procs : pc'[q] # "stop"
  BY <1>3, ParentFrame, ProcFacts
<1>5. tot'.failed = 0 /\ (died' => \E q \in Workers : status'[q] = "signal")
  <2>1. CASE Wait
    <3>1. /\ pc[0] = "wait" /\ kid <= opt.jobs /\ status[kid] # "running" /\ status' = status
          /\ died' = (died \/ ~Exited(status[kid]))
          /\ tot' = [ok |-> tot.ok + results[kid].ok, failed |-> tot.failed + results[kid].failed]
      BY <2>1 DEF Wait
    <3>2. kid \in 1..opt.jobs /\ kid \in Workers /\ pc[kid] # "unborn"
      <4>1. kid \in 1..opt.jobs
        BY <1>2, <3>1 DEF Forking
      <4> QED BY <1>2, <3>1, <4>1 DEF Forking, Workers
    <3>3. status[kid] \in Statuses /\ status[kid] # "unborn"
      BY <1>2, <3>2, ProcFacts DEF Control
    <3>4. ~Exited(status[kid]) => status[kid] = "signal"
      BY <3>1, <3>3 DEF Statuses, Exited
    <3>5. tot'.failed = 0
      BY <1>3, <3>1, <3>2
    <3> QED BY <1>3, <3>1, <3>2, <3>4, <3>5
  <2>2. CASE ~Wait
    <3>1. tot' = tot /\ died' = died
      BY <2>2 DEF Parent, VerifyOrder, Prebuild, Fork, ForkFails, ForkedAll, ParentReturns, par
    <3>2. \A q \in Workers : status[q] = "signal" => status'[q] = "signal"
      <4>1. \A q \in Workers : q = kid + 1 /\ pc[0] = "fork" => status[q] = "unborn"
        <5>1. kid + 1 > kid
          BY <1>2
        <5> QED BY <5>1 DEF Forking, Control
      <4> QED BY <4>1, ParentFrame
    <3> QED BY <1>3, <3>1, <3>2
  <2> QED BY <2>1, <2>2
<1>6. status'[0] = "exit1" => opt.oom \/ died' \/ (Prebuilt /\ kid' <= opt.jobs)
  <2>1. status[0] # "exit1"
    BY ParentFrame DEF Control
  <2>2. CASE VerifyOrder
    BY <1>2, <2>1, <2>2, SoundOrdered DEF VerifyOrder
  <2>3. CASE Prebuild \/ ForkFails
    <3>1. kid' = kid /\ pc[0] \in {"prebuild", "fork"}
      BY <2>3 DEF Prebuild, ForkFails, par
    <3> QED BY <3>1 DEF Control, Forking
  <2>4. CASE Fork
    <3>1. kid + 1 # 0
      BY <1>2
    <3> QED BY <1>2, <2>1, <2>4, <3>1, ProcFacts DEF Fork
  <2>5. CASE ForkedAll \/ Wait
    BY <2>1, <2>5 DEF ForkedAll, Wait
  <2>6. CASE ParentReturns
    <3>1. died' = died
      BY <2>6 DEF ParentReturns, par
    <3>2. status'[0] = IF died \/ tot.failed > 0 THEN "exit1" ELSE "exit0"
      BY <1>2, <2>6, ProcFacts DEF ParentReturns, Exit
    <3> QED BY <1>3, <3>1, <3>2
  <2> QED BY <2>2, <2>3, <2>4, <2>5, <2>6 DEF Parent
<1> QED BY <1>1, <1>3, <1>4, <1>5, <1>6 DEF Unfailing
-----------------------------------------------------------------------------
(* The invariant.                                                            *)

VInv ==
  /\ EnvironmentsExact /\ Unjudged /\ Counted /\ Reported /\ Summed /\ Unfailing

LEMMA InitVInv == Init => VInv
<1> SUFFICES ASSUME Init PROVE VInv
  OBVIOUS
<1>0. TypeOK
  BY InitTypeOK
<1>1. /\ \A p \in Workers : pc[p] = "unborn" /\ status[p] = "unborn"
      /\ \A p \in Procs : ok[p] = 0 /\ failed[p] = 0 /\ di[p] = 1
      /\ \A p \in Workers : results[p] = [ok |-> 0, failed |-> 0]
      /\ pc[0] = "order" /\ status[0] = "running"
      /\ \A i \in Decls : verdict[i] = "none"
      /\ tot = [ok |-> 0, failed |-> 0] /\ died = FALSE
  BY ProcFacts DEF Init
<1>2. \A p \in Procs : pc[p] \in {"unborn", "order"}
  BY <1>1, ProcFacts
<1>3. EnvironmentsExact
  BY <1>2 DEF EnvironmentsExact, EnvironmentExactAt, Looking
<1>4. Unjudged
  BY <1>1 DEF Unjudged
<1>5. Counted
  <2>1. \A p : JudgedBy(p, "accepted") = {} /\ JudgedBy(p, "rejected") = {}
    BY <1>1 DEF JudgedBy
  <2>2. Cardinality({}) = 0
    BY FS_EmptySet
  <2> QED BY <1>1, <2>1, <2>2, ProcFacts DEF Counted
<1>6. Reported
  BY <1>1, ProcFacts DEF Reported, ReportedAt, Exited, InLoop, Looking
<1>7. Summed
  BY <1>1 DEF Summed
<1>8. Unfailing
  BY <1>1, <1>2, ProcFacts DEF Unfailing
<1> QED BY <1>3, <1>4, <1>5, <1>6, <1>7, <1>8 DEF VInv

LEMMA NextVInv == IInv /\ VInv /\ [Next]_vars => VInv'
<1> SUFFICES ASSUME IInv, VInv, [Next]_vars PROVE VInv'
  OBVIOUS
<1> USE DEF IInv, VInv
<1>1. CASE Parent
  BY <1>1, ParentEnvironmentsExact, ParentUnjudged, ParentCounted, ParentReported, ParentSummed,
     ParentUnfailing
<1>2. ASSUME NEW p \in Procs, Loop(p) \/ Killed(p)
      PROVE  VInv'
  <2>1. EnvironmentsExact' /\ Unjudged' /\ Counted'
    BY <1>2, LoopEnvironmentsExact, LoopUnjudged, LoopCounted
  <2>2. Reported' /\ Summed' /\ Unfailing'
    BY <1>2, LoopReported, LoopSummed, LoopUnfailing
  <2> QED BY <2>1, <2>2
<1>3. CASE UNCHANGED vars
  <2>1. /\ UNCHANGED <<export, opt, pc, status, di, chk, env, ok, failed, claim, results, kid, died, tot,
                       verdict>>
        /\ Prebuilt' = Prebuilt /\ Decls' = Decls /\ AllNames' = AllNames
        /\ NoRedeclaration' = NoRedeclaration /\ AllSound' = AllSound
        /\ Workers' = Workers /\ Procs' = Procs
    BY <1>3, InputStays DEF vars, loc, par, hist, Workers, Procs
  <2>2. EnvironmentsExact' /\ Unjudged' /\ Counted'
    <3>1. EnvironmentsExact'
      BY <2>1 DEF EnvironmentsExact, EnvironmentExactAt, Earlier
    <3>2. Unjudged'
      BY <2>1 DEF Unjudged
    <3>3. Counted'
      BY <2>1 DEF Counted, JudgedBy
    <3> QED BY <3>1, <3>2, <3>3
  <2>3. Reported' /\ Summed' /\ Unfailing'
    BY <2>1 DEF Reported, ReportedAt, Summed, JudgedByFirst, Unfailing
  <2> QED BY <2>2, <2>3
<1> QED BY <1>1, <1>2, <1>3 DEF Next, Terminated

\* What the processes decide, count and report, in every reachable state.
THEOREM VerdictInvariance == Spec => [](IInv /\ VInv)
<1>1. Init => IInv /\ VInv
  BY InitIInv, InitVInv
<1>2. IInv /\ VInv /\ [Next]_vars => (IInv /\ VInv)'
  BY NextIInv, NextVInv
<1> QED BY <1>1, <1>2, PTL DEF Spec

-----------------------------------------------------------------------------
(* What it is for.                                                           *)

\* Every verdict is the verdict of a worker that was forked.
LEMMA JudgeForked ==
  ASSUME IInv, VInv, Prebuilt, NEW i \in Decls, verdict[i] # "none"
  PROVE  claim[i] \in 1..opt.jobs /\ claim[i] \in Workers /\ pc[claim[i]] # "unborn"
<1>a. TypeOK /\ Control /\ Unjudged /\ Counted
  BY DEF IInv, VInv
<1>1. claim[i] \in Workers
  BY <1>a, ProcFacts DEF Unjudged, TypeOK
<1>2. verdict[i] \in {"accepted", "rejected"}
  BY <1>a DEF TypeOK
<1>3. i \in JudgedBy(claim[i], verdict[i])
  BY DEF JudgedBy
<1>4. Cardinality(JudgedBy(claim[i], verdict[i])) # 0
  BY <1>3, <1>a, JudgedFinite, FS_EmptySet
<1>5. ok[claim[i]] # 0 \/ failed[claim[i]] # 0
  BY <1>1, <1>2, <1>4, <1>a DEF Counted
<1>6. pc[claim[i]] # "unborn"
  BY <1>1, <1>5, <1>a DEF Control
<1>7. claim[i] <= opt.jobs
  BY <1>1, <1>6, <1>a DEF Control
<1> QED BY <1>1, <1>6, <1>7 DEF Workers

\* An export whose declarations all pass in file order is accepted with any number
\* of workers, unless a worker is killed, an allocation or a system call fails.
THEOREM SoundExports == Spec => []SoundExportAccepted
<1>1. ASSUME IInv, VInv, Exited(status[0]), ~opt.oom, \A p \in Workers : status[p] # "signal",
             Prebuilt => kid > opt.jobs, AllSound
      PROVE  status[0] = "exit0"
  <2>1. kid \in Nat /\ opt.jobs \in Nat
    BY <1>1, OptionFacts DEF IInv, TypeOK
  <2>2. status[0] = "exit1" => died \/ (Prebuilt /\ kid <= opt.jobs)
    BY <1>1 DEF VInv, Unfailing
  <2>3. ~died
    BY <1>1 DEF VInv, Unfailing
  <2> QED BY <1>1, <2>1, <2>2, <2>3 DEF Exited
<1>2. IInv /\ VInv => SoundExportAccepted
  BY <1>1 DEF SoundExportAccepted, AllSound
<1> QED BY <1>2, VerdictInvariance, PTL

\* The totals that the parent prints count each accepted and each rejected
\* declaration once, however the workers shared them out.
THEOREM Totals == Spec => []TotalsAddUp
<1>1. ASSUME IInv, VInv, pc[0] = "gone", kid > opt.jobs, Prebuilt, ~opt.oom, ~died
      PROVE  /\ tot.ok = Cardinality({i \in Decls : verdict[i] = "accepted"})
             /\ tot.failed = Cardinality({i \in Decls : verdict[i] = "rejected"})
  <2>a. TypeOK /\ Summed /\ opt.jobs \in Nat
    BY <1>1, OptionFacts DEF IInv, VInv
  <2>1. /\ kid \in 1..(opt.jobs + 1)
        /\ tot.ok = Cardinality(JudgedByFirst(kid - 1, "accepted"))
        /\ tot.failed = Cardinality(JudgedByFirst(kid - 1, "rejected"))
    BY <1>1, <2>a DEF Summed
  <2>2. kid - 1 = opt.jobs
    BY <1>1, <2>a, <2>1
  <2>3. \A v \in {"accepted", "rejected"} :
          JudgedByFirst(opt.jobs, v) = {i \in Decls : verdict[i] = v}
    BY <1>1, JudgeForked DEF JudgedByFirst
  <2> QED BY <2>1, <2>2, <2>3
<1>2. IInv /\ VInv => TotalsAddUp
  BY <1>1 DEF TotalsAddUp
<1> QED BY <1>2, VerdictInvariance, PTL
-----------------------------------------------------------------------------
(* The refinement of Verdict.                                                *)

\* A hypothesis about the exports: the type of a literal that the export
\* introduces at all is introduced no later than by the declaration with the
\* literal.  The order check of the program does not establish it, and the claim
\* of main.cpp:226 fails without it.
NoEarlyLiteral ==
  \A x \in Exports : \A i \in DOMAIN x : \A n \in x[i].lits :
    (\E j \in DOMAIN x : n \in x[j].names) => \E j \in 1..i : n \in x[j].names

\* A hypothesis about the command lines: where allocations may fail, there are no
\* workers or the run ends at the first rejection.  Otherwise a worker that has
\* rejected and goes on may lose its report to an exception (main.cpp:424), and
\* the run answers 0 with a declaration rejected.
RejectionsReported ==
  \A o \in Opts : o.oom => ~o.keep_going \/ o.jobs = 1

\* What a process accepts a single process accepts in file order.
LEMMA AcceptsInOrder ==
  ASSUME TypeOK, Control, EnvironmentsExact, NoEarlyLiteral, NEW p \in Procs, pc[p] = "check",
         check_decl(export[di[p]], CheckEnv(p))
  PROVE  SequentiallySound(di[p])
<1>1. di[p] \in Decls /\ di[p] \in Nat \ {0}
  BY DEF TypeOK
<1>2. IF Prebuilt THEN env[p] = AllNames /\ NoRedeclaration ELSE env[p] = Earlier(di[p])
  BY DEF EnvironmentsExact, EnvironmentExactAt, Looking
<1>3. CASE ~Prebuilt
  BY <1>2, <1>3 DEF CheckEnv, SequentiallySound
<1>4. CASE Prebuilt
  <2>1. check_topological_order
    BY <1>4, ProcFacts DEF Control
  <2>2. \A n \in export[di[p]].cites \cup export[di[p]].lits :
          Introduced(n, Decls) => Introduced(n, 1..di[p])
    <3>1. \A n \in export[di[p]].cites : Introduced(n, Decls) => Introduced(n, 1..di[p])
      BY <1>1, <2>1 DEF check_topological_order
    <3>2. \A n \in export[di[p]].lits : Introduced(n, Decls) => Introduced(n, 1..di[p])
      BY <1>1 DEF NoEarlyLiteral, Introduced, TypeOK, Decls
    <3> QED BY <3>1, <3>2
  <2>3. 1..di[p] = 1..(di[p] - 1) \cup {di[p]} /\ 1..(di[p] - 1) \subseteq Decls \ {di[p]}
    BY <1>1, ExportFacts
  <2>4. \A n : n \notin export[di[p]].names /\ Introduced(n, 1..di[p]) => n \in Earlier(di[p])
    BY <2>3, EarlierFacts DEF Introduced
  <2>5. export[di[p]].names \cap Earlier(di[p]) = {}
    BY <1>1, <1>2, <1>4, <2>3, EarlierFacts DEF NoRedeclaration, Introduced
  <2> DEFINE d == export[di[p]]
  <2>6. /\ d.judgement = "right"
        /\ d.cites \cup d.lits \subseteq (AllNames \ d.names) \cup (IF d.self THEN d.names ELSE {})
    BY <1>2, <1>4 DEF check_decl, CheckEnv
  <2>7. d.cites \cup d.lits \subseteq Earlier(di[p]) \cup (IF d.self THEN d.names ELSE {})
    <3>1. ASSUME NEW n \in d.cites \cup d.lits, n \notin (IF d.self THEN d.names ELSE {})
          PROVE  n \in Earlier(di[p])
      <4>1. n \notin d.names /\ Introduced(n, Decls)
        BY <2>6, <3>1, EarlierFacts
      <4> QED BY <2>2, <2>4, <4>1
    <3> QED BY <3>1
  <2> QED BY <2>5, <2>6, <2>7 DEF SequentiallySound, check_decl
<1> QED BY <1>3, <1>4

\* "sound because the order was just verified" holds of every export that respects
\* the order of its literals' types too: what a worker accepts against an
\* environment that holds every declaration, a single process accepts.
THEOREM AcceptedInFileOrder ==
  ASSUME NoEarlyLiteral
  PROVE  Spec => []AcceptedInOrder
<1>1. Init => AcceptedInOrder
  BY DEF Init, AcceptedInOrder
<1>2. IInv /\ VInv /\ AcceptedInOrder /\ [Next]_vars => AcceptedInOrder'
  <2> SUFFICES ASSUME IInv, VInv, AcceptedInOrder, [Next]_vars PROVE AcceptedInOrder'
    OBVIOUS
  <2>a. TypeOK /\ Control /\ EnvironmentsExact
    BY DEF IInv, VInv
  <2>1. CASE Parent \/ UNCHANGED vars
    <3>1. UNCHANGED <<export, opt, verdict>>
      BY <2>a, <2>1, ParentFrame DEF vars, hist
    <3> QED BY <3>1, InputStays DEF AcceptedInOrder
  <2>2. ASSUME NEW p \in Procs, Loop(p) \/ Killed(p)
        PROVE  AcceptedInOrder'
    <3>1. UNCHANGED <<export, opt>>
      BY <2>a, <2>2, LoopFrame
    <3>2. ASSUME NEW i \in Decls, verdict'[i] = "accepted"
          PROVE  SequentiallySound(i)
      <4>1. CASE verdict[i] = "accepted"
        BY <4>1 DEF AcceptedInOrder
      <4>2. CASE verdict[i] # "accepted"
        <5>1. Check(p) /\ i = di[p]
          BY <2>a, <2>2, <3>2, <4>2, VerdictFrame
        <5>2. pc[p] = "check" /\ check_decl(export[di[p]], CheckEnv(p))
          BY <2>a, <2>2, <3>2, <5>1, VerdictFrame
        <5> QED BY <2>a, <5>1, <5>2, AcceptsInOrder
      <4> QED BY <4>1, <4>2
    <3> QED BY <3>1, <3>2, InputStays DEF AcceptedInOrder
  <2> QED BY <2>1, <2>2 DEF Next, Terminated
<1> QED BY <1>1, <1>2, VerdictInvariance, PTL DEF Spec

\* A run that answers 0 rejected nothing.
NothingRejected == status[0] = "exit0" => \A i \in Decls : verdict[i] # "rejected"

LEMMA ExitZeroRejectsNothing == IInv /\ VInv /\ RejectionsReported => NothingRejected
<1> SUFFICES ASSUME IInv, VInv, RejectionsReported, status[0] = "exit0", NEW i \in Decls
             PROVE  verdict[i] # "rejected"
  BY DEF NothingRejected
<1>a. TypeOK /\ Control /\ Waited /\ Left /\ Unjudged /\ Counted /\ Reported
  BY DEF IInv, VInv
<1>b. opt.jobs \in Nat /\ kid \in Nat /\ opt \in Opts
  BY <1>a, OptionFacts DEF TypeOK
<1> SUFFICES ASSUME verdict[i] = "rejected" PROVE FALSE
  OBVIOUS
<1>1. CASE ~Prebuilt
  <2>1. failed[0] = 0
    BY <1>1, <1>a DEF Left
  <2>2. failed[0] > 0
    BY <1>1, <1>a DEF Counted
  <2> QED BY <2>1, <2>2
<1>2. CASE Prebuilt
  <2> DEFINE q == claim[i]
  <2>1. q \in 1..opt.jobs /\ q \in Workers
    BY <1>2, JudgeForked
  <2>2. kid > opt.jobs /\ ~died /\ tot.failed = 0
    BY <1>2, <1>a DEF Waited
  <2>3. q \in 1..(kid - 1)
    BY <1>b, <2>1, <2>2
  <2>4. Exited(status[q]) /\ results[q].failed = 0
    BY <1>2, <1>a, <2>1, <2>2, <2>3 DEF Waited
  <2>5. ~opt.oom \/ ~opt.keep_going
    BY <1>2, <1>b DEF RejectionsReported, Prebuilt
  <2>6. failed[q] = 0
    BY <1>a, <2>1, <2>4, <2>5 DEF Reported, ReportedAt
  <2>7. Cardinality(JudgedBy(q, "rejected")) = 0
    BY <1>2, <1>a, <2>1, <2>6 DEF Counted
  <2>8. JudgedBy(q, "rejected") = {}
    BY <1>a, <2>7, JudgedFinite, FS_EmptySet
  <2> QED BY <2>8 DEF JudgedBy
<1> QED BY <1>1, <1>2

\* The step of the answer: what decides it, and that nothing else is touched.
LEMMA AnswerStep ==
  ASSUME TypeOK, Control, Next, status'[0] # status[0]
  PROVE  verdict' = verdict /\ status[0] = "running" /\ status'[0] \in {"exit0", "exit1"}
<1>a. /\ status \in [Procs -> Statuses] /\ 0 \in Procs
  BY ProcFacts DEF TypeOK
<1>1. CASE Parent
  <2>1. verdict' = verdict /\ status[0] = "running"
    BY <1>1, ParentFrame DEF Control
  <2>2. status'[0] \in {"exit0", "exit1"}
    BY <1>1, ParentMoves
  <2> QED BY <2>1, <2>2
<1>2. ASSUME NEW p \in Procs, Loop(p) \/ Killed(p)
      PROVE  verdict' = verdict /\ status[0] = "running" /\ status'[0] \in {"exit0", "exit1"}
  <2>1. p = 0
    BY <1>a, <1>2, LoopFrame
  <2>2. status[0] = "running"
    BY <1>2, <2>1, LoopOwner DEF Control, InLoop
  <2>3. Report(p) \/ Escape(p) \/ worker_exit(p)
    BY <1>2, <2>1, ProcFacts DEF Loop, Claim, LoopEnds, SeesStop, BeginsCheck, Skips, Check, StoreStop,
                                 Killed
  <2> QED BY <1>a, <2>1, <2>2, <2>3 DEF Report, Escape, worker_exit, Exit, hist
<1>3. CASE Terminated
  BY <1>3 DEF Terminated, vars
<1> QED BY <1>1, <1>2, <1>3 DEF Next

\* A step of the driver is a step of Verdict, or none.
LEMMA VerdictStep ==
  ASSUME NoEarlyLiteral, RejectionsReported, IInv, VInv, IInv', VInv', [Next]_vars
  PROVE  [V!VerdictNext]_(V!verdictVars)
<1>a. TypeOK /\ Control /\ EnvironmentsExact
  BY DEF IInv, VInv
<1>b. verdict \in [Decls -> {"none", "accepted", "rejected"}]
  BY <1>a DEF TypeOK
<1> DEFINE Required == IF opt.oom \/ opt.count > 0 THEN {} ELSE {i \in Decls : Selected(i)}
           SoundOnes == {i \in Decls : SequentiallySound(i)}
<1>1. /\ UNCHANGED <<export, opt>>
      /\ \A p \in Procs : Loop(p) \/ Killed(p) => UNCHANGED <<export, opt>>
  <2>1. \A p \in Procs : Loop(p) \/ Killed(p) => UNCHANGED <<export, opt>>
    BY <1>a, LoopFrame
  <2>2. Parent => UNCHANGED <<export, opt>>
    BY <1>a, ParentFrame
  <2> QED BY <2>1, <2>2 DEF Next, Terminated, vars
<1>2. /\ Decls' = Decls /\ Required' = Required /\ SoundOnes' = SoundOnes
      /\ opt' = opt /\ \A i \in Decls : Selected(i)' = Selected(i)
  <2>1. Decls' = Decls /\ opt' = opt /\ \A i \in Decls : Selected(i)' = Selected(i)
    BY <1>1, InputFrame
  <2>2. Required' = Required
    BY <2>1
  <2>3. SoundOnes' = SoundOnes
    BY <1>1, <2>1, InputStays
  <2> QED BY <2>1, <2>2, <2>3
<1>3. CASE verdict' = verdict /\ status'[0] = status[0]
  <2>1. Judged("accepted")' = Judged("accepted") /\ Judged("rejected")' = Judged("rejected")
    BY <1>2, <1>3 DEF Judged
  <2> QED BY <1>2, <1>3, <2>1 DEF V!verdictVars
<1>4. CASE verdict' = verdict /\ status'[0] # status[0]
  <2>1. Judged("accepted")' = Judged("accepted") /\ Judged("rejected")' = Judged("rejected")
    BY <1>2, <1>4 DEF Judged
  <2>2. Next
    BY <1>4 DEF vars
  <2>3. status[0] = "running" /\ status'[0] \in {"exit0", "exit1"}
    BY <1>a, <1>4, <2>2, AnswerStep
  <2>4. status'[0] = "exit0" => Required \subseteq Judged("accepted")
    <3>1. ExitZeroMeansAccepted'
      <4>1. (IInv => ExitZeroMeansAccepted)'
        BY ExitZeroAccepts, PTL
      <4> QED BY <4>1
    <3>2. ASSUME status'[0] = "exit0", ~opt.oom, ~(opt.count > 0), NEW i \in Decls, Selected(i)
          PROVE  verdict[i] = "accepted"
      <4>1. opt.count = 0
        BY <1>a, <3>2, OptionFacts
      <4> QED BY <1>2, <1>4, <3>1, <3>2, <4>1 DEF ExitZeroMeansAccepted
    <3> QED BY <3>2 DEF Judged
  <2>5. status'[0] = "exit0" => Judged("rejected") = {}
    <3> SUFFICES ASSUME status'[0] = "exit0", NEW i \in Decls PROVE verdict[i] # "rejected"
      BY DEF Judged
    <3>1. verdict'[i] # "rejected"
      <4>1. (IInv /\ VInv /\ RejectionsReported => NothingRejected)'
        BY ExitZeroRejectsNothing, PTL
      <4>2. RejectionsReported'
        BY DEF RejectionsReported
      <4> QED BY <1>2, <4>1, <4>2 DEF NothingRejected
    <3> QED BY <1>4, <3>1
  <2>6. V!Answer(status'[0])
    BY <1>2, <2>1, <2>3, <2>4, <2>5 DEF V!Answer
  <2> QED BY <2>3, <2>6 DEF V!VerdictNext
<1>5. CASE verdict' # verdict
  <2>1. PICK p \in Procs : Check(p)
    <3>1. Next /\ ~Parent /\ ~Terminated
      BY <1>a, <1>5, ParentFrame DEF vars, hist, Terminated
    <3>2. PICK p \in Procs : Loop(p) \/ Killed(p)
      BY <3>1 DEF Next
    <3> QED BY <1>a, <1>5, <3>2, VerdictFrame
  <2>2. Loop(p) /\ status' = status /\ di[p] \in Decls /\ pc[p] = "check"
    BY <1>a, <2>1 DEF Check, Loop, TypeOK
  <2>3. /\ verdict'[di[p]] = IF check_decl(export[di[p]], CheckEnv(p)) THEN "accepted" ELSE "rejected"
        /\ \A i \in Decls \ {di[p]} : verdict'[i] = verdict[i]
    BY <1>a, <2>1, <2>2, VerdictFrame
  <2>4. verdict[di[p]] = "none"
    <3>1. chk[p] /\ (Prebuilt => p \in Workers) /\ (~Prebuilt => p = 0) /\ di[p] \in Nat \ {0}
      BY <1>a, <2>2, LoopOwner DEF IInv, Progress, ProgressAt, TypeOK
    <3> QED BY <2>2, <3>1 DEF VInv, Unjudged, Looking
  <2>5. check_decl(export[di[p]], CheckEnv(p)) <=> SequentiallySound(di[p])
    BY <1>a, <2>2, AcceptsInOrder, SoundPasses
  <2>6. CASE check_decl(export[di[p]], CheckEnv(p))
    <3>1. /\ Judged("accepted")' = Judged("accepted") \cup {di[p]}
          /\ Judged("rejected")' = Judged("rejected")
          /\ di[p] \notin Judged("accepted") \cup Judged("rejected")
      BY <1>2, <2>2, <2>3, <2>4, <2>6 DEF Judged
    <3>2. V!Accept(di[p])
      BY <1>2, <2>2, <2>5, <2>6, <3>1 DEF V!Accept
    <3> QED BY <2>2, <3>2 DEF V!VerdictNext
  <2>7. CASE ~check_decl(export[di[p]], CheckEnv(p))
    <3>1. /\ Judged("rejected")' = Judged("rejected") \cup {di[p]}
          /\ Judged("accepted")' = Judged("accepted")
          /\ di[p] \notin Judged("accepted") \cup Judged("rejected")
      BY <1>2, <2>2, <2>3, <2>4, <2>7 DEF Judged
    <3>2. V!Reject(di[p])
      BY <1>2, <2>2, <2>5, <2>7, <3>1 DEF V!Reject
    <3> QED BY <2>2, <3>2 DEF V!VerdictNext
  <2> QED BY <2>6, <2>7
<1> QED BY <1>3, <1>4, <1>5

LEMMA VerdictStart ==
  ASSUME Init
  PROVE  V!VerdictInit
<1>1. /\ \A i \in Decls : verdict[i] = "none"
      /\ status[0] = "running"
  BY ProcFacts DEF Init
<1>2. Judged("accepted") = {} /\ Judged("rejected") = {}
  BY <1>1 DEF Judged
<1> QED BY <1>1, <1>2 DEF V!VerdictInit

\* With any number of workers, and whichever are killed, the run implements
\* Verdict: verdicts are final, each is the one of a check in file order, and 0 is
\* answered only when every required declaration is accepted and none is rejected.
THEOREM Implementation ==
  ASSUME NoEarlyLiteral, RejectionsReported
  PROVE  Spec => ImplementsVerdict
<1>1. Init => V!VerdictInit
  BY VerdictStart
<1>2. IInv /\ VInv /\ (IInv /\ VInv)' /\ [Next]_vars => [V!VerdictNext]_(V!verdictVars)
  BY VerdictStep
<1> QED BY <1>1, <1>2, VerdictInvariance, PTL DEF Spec, ImplementsVerdict, V!VerdictSpec
===============================================================================
