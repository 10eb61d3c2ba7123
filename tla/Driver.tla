-------------------------------- MODULE Driver --------------------------------
(***************************************************************************)
(* The driver (src/src/main.cpp): the declaration loop of `run`, alone or  *)
(* in the worker processes that `--jobs N` forks, their shared claim flags *)
(* and stop flag, the environment each process checks against, and the     *)
(* parent that waits for the workers and turns what they report into the   *)
(* exit status.                                                            *)
(*                                                                         *)
(* Process 0 is the process main() started.  With jobs = 1 it runs the     *)
(* loop itself; with jobs > 1 it forks processes 1..jobs and waits.  What  *)
(* check_decl decides is abstract: a declaration is judged "right",        *)
(* "wrong" or "declined" by the kernel provided the constants it needs     *)
(* can be found in the environment.                                        *)
(***************************************************************************)
EXTENDS Naturals, Sequences, FiniteSets

CONSTANTS
  Names,     \* names of constants
  Exports,   \* the exports considered, each a sequence of declarations
  Opts,      \* the command lines (and environments) considered
  MaxJobs    \* the most workers --jobs asks for

\* A declaration: the constants it introduces, the ones its terms mention, the
\* ones its literals need without mentioning them (Nat, String), whether the
\* kernel lets it see its own constants (an inductive block, an unsafe
\* definition), and the kernel's judgement of it.
Declaration ==
  [names: SUBSET Names, cites: SUBSET Names, lits: SUBSET Names, self: BOOLEAN,
   judgement: {"right", "wrong", "declined"}]

\* The options that select declarations, as the set of declarations they skip:
\* `skip` stands for --only, --trust-file and --from-line, `stop_at` is the index
\* of the declaration of --stop-at (0: none), `count` is --count (0: no limit).
\* `oom` says whether an allocation may fail in the run.
Option ==
  [jobs: 1..MaxJobs, keep_going: BOOLEAN, nshards: Nat \ {0}, shard: Nat,
   skip: SUBSET Nat, stop_at: Nat, count: Nat, oom: BOOLEAN]

ASSUME DriverAssumption ==
  /\ MaxJobs \in Nat \ {0}
  /\ Exports \subseteq Seq(Declaration)
  /\ Opts \subseteq Option

Procs == 0..MaxJobs
Workers == 1..MaxJobs

VARIABLES
  export, opt,  \* the input of the run: never change
  pc,           \* where each process is
  status,       \* what each process is to its parent: wait status, or running
  di,           \* index of the declaration a process is at
  chk,          \* the local variable `check`
  env,          \* the names each process can find in its environment
  ok, failed,   \* the local counters
  claim,        \* shared: 0, or the worker whose exchange took the flag
  stop,         \* shared: a worker rejected and the run is to end
  results,      \* shared: what each worker reported
  kid,          \* parent: how many workers were forked, then which one is waited for
  died,         \* parent: some worker died
  tot,          \* parent: the sums over the workers waited for
  verdict,      \* history: what was decided about each declaration
  checkers      \* history: the processes that began to check each declaration

loc == <<di, chk, env, ok, failed>>
par == <<kid, died, tot>>
hist == <<verdict, checkers>>
vars == <<export, opt, pc, status, loc, claim, stop, results, par, hist>>

Decls == DOMAIN export
Prebuilt == opt.jobs > 1
InShard(i) == (i - 1) % opt.nshards = opt.shard

Init ==
  /\ export \in Exports /\ opt \in Opts
  /\ pc = [p \in Procs |-> IF p = 0 THEN "order" ELSE "unborn"]
  /\ status = [p \in Procs |-> IF p = 0 THEN "running" ELSE "unborn"]
  /\ di = [p \in Procs |-> 1]
  /\ chk = [p \in Procs |-> FALSE]
  /\ env = [p \in Procs |-> {}]
  /\ ok = [p \in Procs |-> 0] /\ failed = [p \in Procs |-> 0]
  /\ claim = [i \in Decls |-> 0]
  /\ stop = FALSE
  /\ results = [p \in Workers |-> [ok |-> 0, failed |-> 0]]
  /\ kid = 0 /\ died = FALSE /\ tot = [ok |-> 0, failed |-> 0]
  /\ verdict = [i \in Decls |-> "none"]
  /\ checkers = [i \in Decls |-> {}]

Goto(p, l) == pc' = [pc EXCEPT ![p] = l]

\* A process leaves: its parent, or the shell for process 0, sees status s.
Exit(p, s) == Goto(p, "gone") /\ status' = [status EXCEPT ![p] = s]
-------------------------------------------------------------------------------
(* The parent, and the single process before its loop.                       *)

Introduced(n, I) == \E j \in I : n \in export[j].names

\* Slip: the order is never verified.
OrderNotVerified == TRUE

\* Every constant a declaration mentions that the export introduces at all is
\* introduced no later than by that declaration.  Only mentions count: a
\* literal's type is not a mention.
check_topological_order ==
  \A i \in Decls : \A n \in export[i].cites :
    Introduced(n, Decls) => Introduced(n, 1..i)

VerifyOrder ==
  /\ pc[0] = "order"
  /\ IF (opt.jobs > 1 \/ opt.nshards > 1) /\ ~check_topological_order
       THEN Exit(0, "exit1")
       ELSE Goto(0, IF Prebuilt THEN "prebuild" ELSE "claim") /\ UNCHANGED status
  /\ UNCHANGED <<export, opt, loc, claim, stop, results, par, hist>>

AllNames == UNION {export[i].names : i \in Decls}
NoRedeclaration ==
  \A i, j \in Decls : i # j => export[i].names \cap export[j].names = {}

\* The shared memory is mapped and every declaration is added unchecked; a
\* second declaration of a name throws to main(), as a failed mmap returns 1.
Prebuild ==
  /\ pc[0] = "prebuild"
  /\ \/ /\ NoRedeclaration
        /\ env' = [env EXCEPT ![0] = AllNames]
        /\ Goto(0, "fork") /\ UNCHANGED status
     \/ Exit(0, "exit1") /\ UNCHANGED env
  /\ UNCHANGED <<export, opt, di, chk, ok, failed, claim, stop, results, par, hist>>

Fork ==
  /\ pc[0] = "fork" /\ kid < opt.jobs
  /\ kid' = kid + 1
  /\ pc' = [pc EXCEPT ![kid'] = "claim"]
  /\ status' = [status EXCEPT ![kid'] = "running"]
  /\ env' = [env EXCEPT ![kid'] = env[0]]
  /\ UNCHANGED <<export, opt, di, chk, ok, failed, claim, stop, results, died, tot, hist>>

\* A failed fork ends the parent; the workers already forked run on.
ForkFails ==
  /\ pc[0] = "fork" /\ kid < opt.jobs
  /\ Exit(0, "exit1")
  /\ UNCHANGED <<export, opt, loc, claim, stop, results, par, hist>>

\* Slip: the parent starts waiting one process too early, at itself.
WaitsForItself ==
  /\ pc[0] = "fork" /\ kid = opt.jobs
  /\ kid' = 0 /\ Goto(0, "wait")
  /\ UNCHANGED <<export, opt, status, loc, claim, stop, results, died, tot, hist>>

ForkedAll ==
  /\ pc[0] = "fork" /\ kid = opt.jobs
  /\ kid' = 1 /\ Goto(0, "wait")
  /\ UNCHANGED <<export, opt, status, loc, claim, stop, results, died, tot, hist>>

\* Slip: a killed worker is taken for one that left.
KilledCountsAsExited(s) == s \in {"exit0", "exit1", "signal"}

Exited(s) == s \in {"exit0", "exit1"}

\* waitpid on the workers in the order they were forked.
Wait ==
  /\ pc[0] = "wait" /\ kid <= opt.jobs
  /\ status[kid] # "running"
  /\ died' = (died \/ ~Exited(status[kid]))
  /\ tot' = [ok |-> tot.ok + results[kid].ok, failed |-> tot.failed + results[kid].failed]
  /\ kid' = kid + 1
  /\ UNCHANGED <<export, opt, pc, status, loc, claim, stop, results, hist>>

\* Slip: the parent only looks for dead workers.
IgnoresRejections ==
  /\ pc[0] = "wait" /\ kid > opt.jobs
  /\ Exit(0, IF died THEN "exit1" ELSE "exit0")
  /\ UNCHANGED <<export, opt, loc, claim, stop, results, par, hist>>

ParentReturns ==
  /\ pc[0] = "wait" /\ kid > opt.jobs
  /\ Exit(0, IF died \/ tot.failed > 0 THEN "exit1" ELSE "exit0")
  /\ UNCHANGED <<export, opt, loc, claim, stop, results, par, hist>>
-------------------------------------------------------------------------------
(* The declaration loop, in the single process or in a worker.               *)

\* Slip: the flag is read and never set.
ClaimWithoutStore(p) ==
  /\ pc[p] = "claim" /\ di[p] \in Decls
  /\ chk' = [chk EXCEPT ![p] = InShard(di[p]) /\ (Prebuilt => claim[di[p]] = 0)]
  /\ Goto(p, "test")
  /\ UNCHANGED <<export, opt, status, di, env, ok, failed, claim, stop, results, par, hist>>

\* A worker exchanges the flag of the declaration it is at before it looks at
\* anything but the shard.
Claim(p) ==
  /\ pc[p] = "claim" /\ di[p] \in Decls
  /\ LET mine == InShard(di[p])
     IN IF Prebuilt
          THEN /\ chk' = [chk EXCEPT ![p] = mine /\ claim[di[p]] = 0]
               /\ claim' = [claim EXCEPT ![di[p]] = IF mine /\ @ = 0 THEN p ELSE @]
          ELSE chk' = [chk EXCEPT ![p] = mine] /\ UNCHANGED claim
  /\ Goto(p, "test")
  /\ UNCHANGED <<export, opt, status, di, env, ok, failed, stop, results, par, hist>>

LoopEnds(p) ==
  /\ pc[p] = "claim" /\ di[p] \notin Decls
  /\ Goto(p, "report")
  /\ UNCHANGED <<export, opt, status, loc, claim, stop, results, par, hist>>

\* Another worker rejected.
SeesStop(p) ==
  /\ pc[p] = "test" /\ stop
  /\ Goto(p, "report")
  /\ UNCHANGED <<export, opt, status, loc, claim, stop, results, par, hist>>

\* The end of an iteration: on to the next declaration, unless --stop-at or
\* --count ends the loop.
Advance(p) ==
  /\ di' = [di EXCEPT ![p] = @ + 1]
  /\ Goto(p, IF \/ di[p] = opt.stop_at
                \/ opt.count > 0 /\ ok'[p] + failed'[p] >= opt.count
               THEN "report" ELSE "claim")

\* A KernelError: with --keep-going the constants are added so that later
\* declarations can proceed, without it the run is stopped.
KernelError(p) ==
  /\ failed' = [failed EXCEPT ![p] = @ + 1] /\ UNCHANGED ok
  /\ IF opt.keep_going
       THEN /\ Advance(p)
            /\ env' = [env EXCEPT ![p] = @ \cup export[di[p]].names]
       ELSE Goto(p, "stop") /\ UNCHANGED <<di, env>>

\* add_unchecked throws on a name the environment has.
add_unchecked(p) ==
  LET d == export[di[p]]
  IN IF d.names \cap env[p] = {}
       THEN /\ env' = [env EXCEPT ![p] = @ \cup d.names]
            /\ UNCHANGED <<ok, failed>> /\ Advance(p)
       ELSE KernelError(p)

\* The load of `stop` is relaxed: it may miss a store of another process.
BeginsCheck(p) ==
  /\ pc[p] = "test" /\ chk[p] /\ di[p] \notin opt.skip
  /\ Goto(p, "check")
  /\ checkers' = [checkers EXCEPT ![di[p]] = @ \cup {p}]
  /\ UNCHANGED <<export, opt, status, loc, claim, stop, results, par, verdict>>

Skips(p) ==
  /\ pc[p] = "test" /\ ~(chk[p] /\ di[p] \notin opt.skip)
  /\ IF Prebuilt THEN UNCHANGED <<env, ok, failed>> /\ Advance(p) ELSE add_unchecked(p)
  /\ UNCHANGED <<export, opt, status, chk, claim, stop, results, par, hist>>

\* Slip: a prebuilt environment is used as it is.
OwnConstantsInView(p) == env[p]

\* The environment a declaration is checked against: a prebuilt one hides the
\* declaration's own constants.
CheckEnv(p) == IF Prebuilt THEN env[p] \ export[di[p]].names ELSE env[p]

check_decl(d, e) ==
  /\ d.names \cap e = {}
  /\ d.cites \cup d.lits \subseteq e \cup (IF d.self THEN d.names ELSE {})
  /\ d.judgement = "right"

Check(p) ==
  /\ pc[p] = "check"
  /\ LET d == export[di[p]]
     IN IF check_decl(d, CheckEnv(p))
          THEN /\ verdict' = [verdict EXCEPT ![di[p]] = "accepted"]
               /\ ok' = [ok EXCEPT ![p] = @ + 1]
               /\ env' = [env EXCEPT ![p] = @ \cup d.names]
               /\ UNCHANGED failed /\ Advance(p)
          ELSE /\ verdict' = [verdict EXCEPT ![di[p]] = "rejected"]
               /\ KernelError(p)
  /\ UNCHANGED <<export, opt, status, chk, claim, stop, results, par, checkers>>

\* An exception that is not a KernelError (an allocation fails) leaves the loop
\* for the handler of main()'s thread.  The process main() started then returns
\* 1; in a worker that thread is the only one, and its return ends the process
\* with status 0, nothing reported.
Escape(p) ==
  /\ pc[p] = "check" /\ opt.oom
  /\ Exit(p, IF p = 0 THEN "exit1" ELSE "exit0")
  /\ UNCHANGED <<export, opt, loc, claim, stop, results, par, hist>>

StoreStop(p) ==
  /\ pc[p] = "stop"
  /\ stop' = Prebuilt
  /\ Goto(p, "report")
  /\ UNCHANGED <<export, opt, status, loc, claim, results, par, hist>>

\* Slip: a worker reports the declarations it walked past as checked.
ReportsSkipped(p) ==
  /\ pc[p] = "report"
  /\ IF p = 0
       THEN Exit(0, IF failed[0] > 0 THEN "exit1" ELSE "exit0") /\ UNCHANGED results
       ELSE /\ results' = [results EXCEPT ![p] = [ok |-> di[p] - 1, failed |-> failed[p]]]
            /\ Goto(p, "leave") /\ UNCHANGED status
  /\ UNCHANGED <<export, opt, loc, claim, stop, par, hist>>

\* A worker fills its slot of the shared results, then leaves; the single
\* process returns from run().
Report(p) ==
  /\ pc[p] = "report"
  /\ IF p = 0
       THEN Exit(0, IF failed[0] > 0 THEN "exit1" ELSE "exit0") /\ UNCHANGED results
       ELSE /\ results' = [results EXCEPT ![p] = [ok |-> ok[p], failed |-> failed[p]]]
            /\ Goto(p, "leave") /\ UNCHANGED status
  /\ UNCHANGED <<export, opt, loc, claim, stop, par, hist>>

worker_exit(p) ==
  /\ pc[p] = "leave"
  /\ Exit(p, IF failed[p] > 0 THEN "exit1" ELSE "exit0")
  /\ UNCHANGED <<export, opt, loc, claim, stop, results, par, hist>>

\* A worker is killed (out of memory, a fault) at any point.
Killed(p) ==
  /\ p \in Workers /\ status[p] = "running"
  /\ Exit(p, "signal")
  /\ UNCHANGED <<export, opt, loc, claim, stop, results, par, hist>>
-------------------------------------------------------------------------------
Loop(p) ==
  \/ Claim(p) \/ LoopEnds(p) \/ SeesStop(p) \/ BeginsCheck(p) \/ Skips(p)
  \/ Check(p) \/ Escape(p) \/ StoreStop(p) \/ Report(p) \/ worker_exit(p)

Parent ==
  \/ VerifyOrder \/ Prebuild \/ Fork \/ ForkFails \/ ForkedAll \/ Wait \/ ParentReturns

\* The run is over when process 0 is gone and no worker is left behind.
Over == \A p \in Procs : status[p] # "running"
Terminated == Over /\ UNCHANGED vars

Next == Parent \/ (\E p \in Procs : Loop(p) \/ Killed(p)) \/ Terminated

\* Every process is scheduled, and check_decl returns or throws.
Fairness == WF_vars(Parent) /\ \A p \in Procs : WF_vars(Loop(p))

Spec == Init /\ [][Next]_vars
FairSpec == Spec /\ Fairness
-------------------------------------------------------------------------------
Labels ==
  {"unborn", "order", "prebuild", "fork", "wait", "claim", "test", "check",
   "stop", "report", "leave", "gone"}
Statuses == {"unborn", "running", "exit0", "exit1", "signal"}
Counters == [ok: Nat, failed: Nat]

\* Every variable has its type; the input of the run is one of those considered.
TypeOK ==
  /\ export \in Exports /\ opt \in Opts
  /\ pc \in [Procs -> Labels] /\ status \in [Procs -> Statuses]
  /\ di \in [Procs -> Nat \ {0}] /\ chk \in [Procs -> BOOLEAN]
  /\ \A p \in Procs : pc[p] \in {"test", "check"} => di[p] \in Decls
  /\ env \in [Procs -> SUBSET Names]
  /\ ok \in [Procs -> Nat] /\ failed \in [Procs -> Nat]
  /\ claim \in [Decls -> Procs] /\ stop \in BOOLEAN
  /\ results \in [Workers -> Counters]
  /\ kid \in Nat /\ (pc[0] = "wait" => kid > 0) /\ died \in BOOLEAN /\ tot \in Counters
  /\ verdict \in [Decls -> {"none", "accepted", "rejected"}]
  /\ checkers \in [Decls -> SUBSET Procs]

\* The declarations a run is asked to check.
Selected(i) ==
  /\ InShard(i) /\ i \notin opt.skip
  /\ opt.stop_at = 0 \/ i <= opt.stop_at

\* README "Exit status 0 means every declaration was accepted", for the
\* declarations the options select: whatever the interleaving of the workers
\* and whichever of them are killed, status 0 is only returned when each one was
\* checked and accepted (main.cpp:266, 381).  It leaves out runs in which an
\* allocation fails: see DocExitZero.
ExitZeroMeansAccepted ==
  status[0] = "exit0" /\ ~opt.oom /\ opt.count = 0 =>
    \A i \in Decls : Selected(i) => verdict[i] = "accepted"

\* The same sentence for every run, as the README has it: violated, because a
\* worker that an exception other than a KernelError ends looks to the parent
\* like one with nothing to report (main.cpp:424).
DocExitZero ==
  status[0] = "exit0" /\ opt.count = 0 =>
    \A i \in Decls : Selected(i) => verdict[i] = "accepted"

\* "every declaration is checked by exactly one worker" (main.cpp:71): no two
\* processes ever begin to check the same declaration.
CheckedOnce == \A i \in Decls : \A p, q \in checkers[i] : p = q

\* No circular export is accepted (main.cpp:86-91): whatever an accepted
\* declaration mentions is introduced by an earlier declaration, or by itself
\* where the kernel allows that, although a worker's environment holds the
\* later declarations too.
AcceptedCitesEarlier ==
  \A i \in Decls : verdict[i] = "accepted" =>
    \A n \in export[i].cites :
      Introduced(n, 1..(i - 1)) \/ (export[i].self /\ n \in export[i].names)

\* What a single process would say of a declaration: everything it needs, its
\* literals included, is introduced before it.
Earlier(i) == UNION {export[j].names : j \in 1..(i - 1)}
SequentiallySound(i) == check_decl(export[i], Earlier(i))

\* "sound because the order was just verified: nothing cites a constant introduced
\* after it" (main.cpp:226): what a worker accepts against an environment that
\* holds every declaration, a single process accepts in file order.  Violated by
\* exports with a literal before the declaration of its type: a literal's type
\* is needed by the check (nbe.cpp:1500) but is no mention to the order check.
AcceptedInOrder ==
  \A i \in Decls : verdict[i] = "accepted" => SequentiallySound(i)

\* An export whose declarations all pass in file order is accepted by every way
\* of running the checker - any number of workers, any shard, --keep-going or
\* not - unless a worker is killed, an allocation or a system call fails
\* (main.cpp:63-71, 226): no worker trips over constants that were added before
\* their turn.
SoundExportAccepted ==
  /\ Exited(status[0]) /\ ~opt.oom
  /\ \A p \in Workers : status[p] # "signal"
  /\ Prebuilt => kid > opt.jobs
  /\ \A i \in Decls : SequentiallySound(i)
  => status[0] = "exit0"

\* The parent's totals (main.cpp:250, the line "checked N declarations, M
\* failed") count each accepted and each rejected declaration once when every
\* worker left by itself.
TotalsAddUp ==
  pc[0] = "gone" /\ kid > opt.jobs /\ Prebuilt /\ ~opt.oom /\ ~died =>
    /\ tot.ok = Cardinality({i \in Decls : verdict[i] = "accepted"})
    /\ tot.failed = Cardinality({i \in Decls : verdict[i] = "rejected"})

\* The abstract specification, under the mapping that forgets the processes.
Judged(v) == {i \in Decls : verdict[i] = v}
V == INSTANCE Verdict WITH
       decls <- Decls,
       required <- IF opt.oom \/ opt.count > 0 THEN {} ELSE {i \in Decls : Selected(i)},
       sound <- {i \in Decls : SequentiallySound(i)},
       accepted <- Judged("accepted"), rejected <- Judged("rejected"),
       answer <- status[0]

\* With any number of workers the run implements Verdict: verdicts are final,
\* each is the one of a check in file order, and 0 is answered only when every
\* required declaration is accepted and none is rejected (main.cpp:184-382).
ImplementsVerdict == V!VerdictSpec

\* The run ends: every worker leaves the loop, the parent waits for all of them
\* and returns (main.cpp:240-266), even if workers are killed.
Termination == <>(status[0] # "running")
===============================================================================
