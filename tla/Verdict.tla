------------------------------- MODULE Verdict -------------------------------
(***************************************************************************)
(* What a run of the checker promises, whatever the number of processes    *)
(* that carry it out: declarations are judged one at a time and for good,  *)
(* a declaration is accepted only if the kernel accepts it in file order,  *)
(* and the answer is 0 only after every required declaration is accepted.  *)
(* Driver.tla is shown to implement this specification.                    *)
(***************************************************************************)
VARIABLES
  decls,      \* the declarations of the export
  required,   \* declarations an answer of 0 vouches for
  sound,      \* declarations the kernel accepts when it checks them in order
  accepted, rejected,
  answer      \* exit status of the run: "running", "exit0" or "exit1"

verdictVars == <<decls, required, sound, accepted, rejected, answer>>

VerdictInit ==
  /\ required \subseteq decls /\ sound \subseteq decls
  /\ accepted = {} /\ rejected = {}
  /\ answer = "running"

Accept(i) ==
  /\ i \in sound /\ i \notin accepted \cup rejected
  /\ accepted' = accepted \cup {i}
  /\ UNCHANGED <<decls, required, sound, rejected, answer>>

Reject(i) ==
  /\ i \notin sound /\ i \notin accepted \cup rejected
  /\ rejected' = rejected \cup {i}
  /\ UNCHANGED <<decls, required, sound, accepted, answer>>

\* A run may always answer 1 (a process died, the order was wrong, a fork
\* failed); it answers 0 only when everything required has been accepted.
Answer(a) ==
  /\ answer = "running"
  /\ a \in {"exit0", "exit1"}
  /\ a = "exit0" => required \subseteq accepted /\ rejected = {}
  /\ answer' = a
  /\ UNCHANGED <<decls, required, sound, accepted, rejected>>

VerdictNext ==
  \/ \E i \in decls : Accept(i) \/ Reject(i)
  \/ \E a \in {"exit0", "exit1"} : Answer(a)

VerdictSpec == VerdictInit /\ [][VerdictNext]_verdictVars
==============================================================================
