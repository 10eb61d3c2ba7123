------------------------------- MODULE TermStore -------------------------------
(***************************************************************************)
(* What the checker needs of its term table: the type it has stored for a  *)
(* constant and the rule it has stored for a definition stay the terms     *)
(* they were when they were stored.                                        *)
(***************************************************************************)
CONSTANTS Consts, None

VARIABLES types, rules

StoreInit == types = [c \in Consts |-> None] /\ rules = [c \in Consts |-> None]

\* f gets its first and only value at c, whatever that value is.
Stored(f, c) == f[c] = None /\ f'[c] # None /\ f' = [f EXCEPT ![c] = f'[c]]

AddConstant(c) == Stored(types, c) /\ UNCHANGED rules

\* Only a constant the store has gets a rule.
LearnRule(c) == types[c] # None /\ Stored(rules, c) /\ UNCHANGED types

StoreNext == \E c \in Consts : AddConstant(c) \/ LearnRule(c)
StoreSpec == StoreInit /\ [][StoreNext]_<<types, rules>>
===============================================================================
