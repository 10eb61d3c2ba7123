-------------------------------- MODULE MCTiers --------------------------------
(***************************************************************************)
(* Instances of Tiers: a definition that may have a rule, a quotient       *)
(* constant, and a declaration that uses them.                             *)
(***************************************************************************)
EXTENDS Tiers

CONSTANTS S, C, n0, x  \* a sort, a constant, a literal, a free variable

MCBuiltIn == <<"const", S>>
===============================================================================
