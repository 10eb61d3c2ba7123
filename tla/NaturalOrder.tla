----------------------------- MODULE NaturalOrder -----------------------------
(***************************************************************************)
(* Induction on the natural numbers for the proofs of this project: a set  *)
(* of numbers that is not empty has a least element, so a claim about      *)
(* every number is proved by looking at the least exception.  Stated with  *)
(* sets instead of predicates, so that the provers can apply it.           *)
(***************************************************************************)
EXTENDS Naturals, WellFoundedInduction, TLAPS

\* The order of the naturals is well-founded, as a relation about which nothing else
\* need be known.
LEMMA NatOrder ==
  \E R : /\ IsWellFoundedOn(R, Nat)
         /\ \A x, y \in Nat : y < x => <<y, x>> \in R
<1>1. \A x, y \in Nat : y < x => <<y, x>> \in OpToRel(<, Nat)
  BY DEF OpToRel
<1> QED BY <1>1, NatLessThanWellFounded, Zenon

\* The least-number principle.
LEMMA Least ==
  ASSUME NEW T \in SUBSET Nat, T # {}
  PROVE  \E x \in T : \A y \in T : x <= y
<1>1. PICK R : /\ IsWellFoundedOn(R, Nat)
               /\ \A x, y \in Nat : y < x => <<y, x>> \in R
  BY NatOrder
<1>2. PICK x \in T : \A y \in T : ~(<<y, x>> \in R)
  BY <1>1, WFMin, Zenon
<1>3. \A y \in T : ~(y < x)
  BY <1>1, <1>2
<1> QED BY <1>3

\* Induction: a set that has 0 and with each number the next has them all.
LEMMA Induction ==
  ASSUME NEW T \in SUBSET Nat, 0 \in T, \A n \in T : n + 1 \in T
  PROVE  T = Nat
<1> SUFFICES ASSUME Nat \ T # {} PROVE FALSE
  OBVIOUS
<1>1. PICK x \in Nat \ T : \A y \in Nat \ T : x <= y
  BY Least, Zenon
<1>2. x - 1 \in Nat /\ x - 1 \notin Nat \ T /\ (x - 1) + 1 = x
  BY <1>1
<1> QED BY <1>1, <1>2
===============================================================================
