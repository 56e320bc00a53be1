--------------------------- MODULE MCOwnerPayouts ---------------------------
(***************************************************************************)
(* Instances of OwnerPayouts for TLC.                                      *)
(***************************************************************************)
EXTENDS OwnerPayouts, TLC

\* Everything but Null is interchangeable with its kind.
Symmetry == Permutations(Travels) \cup Permutations(Payouts)
              \cup Permutations(Verifies)
=============================================================================
