----------------------------- MODULE MCSettlement -----------------------------
(***************************************************************************)
(* Instances of Settlement for TLC.                                        *)
(***************************************************************************)
EXTENDS Settlement, TLC

\* Everything but Null is interchangeable with its kind.
Symmetry == Permutations(Travels) \cup Permutations(Tickets)
              \cup Permutations(QRs) \cup Permutations(Requests)
              \cup Permutations(Notices) \cup Permutations(Runs)
=============================================================================
