-------------------------- MODULE MCTravelSchedule --------------------------
(***************************************************************************)
(* Instances of TravelSchedule for TLC.                                    *)
(***************************************************************************)
EXTENDS TravelSchedule, TLC

\* Everything but Null is interchangeable with its kind.
Symmetry == Permutations(Travels) \cup Permutations(Buses)
              \cup Permutations(Requests)
=============================================================================
