----------------------------- MODULE MCSeatSales -----------------------------
(***************************************************************************)
(* Instances of SeatSales for TLC.                                         *)
(***************************************************************************)
EXTENDS SeatSalesInvariants, TLC

\* Seats, tickets, correlation ids and requests are interchangeable; Null is
\* not.
Symmetry == Permutations(Seats) \cup Permutations(Tickets)
              \cup Permutations(QRs) \cup Permutations(Requests)
=============================================================================
