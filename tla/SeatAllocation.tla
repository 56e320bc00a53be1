---------------------------- MODULE SeatAllocation ----------------------------
(***************************************************************************)
(* What selling the seats of a travel promises, with nothing said about    *)
(* payments, clocks or statuses: a ticket is granted a set of free seats   *)
(* at once and only once, and it gives all of them back at once.           *)
(***************************************************************************)
CONSTANTS Seats, Tickets, Null

VARIABLES
  owner,    \* the ticket that has the seat, or Null
  granted   \* tickets that have been granted seats, ever

vars == <<owner, granted>>

Init ==
  /\ owner = [s \in Seats |-> Null]
  /\ granted = {}

\* The seats once the tickets in T have given theirs back.
Returned(T) == [s \in Seats |-> IF owner[s] \in T THEN Null ELSE owner[s]]

\* The tickets in T give back every seat they have.
Return(T) ==
  /\ owner' = Returned(T)
  /\ UNCHANGED granted

\* t gets the seats in S, some of which tickets in T have just given back.
Grant(t, S, T) ==
  /\ t \notin granted
  /\ \A s \in S : Returned(T)[s] = Null
  /\ owner' = [s \in Seats |-> IF s \in S THEN t ELSE Returned(T)[s]]
  /\ granted' = granted \cup {t}

Next ==
  \/ \E T \in SUBSET granted : Return(T)
  \/ \E t \in Tickets, S \in SUBSET Seats, T \in SUBSET granted :
       Grant(t, S, T)

Spec == Init /\ [][Next]_vars
=============================================================================
