--------------------------- MODULE TravelSchedule ---------------------------
(***************************************************************************)
(* When a company's buses travel: cashiers create, close and cancel        *)
(* travels and assign their staff, administrators approve or reject them.  *)
(* Every request is one database transaction; a step of the model is what  *)
(* the transaction does up to the next lock it may have to wait for, or up *)
(* to a read that others may make stale before it commits.                 *)
(***************************************************************************)
EXTENDS Integers

CONSTANTS
  Travels,
  Buses,
  Requests,   \* requests that can be open at a time
  Null,
  MaxTime,    \* bound: moments are 0 .. MaxTime
  StaffAlone  \* TRUE: nothing else is done to a travel during assignStaff

ASSUME NullAssumption == Null \notin Travels \cup Buses
ASSUME BoundAssumption == MaxTime \in Nat
ASSUME StaffAssumption == StaffAlone \in BOOLEAN

VARIABLES
  travel,    \* travels: travel_status, bus, departure, arrival, drivers
  approval,  \* companies.require_travel_approval
  now,
  request    \* open transactions: what they do, what they have read

vars == <<travel, approval, now, request>>

-----------------------------------------------------------------------------

TravelStatus == {"none", "active", "pending_approval", "rejected",
                 "cancelled", "closed"}
Trip == [bus : Buses \cup {Null}, from : 0 .. MaxTime, to : 0 .. MaxTime]
TravelRow == [status : TravelStatus, trip : Trip, drivers : BOOLEAN]
Op == {"none", "create", "review", "staff_read", "staff_write",
       "cancel_read", "cancel_write", "close"}
\* differs: the row that save() compares with is no longer active;
\* tickets: the transaction has written tickets that a close would write too.
RequestRecord == [op : Op, travel : Travels \cup {Null}, trip : Trip,
                  differs : BOOLEAN, tickets : BOOLEAN]

TypeOK ==
  /\ travel \in [Travels -> TravelRow]
  /\ approval \in BOOLEAN
  /\ now \in 0 .. MaxTime
  /\ request \in [Requests -> RequestRecord]

NoTrip == [bus |-> Null, from |-> 0, to |-> 0]
IdleRequest == [op |-> "none", travel |-> Null, trip |-> NoTrip,
                differs |-> FALSE, tickets |-> FALSE]

Init ==
  /\ travel = [t \in Travels |-> [status |-> "none", trip |-> NoTrip,
                                  drivers |-> FALSE]]
  /\ approval \in BOOLEAN
  /\ now = 0
  /\ request = [r \in Requests |-> IdleRequest]

-----------------------------------------------------------------------------
(* Locks and transactions.                                                 *)

On(t, ops) == {r \in Requests : request[r].travel = t /\ request[r].op \in ops}

\* Mutant: create takes no lock.
NeverLocked(b) == FALSE

\* create holds the bus from its check of the schedule to its commit.
BusLocked(b) == \E r \in Requests : /\ request[r].op = "create"
                                    /\ request[r].trip.bus = b

\* Mutant: findPendingForReview takes no lock.
OnlyCloseLocks(t) == On(t, {"close"}) # {}

\* findPendingForReview and close select the travel FOR UPDATE: an UPDATE of
\* the row by another transaction waits for them.
RowLocked(t) == On(t, {"review", "close"}) # {}

StaffOps == {"staff_read", "staff_write"}

\* What StaffAlone asks of a new request on travel t.
MayOpen(t, op) ==
  StaffAlone => On(t, IF op = "staff_read" THEN Op ELSE StaffOps) = {}

Opens(r, op, t) ==
  /\ request[r].op = "none"
  /\ MayOpen(t, op)
  /\ request' = [request EXCEPT ![r] = [IdleRequest EXCEPT !.op = op,
                                                           !.travel = t]]
  /\ UNCHANGED <<travel, approval, now>>

\* Mutant: the catch forgets rollbackTransaction, the lock stays.
KeepsTransaction(r) == request' = request

EndsTransaction(r) == request' = [request EXCEPT ![r] = IdleRequest]

Commits(r, t, row) ==
  /\ travel' = [travel EXCEPT ![t] = row]
  /\ request' = [request EXCEPT ![r] = IdleRequest]
  /\ UNCHANGED <<approval, now>>

Sets(r, t, status) == Commits(r, t, [travel[t] EXCEPT !.status = status])

-----------------------------------------------------------------------------
(* create.                                                                 *)

Overlap(a, b) == a.bus = b.bus /\ a.from < b.to /\ b.from < a.to

Occupying == {"active", "pending_approval", "closed"}

Free(trip) == ~\E t \in Travels : /\ travel[t].status \in Occupying
                                  /\ Overlap(travel[t].trip, trip)

StartCreate(r, t, trip) ==
  /\ request[r].op = "none"
  /\ travel[t].status = "none" /\ On(t, {"create"}) = {}
  /\ trip.bus \in Buses /\ trip.from < trip.to
  /\ ~BusLocked(trip.bus)
  /\ Free(trip)
  /\ request' = [request EXCEPT ![r] = [IdleRequest EXCEPT !.op = "create",
                                                           !.travel = t,
                                                           !.trip = trip]]
  /\ UNCHANGED <<travel, approval, now>>

\* Mutant: the status is left unset.
CreateUnset(r) ==
  /\ request[r].op = "create"
  /\ Commits(r, request[r].travel, [status |-> Null, trip |-> request[r].trip,
                                    drivers |-> FALSE])

\* The company's setting is read last.
EndCreate(r) ==
  /\ request[r].op = "create"
  /\ Commits(r, request[r].travel,
             [status |-> IF approval THEN "pending_approval" ELSE "active",
              trip |-> request[r].trip, drivers |-> FALSE])

-----------------------------------------------------------------------------
(* approve, reject, updateApprovalSetting.                                 *)

StartReview(r, t) ==
  /\ travel[t].status = "pending_approval"
  /\ ~RowLocked(t)
  /\ Opens(r, "review", t)

\* A departure that has passed is not approved: an exception.
EndReview(r) ==
  LET t == request[r].travel
  IN  /\ request[r].op = "review"
      /\ \/ travel[t].trip.from > now /\ Sets(r, t, "active")
         \/ Sets(r, t, "rejected")
         \/ /\ travel[t].trip.from <= now
            /\ EndsTransaction(r)
            /\ UNCHANGED <<travel, approval, now>>

UpdateApprovalSetting ==
  /\ approval' = ~approval
  /\ UNCHANGED <<travel, now, request>>

-----------------------------------------------------------------------------
(* assignStaff: the travel is read without a lock.                         *)

StartStaff(r, t) ==
  /\ travel[t].status = "active"
  /\ Opens(r, "staff_read", t)

\* save() reads the row again to find the columns that differ.
StaffReloads(r) ==
  /\ request[r].op = "staff_read"
  /\ request' = [request EXCEPT
                   ![r].op = "staff_write",
                   ![r].differs = travel[request[r].travel].status # "active"]
  /\ UNCHANGED <<travel, approval, now>>

\* The UPDATE writes the drivers, and the status that was read if it differs.
EndStaff(r) ==
  LET t == request[r].travel
  IN  /\ request[r].op = "staff_write"
      /\ ~RowLocked(t)
      /\ Commits(r, t, [travel[t] EXCEPT
                          !.drivers = TRUE,
                          !.status = IF request[r].differs THEN "active"
                                                           ELSE @])

-----------------------------------------------------------------------------
(* cancel: the travel is read without a lock, its tickets are written      *)
(* before it.                                                              *)

StartCancel(r, t) ==
  /\ travel[t].status = "active"
  /\ Opens(r, "cancel_read", t)

\* Tickets of travel t written by a cancellation that has not committed.
TicketsLocked(t) == \E r \in On(t, {"cancel_write"}) : request[r].tickets

CancelTickets(r, some) ==
  /\ request[r].op = "cancel_read"
  /\ some => ~TicketsLocked(request[r].travel)
  /\ request' = [request EXCEPT ![r].op = "cancel_write",
                                ![r].tickets = some]
  /\ UNCHANGED <<travel, approval, now>>

EndCancel(r) ==
  LET t == request[r].travel
  IN  /\ request[r].op = "cancel_write"
      /\ ~RowLocked(t)
      /\ Sets(r, t, "cancelled")

-----------------------------------------------------------------------------
(* close: the travel is locked, then its tickets are written.              *)

StartClose(r, t) ==
  /\ travel[t].status = "active"
  /\ ~RowLocked(t)
  /\ Opens(r, "close", t)

EndClose(r) ==
  LET t == request[r].travel
  IN  /\ request[r].op = "close"
      /\ travel[t].drivers
      /\ ~TicketsLocked(t)
      /\ Sets(r, t, "closed")

\* Nobody drives: an exception, the transaction is rolled back.
CloseFails(r) ==
  /\ request[r].op = "close"
  /\ ~travel[request[r].travel].drivers
  /\ EndsTransaction(r)
  /\ UNCHANGED <<travel, approval, now>>

\* PostgreSQL aborts one of a cancellation that waits for the travel and a
\* close that waits for its tickets.
BreakDeadlock(r) ==
  LET t == request[r].travel
  IN  /\ request[r].op \in {"cancel_write", "close"}
      /\ On(t, {"close"}) # {} /\ TicketsLocked(t)
      /\ request[r].tickets \/ request[r].op = "close"
      /\ EndsTransaction(r)
      /\ UNCHANGED <<travel, approval, now>>

-----------------------------------------------------------------------------

TimePasses ==
  /\ now < MaxTime
  /\ now' = now + 1
  /\ UNCHANGED <<travel, approval, request>>

Steps(r) ==
  \/ EndCreate(r)
  \/ EndReview(r)
  \/ StaffReloads(r)
  \/ EndStaff(r)
  \/ \E some \in BOOLEAN : CancelTickets(r, some)
  \/ EndCancel(r)
  \/ EndClose(r)
  \/ CloseFails(r)
  \/ BreakDeadlock(r)

Next ==
  \/ \E r \in Requests, t \in Travels, trip \in Trip : StartCreate(r, t, trip)
  \/ \E r \in Requests, t \in Travels : StartReview(r, t)
  \/ \E r \in Requests, t \in Travels : StartStaff(r, t)
  \/ \E r \in Requests, t \in Travels : StartCancel(r, t)
  \/ \E r \in Requests, t \in Travels : StartClose(r, t)
  \/ \E r \in Requests : Steps(r)
  \/ UpdateApprovalSetting
  \/ TimePasses

Spec == Init /\ [][Next]_vars

\* PostgreSQL grants a row's lock in the order of the requests, so a handler
\* that again and again could go on does.
FairSpec == Spec /\ \A r \in Requests : SF_vars(Steps(r))

-----------------------------------------------------------------------------
(* Properties.                                                             *)

\* No bus is in two places: what is active, awaits approval or is closed
\* keeps its bus (travels.service.ts:119, "los pendientes de aprobación
\* también ocupan el bus, y los cerrados lo ocupan hasta su llegada").
NoOverlap ==
  \A t, u \in Travels :
    /\ t # u
    /\ travel[t].status \in Occupying /\ travel[u].status \in Occupying
    => ~Overlap(travel[t].trip, travel[u].trip)

\* Of two reviewers of a travel the first decides, and what was rejected is
\* never sold, whatever cashiers do meanwhile.
RejectedStaysRejected ==
  [][\A t \in Travels :
       travel[t].status = "rejected" => travel'[t].status = "rejected"]_vars

\* No request waits for ever, neither for another nor for a lock that an
\* exception left behind.
RequestsEnd ==
  \A r \in Requests : request[r].op # "none" ~> request[r].op = "none"

-----------------------------------------------------------------------------
(* The inductive invariant behind NoOverlap.                               *)

\* What a request found when it started is still so when it commits.
FoundInv ==
  \A r \in Requests :
    LET t == request[r].travel
        op == request[r].op
    IN  /\ op # "none" => t \in Travels
        /\ op = "create" => travel[t].status = "none" /\ Free(request[r].trip)
        /\ op = "review" => travel[t].status = "pending_approval"
        /\ op = "close" => travel[t].status = "active"
        /\ op \in StaffOps =>
             travel[t].status = "active" /\ ~request[r].differs
        /\ op \in {"cancel_read", "cancel_write"} =>
             travel[t].status \in {"active", "closed", "cancelled"}

\* The locks, and StaffAlone, keep these requests apart.
ApartInv ==
  \A r, q \in Requests :
    r # q =>
      /\ request[r].op = "create" /\ request[q].op = "create" =>
           /\ request[r].trip.bus # request[q].trip.bus
           /\ request[r].travel # request[q].travel
      /\ \/ /\ request[r].op \in {"review", "close"}
            /\ request[q].op \in {"review", "close"}
         \/ request[r].op \in StaffOps /\ request[q].op # "none"
         => request[r].travel # request[q].travel

ScheduleInv == TypeOK /\ NoOverlap /\ FoundInv /\ ApartInv
=============================================================================
