------------------------ MODULE TravelScheduleProofs ------------------------
(***************************************************************************)
(* No bus is in two places, for any number of travels, buses and requests, *)
(* when nothing else is done to a travel while its staff is assigned, and  *)
(* a rejected travel stays rejected.                                       *)
(***************************************************************************)
EXTENDS TravelSchedule, TLAPS

USE DEF StaffOps

\* What FoundInv says of one request, and ApartInv of two.
Found(q) ==
  /\ q.op # "none" => q.travel \in Travels
  /\ q.op = "create" => travel[q.travel].status = "none" /\ Free(q.trip)
  /\ q.op = "review" => travel[q.travel].status = "pending_approval"
  /\ q.op = "close" => travel[q.travel].status = "active"
  /\ q.op \in StaffOps => travel[q.travel].status = "active" /\ ~q.differs
  /\ q.op \in {"cancel_read", "cancel_write"} =>
       travel[q.travel].status \in {"active", "closed", "cancelled"}

Apart(q, p) ==
  /\ q.op = "create" /\ p.op = "create" =>
       q.trip.bus # p.trip.bus /\ q.travel # p.travel
  /\ \/ q.op \in {"review", "close"} /\ p.op \in {"review", "close"}
     \/ q.op \in StaffOps /\ p.op # "none"
     => q.travel # p.travel

\* The invariants, request by request.
LEMMA ByRequest ==
  /\ FoundInv <=> \A r \in Requests : Found(request[r])
  /\ ApartInv <=> \A r, q \in Requests :
                    r # q => Apart(request[r], request[q])
BY DEF FoundInv, ApartInv, Found, Apart

\* The same of the next state.
LEMMA ByRequestNext ==
  /\ FoundInv' <=> \A r \in Requests : Found(request[r])'
  /\ ApartInv' <=> \A r, q \in Requests :
                     r # q => Apart(request[r], request[q])'
BY DEF FoundInv, ApartInv, Found, Apart

\* An idle request claims nothing.
LEMMA IdleClaims ==
  /\ IdleRequest \in RequestRecord
  /\ IdleRequest.op = "none"
  /\ \A q : Apart(IdleRequest, q)
  /\ \A q : q.op \in StaffOps => q.op # "none"
  /\ \A q : Apart(q, IdleRequest)
BY BoundAssumption DEF IdleRequest, RequestRecord, Apart, Op, NoTrip, Trip

\* A step that leaves the travels alone and gives request r a claim that
\* holds and is apart from the others' keeps the invariant.
LEMMA RequestMoves ==
  ASSUME ScheduleInv, NEW r \in Requests, NEW rec \in RequestRecord,
         request' = [request EXCEPT ![r] = rec], travel' = travel,
         Found(rec),
         \A q \in Requests \ {r} :
           Apart(rec, request[q]) /\ Apart(request[q], rec)
  PROVE  NoOverlap' /\ FoundInv' /\ ApartInv'
<1>1. request'[r] = rec /\ \A q \in Requests \ {r} : request'[q] = request[q]
  BY DEF ScheduleInv, TypeOK
<1>2. NoOverlap'
  BY DEF ScheduleInv, NoOverlap
<1>3. \A q : Found(q) => Found(q)'
  BY DEF Found, Free
<1> QED
  BY <1>1, <1>2, ByRequest, ByRequestNext DEF ScheduleInv, Found, Apart, Free

\* A commit that changes the status of a travel, frees a bus or leaves the
\* schedule as it is, and that the other requests on the travel agree with.
LEMMA TravelMoves ==
  ASSUME ScheduleInv, NEW r \in Requests, NEW t \in Travels,
         NEW row \in TravelRow,
         request' = [request EXCEPT ![r] = IdleRequest],
         travel' = [travel EXCEPT ![t] = row],
         row.trip = travel[t].trip,
         row.status \in Occupying => travel[t].status \in Occupying,
         travel[t].status # "none",
         row.status = travel[t].status
           \/ /\ row.status \in {"active", "closed", "cancelled", "rejected"}
              /\ \A q \in Requests \ {r} :
                   request[q].travel = t =>
                     \/ request[q].op = "none"
                     \/ /\ request[q].op \in {"cancel_read", "cancel_write"}
                        /\ row.status # "rejected"
  PROVE  NoOverlap' /\ FoundInv' /\ ApartInv'
<1>1. /\ request'[r] = IdleRequest
      /\ \A q \in Requests \ {r} : request'[q] = request[q]
  BY DEF ScheduleInv, TypeOK
<1>2. travel'[t] = row /\ \A u \in Travels \ {t} : travel'[u] = travel[u]
  BY DEF ScheduleInv, TypeOK
<1>3. \A u \in Travels :
        /\ travel'[u].trip = travel[u].trip
        /\ travel'[u].status \in Occupying => travel[u].status \in Occupying
  BY <1>2
<1>4. NoOverlap'
  BY <1>3 DEF ScheduleInv, NoOverlap
<1>5. \A trip : Free(trip) => Free(trip)'
  BY <1>3 DEF Free
<1>6. ApartInv'
  BY <1>1, IdleClaims, ByRequest, ByRequestNext DEF ScheduleInv, Apart
<1>7. ASSUME NEW q \in Requests \ {r}  PROVE Found(request[q])'
  <2>1. Found(request[q])
    BY ByRequest DEF ScheduleInv
  <2>2. CASE request[q].travel # t
    BY <1>1, <1>2, <1>5, <2>1, <2>2 DEF Found
  <2>3. CASE request[q].travel = t
    BY <1>1, <1>2, <1>5, <2>1, <2>3 DEF Found
  <2> QED
    BY <2>2, <2>3
<1>8. Found(request[r])'
  BY <1>1, IdleClaims DEF Found
<1> QED
  BY <1>4, <1>6, <1>7, <1>8, ByRequestNext

\* A new travel keeps clear of the others and of what is being created.
LEMMA TravelAppears ==
  ASSUME ScheduleInv, NEW r \in Requests, EndCreate(r)
  PROVE  NoOverlap' /\ FoundInv' /\ ApartInv'
<1> DEFINE t == request[r].travel
           trip == request[r].trip
<1>1. /\ t \in Travels /\ travel[t].status = "none"
      /\ Free(trip)
  BY ByRequest DEF ScheduleInv, EndCreate, Found
<1>2. /\ request'[r] = IdleRequest
      /\ \A q \in Requests \ {r} : request'[q] = request[q]
  BY DEF ScheduleInv, TypeOK, EndCreate, Commits
<1>3. /\ travel'[t].trip = trip
      /\ travel'[t].status \in {"active", "pending_approval"}
      /\ \A u \in Travels \ {t} : travel'[u] = travel[u]
  BY <1>1 DEF ScheduleInv, TypeOK, EndCreate, Commits
<1>4. \A a, b : Overlap(a, b) <=> Overlap(b, a)
  BY DEF Overlap
<1>5. \A u \in Travels \ {t} : travel[u].status \in Occupying =>
                                 ~Overlap(travel[u].trip, trip)
  BY <1>1 DEF Free
<1>6. NoOverlap'
  BY <1>3, <1>4, <1>5 DEF ScheduleInv, NoOverlap
<1>7. ASSUME NEW q \in Requests \ {r}  PROVE Found(request[q])'
  <2>1. Found(request[q]) /\ Apart(request[r], request[q])
    BY ByRequest DEF ScheduleInv
  <2>2. request[q].travel = t => request[q].op = "none"
    BY <1>1, <2>1 DEF Found, Apart, EndCreate, ScheduleInv, TypeOK,
                      RequestRecord, Op
  <2>3. request[q].op = "create" => Free(request[q].trip)'
    <3>1. request[q].op = "create" =>
            Free(request[q].trip) /\ request[q].trip.bus # trip.bus
      BY <2>1 DEF Found, Apart, EndCreate
    <3> QED
      BY <1>2, <1>3, <3>1 DEF Free, Overlap
  <2> QED
    BY <1>2, <1>3, <2>1, <2>2, <2>3 DEF Found
<1>8. Found(request[r])'
  BY <1>2, IdleClaims DEF Found
<1>9. ApartInv'
  BY <1>2, IdleClaims, ByRequest, ByRequestNext DEF ScheduleInv, Apart
<1> QED
  BY <1>6, <1>7, <1>8, <1>9, ByRequestNext

-----------------------------------------------------------------------------
(* Every step.                                                             *)

\* The schedule is empty at the start.
LEMMA InitSchedule == Init => ScheduleInv
BY BoundAssumption
   DEF Init, ScheduleInv, TypeOK, NoOverlap, FoundInv, ApartInv, TravelRow,
       TravelStatus, RequestRecord, IdleRequest, Op, NoTrip, Trip, Occupying

\* A request that opens claims its travel as it found it.
LEMMA RequestOpens ==
  ASSUME ScheduleInv, NEW r \in Requests, NEW t \in Travels, NEW op \in Op,
         Opens(r, op, t), op # "create",
         Found([IdleRequest EXCEPT !.op = op, !.travel = t]),
         \A q \in Requests \ {r} :
           /\ Apart([IdleRequest EXCEPT !.op = op, !.travel = t], request[q])
           /\ Apart(request[q], [IdleRequest EXCEPT !.op = op, !.travel = t])
  PROVE  ScheduleInv'
<1> DEFINE rec == [IdleRequest EXCEPT !.op = op, !.travel = t]
<1>1. rec \in RequestRecord
  BY IdleClaims DEF RequestRecord
<1>2. /\ request' = [request EXCEPT ![r] = rec]
      /\ UNCHANGED <<travel, approval, now>>
  BY DEF Opens
<1> HIDE DEF rec
<1>3. NoOverlap' /\ FoundInv' /\ ApartInv'
  BY <1>1, <1>2, RequestMoves DEF rec
<1>4. TypeOK'
  BY <1>1, <1>2 DEF ScheduleInv, TypeOK
<1> QED
  BY <1>3, <1>4 DEF ScheduleInv

\* What the new record claims.
LEMMA Opening ==
  ASSUME NEW op, NEW t
  PROVE  /\ [IdleRequest EXCEPT !.op = op, !.travel = t].op = op
         /\ [IdleRequest EXCEPT !.op = op, !.travel = t].travel = t
         /\ ~[IdleRequest EXCEPT !.op = op, !.travel = t].differs
BY DEF IdleRequest

\* approve and reject find a pending travel nobody else has locked.
LEMMA ReviewStarts ==
  ASSUME ScheduleInv, NEW r \in Requests, NEW t \in Travels, StartReview(r, t)
  PROVE  ScheduleInv'
<1> DEFINE rec == [IdleRequest EXCEPT !.op = "review", !.travel = t]
<1>1. rec.op = "review" /\ rec.travel = t
  BY Opening
<1> HIDE DEF rec
<1>2. Found(rec)
  BY <1>1 DEF StartReview, Found
<1>3. ASSUME NEW q \in Requests \ {r}
      PROVE  Apart(rec, request[q]) /\ Apart(request[q], rec)
  <2>1. request[q].travel = t => request[q].op \notin {"review", "close"}
    BY DEF StartReview, RowLocked, On
  <2>2. request[q].travel = t => request[q].op \notin StaffOps
    BY ByRequest DEF StartReview, ScheduleInv, Found
  <2> QED
    BY <1>1, <2>1, <2>2 DEF Apart
<1> QED
  BY <1>2, <1>3, RequestOpens DEF StartReview, Op, rec

\* close finds an active travel nobody else has locked.
LEMMA CloseStarts ==
  ASSUME ScheduleInv, StaffAlone, NEW r \in Requests, NEW t \in Travels,
         StartClose(r, t)
  PROVE  ScheduleInv'
<1> DEFINE rec == [IdleRequest EXCEPT !.op = "close", !.travel = t]
<1>1. rec.op = "close" /\ rec.travel = t
  BY Opening
<1> HIDE DEF rec
<1>2. Found(rec)
  BY <1>1 DEF StartClose, Found
<1>3. ASSUME NEW q \in Requests \ {r}
      PROVE  Apart(rec, request[q]) /\ Apart(request[q], rec)
  <2>1. request[q].travel = t => request[q].op \notin {"review", "close"}
    BY DEF StartClose, RowLocked, On
  <2>2. request[q].travel = t => request[q].op \notin StaffOps
    BY DEF StartClose, Opens, MayOpen, On
  <2> QED
    BY <1>1, <2>1, <2>2 DEF Apart
<1> QED
  BY <1>2, <1>3, RequestOpens DEF StartClose, Op, rec

\* cancel finds an active travel.
LEMMA CancelStarts ==
  ASSUME ScheduleInv, StaffAlone, NEW r \in Requests, NEW t \in Travels,
         StartCancel(r, t)
  PROVE  ScheduleInv'
<1> DEFINE rec == [IdleRequest EXCEPT !.op = "cancel_read", !.travel = t]
<1>1. rec.op = "cancel_read" /\ rec.travel = t
  BY Opening
<1> HIDE DEF rec
<1>2. Found(rec)
  BY <1>1 DEF StartCancel, Found
<1>3. ASSUME NEW q \in Requests \ {r}
      PROVE  Apart(rec, request[q]) /\ Apart(request[q], rec)
  <2>1. request[q].travel = t => request[q].op \notin StaffOps
    BY DEF StartCancel, Opens, MayOpen, On
  <2> QED
    BY <1>1, <2>1 DEF Apart
<1> QED
  BY <1>2, <1>3, RequestOpens DEF StartCancel, Op, rec

\* assignStaff finds an active travel and, by StaffAlone, has it alone.
LEMMA StaffStarts ==
  ASSUME ScheduleInv, StaffAlone, NEW r \in Requests, NEW t \in Travels,
         StartStaff(r, t)
  PROVE  ScheduleInv'
<1> DEFINE rec == [IdleRequest EXCEPT !.op = "staff_read", !.travel = t]
<1>1. rec.op = "staff_read" /\ rec.travel = t /\ ~rec.differs
  BY Opening
<1> HIDE DEF rec
<1>2. Found(rec)
  BY <1>1 DEF StartStaff, Found
<1>3. ASSUME NEW q \in Requests \ {r}
      PROVE  Apart(rec, request[q]) /\ Apart(request[q], rec)
  <2>1. request[q].travel # t
    BY DEF StartStaff, Opens, MayOpen, On, ScheduleInv, TypeOK, RequestRecord
  <2> QED
    BY <1>1, <2>1 DEF Apart
<1> QED
  BY <1>2, <1>3, RequestOpens DEF StartStaff, Op, rec

\* create has its bus alone and finds no overlap.
LEMMA CreateStarts ==
  ASSUME ScheduleInv, NEW r \in Requests, NEW t \in Travels, NEW trip \in Trip,
         StartCreate(r, t, trip)
  PROVE  ScheduleInv'
<1> DEFINE rec == [IdleRequest EXCEPT !.op = "create", !.travel = t,
                                      !.trip = trip]
<1>1. rec.op = "create" /\ rec.travel = t /\ rec.trip = trip
  BY DEF IdleRequest
<1>2. rec \in RequestRecord
  BY IdleClaims DEF RequestRecord, Op
<1>3. /\ request' = [request EXCEPT ![r] = rec]
      /\ UNCHANGED <<travel, approval, now>>
  BY DEF StartCreate
<1> HIDE DEF rec
<1>4. Found(rec)
  BY <1>1 DEF StartCreate, Found
<1>5. ASSUME NEW q \in Requests \ {r}
      PROVE  Apart(rec, request[q]) /\ Apart(request[q], rec)
  <2>1. request[q].op = "create" =>
          request[q].trip.bus # trip.bus /\ request[q].travel # t
    BY DEF StartCreate, BusLocked, On
  <2>2. request[q].travel = t => request[q].op \notin StaffOps
    BY ByRequest DEF StartCreate, ScheduleInv, Found
  <2> QED
    BY <1>1, <2>1, <2>2 DEF Apart
<1>6. NoOverlap' /\ FoundInv' /\ ApartInv'
  BY <1>2, <1>3, <1>4, <1>5, RequestMoves
<1> QED
  BY <1>2, <1>3, <1>6 DEF ScheduleInv, TypeOK

\* A transaction that is rolled back claims nothing any more.
LEMMA RequestEnds ==
  ASSUME ScheduleInv, NEW r \in Requests, EndsTransaction(r),
         UNCHANGED <<travel, approval, now>>
  PROVE  ScheduleInv'
<1>1. Found(IdleRequest)
  BY IdleClaims DEF Found
<1>2. NoOverlap' /\ FoundInv' /\ ApartInv'
  BY <1>1, IdleClaims, RequestMoves DEF EndsTransaction
<1> QED
  BY <1>2, IdleClaims DEF EndsTransaction, ScheduleInv, TypeOK

\* A commit keeps the types.
LEMMA CommitTypes ==
  ASSUME ScheduleInv, NEW r \in Requests, NEW t \in Travels,
         NEW row \in TravelRow, Commits(r, t, row)
  PROVE  TypeOK'
BY IdleClaims DEF ScheduleInv, TypeOK, Commits

\* A new status or drivers: still a row, with the same trip.
LEMMA RowChanged ==
  ASSUME NEW row \in TravelRow, NEW s \in TravelStatus
  PROVE  /\ [row EXCEPT !.status = s] \in TravelRow
         /\ [row EXCEPT !.status = s].trip = row.trip
         /\ [row EXCEPT !.status = s].status = s
         /\ [row EXCEPT !.drivers = TRUE, !.status = s] \in TravelRow
         /\ [row EXCEPT !.drivers = TRUE, !.status = s].trip = row.trip
         /\ [row EXCEPT !.drivers = TRUE, !.status = s].status = s
BY DEF TravelRow

\* The status that a review, a cancellation or a close writes.
LEMMA StatusSet ==
  ASSUME ScheduleInv, NEW r \in Requests, NEW t \in Travels,
         NEW s \in {"active", "closed", "cancelled", "rejected"},
         Sets(r, t, s),
         s \in Occupying => travel[t].status \in Occupying,
         travel[t].status # "none",
         \A q \in Requests \ {r} :
           request[q].travel = t =>
             \/ request[q].op = "none"
             \/ /\ request[q].op \in {"cancel_read", "cancel_write"}
                /\ s # "rejected"
  PROVE  ScheduleInv'
<1> DEFINE row == [travel[t] EXCEPT !.status = s]
<1>0. s \in TravelStatus /\ travel[t] \in TravelRow
  BY DEF ScheduleInv, TypeOK, TravelStatus
<1>1. row \in TravelRow /\ row.trip = travel[t].trip /\ row.status = s
  BY <1>0, RowChanged
<1>2. Commits(r, t, row)
  BY DEF Sets
<1> HIDE DEF row
<1>3. TypeOK'
  BY <1>1, <1>2, CommitTypes
<1>4. NoOverlap' /\ FoundInv' /\ ApartInv'
  BY <1>1, <1>2, TravelMoves DEF Commits
<1> QED
  BY <1>3, <1>4 DEF ScheduleInv

\* create commits.
LEMMA CreateEnds ==
  ASSUME ScheduleInv, NEW r \in Requests, EndCreate(r)
  PROVE  ScheduleInv'
<1> DEFINE row == [status |-> IF approval THEN "pending_approval"
                                          ELSE "active",
                   trip |-> request[r].trip, drivers |-> FALSE]
<1>1. row \in TravelRow
  BY DEF ScheduleInv, TypeOK, TravelRow, TravelStatus, RequestRecord
<1>2. request[r].travel \in Travels
  BY ByRequest DEF ScheduleInv, EndCreate, Found
<1>3. Commits(r, request[r].travel, row)
  BY DEF EndCreate
<1> HIDE DEF row
<1>4. TypeOK'
  BY <1>1, <1>2, <1>3, CommitTypes
<1> QED
  BY <1>4, TravelAppears DEF ScheduleInv

\* approve or reject commits, or fails.
LEMMA ReviewEnds ==
  ASSUME ScheduleInv, NEW r \in Requests, EndReview(r)
  PROVE  ScheduleInv'
<1> DEFINE t == request[r].travel
<1>1. t \in Travels /\ travel[t].status = "pending_approval"
  BY ByRequest DEF ScheduleInv, EndReview, Found
<1>2. ASSUME NEW q \in Requests \ {r}, request[q].travel = t
      PROVE  request[q].op = "none"
  <2>1. Found(request[q]) /\ Apart(request[r], request[q])
    BY ByRequest DEF ScheduleInv
  <2>2. request[q].op \in Op
    BY DEF ScheduleInv, TypeOK, RequestRecord
  <2> QED
    BY <1>1, <1>2, <2>1, <2>2 DEF Found, Apart, EndReview, Op
<1>3. CASE Sets(r, t, "active")
  BY <1>1, <1>2, <1>3, StatusSet DEF Occupying
<1>4. CASE Sets(r, t, "rejected")
  BY <1>1, <1>2, <1>4, StatusSet DEF Occupying
<1>5. CASE EndsTransaction(r) /\ UNCHANGED <<travel, approval, now>>
  BY <1>5, RequestEnds
<1> QED
  BY <1>3, <1>4, <1>5 DEF EndReview

\* close commits.
LEMMA CloseEnds ==
  ASSUME ScheduleInv, NEW r \in Requests, EndClose(r)
  PROVE  ScheduleInv'
<1> DEFINE t == request[r].travel
<1>1. t \in Travels /\ travel[t].status = "active"
  BY ByRequest DEF ScheduleInv, EndClose, Found
<1>2. ASSUME NEW q \in Requests \ {r}, request[q].travel = t
      PROVE  request[q].op \in {"none", "cancel_read", "cancel_write"}
  <2>1. /\ Found(request[q])
        /\ Apart(request[r], request[q]) /\ Apart(request[q], request[r])
    BY ByRequest DEF ScheduleInv
  <2>2. request[q].op \in Op
    BY DEF ScheduleInv, TypeOK, RequestRecord
  <2> QED
    BY <1>1, <1>2, <2>1, <2>2 DEF Found, Apart, EndClose, Op
<1> QED
  BY <1>1, <1>2, StatusSet DEF EndClose, Occupying

\* cancel commits.
LEMMA CancelEnds ==
  ASSUME ScheduleInv, NEW r \in Requests, EndCancel(r)
  PROVE  ScheduleInv'
<1> DEFINE t == request[r].travel
<1>1. /\ t \in Travels
      /\ travel[t].status \in {"active", "closed", "cancelled"}
  BY ByRequest DEF ScheduleInv, EndCancel, Found
<1>2. ASSUME NEW q \in Requests \ {r}, request[q].travel = t
      PROVE  request[q].op \in {"none", "cancel_read", "cancel_write"}
  <2>1. Found(request[q]) /\ Apart(request[q], request[r])
    BY ByRequest DEF ScheduleInv
  <2>2. request[q].op \in Op
    BY DEF ScheduleInv, TypeOK, RequestRecord
  <2>3. request[q].op \notin {"review", "close"}
    BY <1>2 DEF EndCancel, RowLocked, On
  <2> QED
    BY <1>1, <1>2, <2>1, <2>2, <2>3 DEF Found, Apart, EndCancel, Op
<1> QED
  BY <1>1, <1>2, StatusSet DEF EndCancel, Occupying

\* Under StaffAlone the row that save() reloads is still active.
LEMMA StaffGoesOn ==
  ASSUME ScheduleInv, NEW r \in Requests, StaffReloads(r)
  PROVE  ScheduleInv'
<1> DEFINE rec == [request[r] EXCEPT
                     !.op = "staff_write",
                     !.differs = travel[request[r].travel].status # "active"]
<1>1. /\ request[r] \in RequestRecord /\ request[r].op = "staff_read"
      /\ Found(request[r])
      /\ \A q \in Requests \ {r} : /\ Apart(request[r], request[q])
                                   /\ Apart(request[q], request[r])
  BY ByRequest DEF ScheduleInv, TypeOK, StaffReloads
<1>2. rec \in RequestRecord
  BY <1>1 DEF RequestRecord, Op
<1>3. /\ rec.op = "staff_write" /\ rec.travel = request[r].travel
      /\ rec.differs = (travel[request[r].travel].status # "active")
  BY <1>1 DEF RequestRecord
<1>4. /\ request' = [request EXCEPT ![r] = rec]
      /\ UNCHANGED <<travel, approval, now>>
  BY DEF StaffReloads
<1> HIDE DEF rec
<1>5. Found(rec)
  BY <1>1, <1>3 DEF Found
<1>6. \A q \in Requests \ {r} : /\ Apart(rec, request[q])
                                /\ Apart(request[q], rec)
  BY <1>1, <1>3 DEF Apart
<1>7. NoOverlap' /\ FoundInv' /\ ApartInv'
  BY <1>2, <1>4, <1>5, <1>6, RequestMoves
<1> QED
  BY <1>2, <1>4, <1>7 DEF ScheduleInv, TypeOK

\* cancel writes tickets.
LEMMA CancelGoesOn ==
  ASSUME ScheduleInv, NEW r \in Requests, NEW some \in BOOLEAN,
         CancelTickets(r, some)
  PROVE  ScheduleInv'
<1> DEFINE rec == [request[r] EXCEPT !.op = "cancel_write", !.tickets = some]
<1>1. /\ request[r] \in RequestRecord /\ request[r].op = "cancel_read"
      /\ Found(request[r])
      /\ \A q \in Requests \ {r} : /\ Apart(request[r], request[q])
                                   /\ Apart(request[q], request[r])
  BY ByRequest DEF ScheduleInv, TypeOK, CancelTickets
<1>2. rec \in RequestRecord
  BY <1>1 DEF RequestRecord, Op
<1>3. rec.op = "cancel_write" /\ rec.travel = request[r].travel
  BY <1>1 DEF RequestRecord
<1>4. /\ request' = [request EXCEPT ![r] = rec]
      /\ UNCHANGED <<travel, approval, now>>
  BY DEF CancelTickets
<1> HIDE DEF rec
<1>5. Found(rec)
  BY <1>1, <1>3 DEF Found
<1>6. \A q \in Requests \ {r} : /\ Apart(rec, request[q])
                                /\ Apart(request[q], rec)
  BY <1>1, <1>3 DEF Apart
<1>7. NoOverlap' /\ FoundInv' /\ ApartInv'
  BY <1>2, <1>4, <1>5, <1>6, RequestMoves
<1> QED
  BY <1>2, <1>4, <1>7 DEF ScheduleInv, TypeOK

\* So assignStaff writes the drivers only.
LEMMA StaffEnds ==
  ASSUME ScheduleInv, NEW r \in Requests, EndStaff(r)
  PROVE  ScheduleInv'
<1> DEFINE t == request[r].travel
           row == [travel[t] EXCEPT !.drivers = TRUE, !.status = "active"]
<1>1. /\ t \in Travels /\ travel[t].status = "active"
      /\ travel[t] \in TravelRow
  BY ByRequest DEF ScheduleInv, EndStaff, Found, TypeOK
<1>2. Commits(r, t, row)
  BY <1>1 DEF EndStaff
<1>3. row \in TravelRow /\ row.trip = travel[t].trip /\ row.status = "active"
  <2>1. "active" \in TravelStatus
    BY DEF TravelStatus
  <2> QED
    BY <1>1, <2>1, RowChanged
<1> HIDE DEF row
<1>4. TypeOK'
  BY <1>1, <1>2, <1>3, CommitTypes
<1>5. NoOverlap' /\ FoundInv' /\ ApartInv'
  BY <1>1, <1>2, <1>3, TravelMoves DEF Commits
<1> QED
  BY <1>4, <1>5 DEF ScheduleInv

\* Every step keeps the invariant.
LEMMA NextSchedule == ScheduleInv /\ StaffAlone /\ [Next]_vars => ScheduleInv'
<1> SUFFICES ASSUME ScheduleInv, StaffAlone, [Next]_vars PROVE ScheduleInv'
  OBVIOUS
<1>1. ASSUME NEW r \in Requests, NEW t \in Travels,
             \/ \E trip \in Trip : StartCreate(r, t, trip)
             \/ StartReview(r, t) \/ StartStaff(r, t)
             \/ StartCancel(r, t) \/ StartClose(r, t)
      PROVE  ScheduleInv'
  BY <1>1, CreateStarts, ReviewStarts, StaffStarts, CancelStarts, CloseStarts
<1>2. ASSUME NEW r \in Requests, CloseFails(r) \/ BreakDeadlock(r)
      PROVE  ScheduleInv'
  BY <1>2, RequestEnds DEF CloseFails, BreakDeadlock
<1>3. ASSUME NEW r \in Requests, Steps(r)
      PROVE  ScheduleInv'
  BY <1>2, <1>3, CreateEnds, ReviewEnds, StaffGoesOn, StaffEnds, CancelGoesOn,
     CancelEnds, CloseEnds DEF Steps
<1>4. ASSUME approval' \in BOOLEAN, now' \in 0 .. MaxTime,
             UNCHANGED <<travel, request>>
      PROVE  ScheduleInv'
  BY <1>4 DEF ScheduleInv, TypeOK, NoOverlap, FoundInv, ApartInv, Free
<1>5. CASE UpdateApprovalSetting
  BY <1>4, <1>5 DEF UpdateApprovalSetting, ScheduleInv, TypeOK
<1>6. CASE TimePasses
  <2>1. now' \in 0 .. MaxTime
    BY <1>6, BoundAssumption DEF TimePasses, ScheduleInv, TypeOK
  <2> QED
    BY <1>4, <1>6, <2>1 DEF TimePasses, ScheduleInv, TypeOK
<1>7. CASE UNCHANGED vars
  BY <1>4, <1>7 DEF vars, ScheduleInv, TypeOK
<1> QED
  BY <1>1, <1>3, <1>5, <1>6, <1>7 DEF Next

-----------------------------------------------------------------------------

\* The inductive invariant, for every instance in which nothing else is done
\* to a travel while its staff is assigned.
THEOREM ScheduleInvariant == StaffAlone /\ Spec => []ScheduleInv
<1>1. ASSUME StaffAlone  PROVE ScheduleInv /\ [Next]_vars => ScheduleInv'
  BY <1>1, NextSchedule
<1>2. CASE StaffAlone
  BY <1>1, <1>2, InitSchedule, PTL DEF Spec
<1>3. CASE ~StaffAlone
  BY <1>3
<1> QED
  BY <1>2, <1>3

\* create's lock on the bus and its check keep every bus out of two places,
\* through approvals, rejections, cancellations and closes.
THEOREM NoBusTwice == StaffAlone /\ Spec => []NoOverlap
<1>1. ScheduleInv => NoOverlap
  BY DEF ScheduleInv
<1> QED
  BY <1>1, ScheduleInvariant, PTL
-----------------------------------------------------------------------------
(* Rejected travels, whatever is done to a travel while its staff is       *)
(* assigned: without StaffAlone ScheduleInv does not hold, and this weaker *)
(* invariant is what a rejection needs.                                    *)

\* What a travel must be for the request q to be under way: who read it
\* active, with a lock or not, may find it cancelled, closed or made active
\* again, but never waiting for a review and never rejected.
Decided(q) ==
  /\ q.op # "none" => q.travel \in Travels
  /\ q.op = "create" => travel[q.travel].status = "none"
  /\ q.op = "review" => travel[q.travel].status = "pending_approval"
  /\ q.op \in StaffOps \cup {"cancel_read", "cancel_write", "close"} =>
       travel[q.travel].status \in {"active", "closed", "cancelled"}

\* Two requests create, or review, two travels.
Distinct(q, p) ==
  \/ q.op = "create" /\ p.op = "create"
  \/ q.op = "review" /\ p.op = "review"
  => q.travel # p.travel

DecidedInv ==
  /\ TypeOK
  /\ \A r \in Requests : Decided(request[r])
  /\ \A r, q \in Requests : r # q => Distinct(request[r], request[q])

\* An idle request has decided nothing.
LEMMA IdleDecided ==
  /\ IdleRequest \in RequestRecord
  /\ Decided(IdleRequest) /\ Decided(IdleRequest)'
  /\ \A q : Distinct(IdleRequest, q) /\ Distinct(q, IdleRequest)
BY BoundAssumption
   DEF IdleRequest, RequestRecord, Decided, Distinct, Op, NoTrip, Trip

\* A step of request r that leaves the travels alone.
LEMMA DecidedMoves ==
  ASSUME DecidedInv, NEW r \in Requests, NEW rec \in RequestRecord,
         request' = [request EXCEPT ![r] = rec],
         UNCHANGED <<travel, approval, now>>, Decided(rec),
         \A q \in Requests \ {r} :
           Distinct(rec, request[q]) /\ Distinct(request[q], rec)
  PROVE  DecidedInv'
<1>1. request'[r] = rec /\ \A q \in Requests \ {r} : request'[q] = request[q]
  BY DEF DecidedInv, TypeOK
<1>2. TypeOK'
  BY DEF DecidedInv, TypeOK
<1>3. \A q : Decided(q) => Decided(q)'
  BY DEF Decided
<1>4. \A q \in Requests : Decided(request[q])'
  BY <1>1, <1>3 DEF DecidedInv, Decided
<1>5. \A p, q \in Requests :
        p # q => Distinct(request'[p], request'[q])
  BY <1>1 DEF DecidedInv
<1> QED
  BY <1>2, <1>4, <1>5 DEF DecidedInv, Distinct

\* A commit of request r on travel t, with which every other request on the
\* travel agrees.
LEMMA DecidedCommits ==
  ASSUME DecidedInv, NEW r \in Requests, NEW t \in Travels,
         NEW row \in TravelRow, Commits(r, t, row),
         \A q \in Requests \ {r} :
           request[q].travel = t =>
             \/ request[q].op = "none"
             \/ /\ request[q].op \in StaffOps
                      \cup {"cancel_read", "cancel_write", "close"}
                /\ row.status \in {"active", "closed", "cancelled"}
  PROVE  DecidedInv'
<1>1. /\ request'[r] = IdleRequest
      /\ \A q \in Requests \ {r} : request'[q] = request[q]
  BY DEF DecidedInv, TypeOK, Commits
<1>2. travel'[t] = row /\ \A u \in Travels \ {t} : travel'[u] = travel[u]
  BY DEF DecidedInv, TypeOK, Commits
<1>3. TypeOK'
  BY IdleDecided DEF DecidedInv, TypeOK, Commits
<1>4. ASSUME NEW q \in Requests \ {r}  PROVE Decided(request[q])'
  <2>1. Decided(request[q])
    BY DEF DecidedInv
  <2>2. CASE request[q].travel # t
    BY <1>1, <1>2, <2>1, <2>2 DEF Decided
  <2>3. CASE request[q].travel = t
    BY <1>1, <1>2, <2>1, <2>3 DEF Decided
  <2> QED
    BY <2>2, <2>3
<1>5. Decided(request[r])'
  BY <1>1, IdleDecided DEF Decided
<1>6. \A p, q \in Requests :
        p # q => Distinct(request'[p], request'[q])
  BY <1>1, IdleDecided DEF DecidedInv
<1> QED
  BY <1>3, <1>4, <1>5, <1>6 DEF DecidedInv, Distinct

\* A new request on a travel.
LEMMA DecidedOpens ==
  ASSUME DecidedInv, NEW r \in Requests, NEW t \in Travels, NEW op \in Op,
         Opens(r, op, t), op # "create", op # "none",
         op = "review" => /\ travel[t].status = "pending_approval"
                          /\ ~RowLocked(t),
         op # "review" => travel[t].status = "active"
  PROVE  DecidedInv'
<1> DEFINE rec == [IdleRequest EXCEPT !.op = op, !.travel = t]
<1>1. rec.op = op /\ rec.travel = t
  BY Opening
<1>2. rec \in RequestRecord
  BY IdleDecided DEF RequestRecord
<1>3. /\ request' = [request EXCEPT ![r] = rec]
      /\ UNCHANGED <<travel, approval, now>>
  BY DEF Opens
<1> HIDE DEF rec
<1>4. Decided(rec)
  BY <1>1 DEF Decided
<1>5. \A q \in Requests \ {r} :
        Distinct(rec, request[q]) /\ Distinct(request[q], rec)
  BY <1>1 DEF Distinct, RowLocked, On
<1> QED
  BY <1>2, <1>3, <1>4, <1>5, DecidedMoves

\* A travel that is being created.
LEMMA DecidedCreates ==
  ASSUME DecidedInv, NEW r \in Requests, NEW t \in Travels, NEW trip \in Trip,
         StartCreate(r, t, trip)
  PROVE  DecidedInv'
<1> DEFINE rec == [IdleRequest EXCEPT !.op = "create", !.travel = t,
                                      !.trip = trip]
<1>1. rec.op = "create" /\ rec.travel = t
  BY DEF IdleRequest
<1>2. rec \in RequestRecord
  BY IdleDecided DEF RequestRecord, Op
<1>3. /\ request' = [request EXCEPT ![r] = rec]
      /\ UNCHANGED <<travel, approval, now>>
  BY DEF StartCreate
<1> HIDE DEF rec
<1>4. Decided(rec)
  BY <1>1 DEF Decided, StartCreate
<1>5. \A q \in Requests \ {r} :
        Distinct(rec, request[q]) /\ Distinct(request[q], rec)
  BY <1>1 DEF Distinct, StartCreate, On
<1> QED
  BY <1>2, <1>3, <1>4, <1>5, DecidedMoves

\* The other requests on the travel of a request under way.
LEMMA DecidedOthers ==
  ASSUME DecidedInv, NEW r \in Requests, NEW q \in Requests \ {r},
         request[q].travel = request[r].travel
  PROVE  /\ request[r].op \in {"create", "review"} => request[q].op = "none"
         /\ request[r].op \in StaffOps \cup {"cancel_read", "cancel_write",
                                             "close"} =>
              request[q].op \in StaffOps
                \cup {"none", "cancel_read", "cancel_write", "close"}
<1>1. /\ Decided(request[r]) /\ Decided(request[q])
      /\ Distinct(request[r], request[q])
      /\ request[q].op \in Op
  BY DEF DecidedInv, TypeOK, RequestRecord
<1> QED
  BY <1>1 DEF Decided, Distinct, Op

\* Every commit and rollback of a request keeps the invariant, and a rejected
\* travel as it is.
LEMMA DecidedEnds ==
  ASSUME DecidedInv, NEW r \in Requests,
         \/ EndCreate(r) \/ EndReview(r) \/ EndStaff(r) \/ EndCancel(r)
         \/ EndClose(r)
  PROVE  /\ DecidedInv'
         /\ \A t \in Travels :
              travel[t].status = "rejected" => travel'[t].status = "rejected"
<1> DEFINE t == request[r].travel
<1>1. request[r] \in RequestRecord /\ Decided(request[r])
  BY DEF DecidedInv, TypeOK
<1>2. t \in Travels
  BY <1>1 DEF Decided, EndCreate, EndReview, EndStaff, EndCancel, EndClose
<1>3. travel[t] \in TravelRow
  BY <1>2 DEF DecidedInv, TypeOK
<1>4. ASSUME NEW row \in TravelRow, Commits(r, t, row),
             travel[t].status # "rejected"
      PROVE  \A u \in Travels :
               travel[u].status = "rejected" => travel'[u].status = "rejected"
  BY <1>4 DEF Commits, DecidedInv, TypeOK
<1>5. ASSUME NEW s \in TravelStatus, Sets(r, t, s)
      PROVE  \E row \in TravelRow : Commits(r, t, row) /\ row.status = s
  BY <1>3, <1>5, RowChanged DEF Sets
<1>6. CASE EndCreate(r)
  <2> DEFINE row == [status |-> IF approval THEN "pending_approval"
                                            ELSE "active",
                     trip |-> request[r].trip, drivers |-> FALSE]
  <2>1. row \in TravelRow
    BY <1>1 DEF TravelRow, TravelStatus, RequestRecord
  <2>2. Commits(r, t, row) /\ request[r].op = "create"
    BY <1>6 DEF EndCreate
  <2> HIDE DEF row
  <2>3. travel[t].status = "none"
    BY <1>1, <2>2 DEF Decided
  <2> QED
    BY <1>2, <1>4, <2>1, <2>2, <2>3, DecidedOthers, DecidedCommits
<1>7. CASE EndReview(r)
  <2>1. request[r].op = "review" /\ travel[t].status = "pending_approval"
    BY <1>1, <1>7 DEF EndReview, Decided
  <2>2. CASE Sets(r, t, "active") \/ Sets(r, t, "rejected")
    <3>1. PICK row \in TravelRow : Commits(r, t, row)
      BY <1>5, <2>2 DEF TravelStatus
    <3> QED
      BY <1>2, <1>4, <2>1, <3>1, DecidedOthers, DecidedCommits
  <2>3. CASE EndsTransaction(r) /\ UNCHANGED <<travel, approval, now>>
    BY <2>3, IdleDecided, DecidedMoves DEF EndsTransaction
  <2> QED
    BY <1>7, <2>2, <2>3 DEF EndReview
<1>8. CASE EndStaff(r) \/ EndCancel(r) \/ EndClose(r)
  <2>1. /\ request[r].op \in StaffOps \cup {"cancel_read", "cancel_write",
                                            "close"}
        /\ travel[t].status \in {"active", "closed", "cancelled"}
    BY <1>1, <1>8 DEF EndStaff, EndCancel, EndClose, Decided
  <2>2. \A q \in Requests \ {r} : request[q].travel = t =>
          request[q].op \in StaffOps
            \cup {"none", "cancel_read", "cancel_write", "close"}
    BY <2>1, DecidedOthers
  <2>3. ASSUME NEW s \in TravelStatus, Sets(r, t, s),
               s \in {"active", "closed", "cancelled"}
        PROVE  /\ DecidedInv'
               /\ \A u \in Travels : travel[u].status = "rejected" =>
                                       travel'[u].status = "rejected"
    <3>1. PICK row \in TravelRow : Commits(r, t, row) /\ row.status = s
      BY <1>5, <2>3
    <3> QED
      BY <1>2, <1>4, <2>1, <2>2, <2>3, <3>1, DecidedCommits
  <2>4. CASE EndStaff(r)
    <3> DEFINE s == IF request[r].differs THEN "active" ELSE travel[t].status
               row == [travel[t] EXCEPT !.drivers = TRUE, !.status = s]
    <3>1. s \in {"active", "closed", "cancelled"} /\ s \in TravelStatus
      BY <2>1 DEF TravelStatus
    <3>2. Commits(r, t, row)
      BY <2>4, <1>3 DEF EndStaff
    <3> HIDE DEF s
    <3>3. row \in TravelRow /\ row.status = s
      BY <1>3, <3>1, RowChanged
    <3> HIDE DEF row
    <3> QED
      BY <1>2, <1>4, <2>1, <2>2, <3>1, <3>2, <3>3, DecidedCommits
  <2>5. CASE EndCancel(r)
    BY <2>3, <2>5 DEF EndCancel, TravelStatus
  <2>6. CASE EndClose(r)
    BY <2>3, <2>6 DEF EndClose, TravelStatus
  <2> QED
    BY <1>8, <2>4, <2>5, <2>6
<1> QED
  BY <1>6, <1>7, <1>8

\* The other steps of a request.
LEMMA DecidedGoesOn ==
  ASSUME DecidedInv, NEW r \in Requests,
         \/ StaffReloads(r) \/ \E some \in BOOLEAN : CancelTickets(r, some)
         \/ CloseFails(r) \/ BreakDeadlock(r)
  PROVE  DecidedInv' /\ travel' = travel
<1>1. /\ request[r] \in RequestRecord /\ Decided(request[r])
      /\ \A q \in Requests \ {r} : /\ Distinct(request[r], request[q])
                                   /\ Distinct(request[q], request[r])
  BY DEF DecidedInv, TypeOK
<1>2. CASE StaffReloads(r)
  <2> DEFINE rec == [request[r] EXCEPT
                       !.op = "staff_write",
                       !.differs =
                         travel[request[r].travel].status # "active"]
  <2>1. /\ rec \in RequestRecord
        /\ rec.op = "staff_write" /\ rec.travel = request[r].travel
    BY <1>1 DEF RequestRecord, Op
  <2>2. /\ request' = [request EXCEPT ![r] = rec]
        /\ UNCHANGED <<travel, approval, now>>
        /\ request[r].op = "staff_read"
    BY <1>2 DEF StaffReloads
  <2> HIDE DEF rec
  <2>3. Decided(rec)
    BY <1>1, <2>1, <2>2 DEF Decided
  <2>4. \A q \in Requests \ {r} :
          Distinct(rec, request[q]) /\ Distinct(request[q], rec)
    BY <2>1 DEF Distinct
  <2> QED
    BY <2>1, <2>2, <2>3, <2>4, DecidedMoves
<1>3. ASSUME NEW some \in BOOLEAN, CancelTickets(r, some)
      PROVE  DecidedInv' /\ travel' = travel
  <2> DEFINE rec == [request[r] EXCEPT !.op = "cancel_write",
                                       !.tickets = some]
  <2>1. /\ rec \in RequestRecord
        /\ rec.op = "cancel_write" /\ rec.travel = request[r].travel
    BY <1>1 DEF RequestRecord, Op
  <2>2. /\ request' = [request EXCEPT ![r] = rec]
        /\ UNCHANGED <<travel, approval, now>>
        /\ request[r].op = "cancel_read"
    BY <1>3 DEF CancelTickets
  <2> HIDE DEF rec
  <2>3. Decided(rec)
    BY <1>1, <2>1, <2>2 DEF Decided
  <2>4. \A q \in Requests \ {r} :
          Distinct(rec, request[q]) /\ Distinct(request[q], rec)
    BY <2>1 DEF Distinct
  <2> QED
    BY <2>1, <2>2, <2>3, <2>4, DecidedMoves
<1>4. CASE CloseFails(r) \/ BreakDeadlock(r)
  <2>1. EndsTransaction(r) /\ UNCHANGED <<travel, approval, now>>
    BY <1>4 DEF CloseFails, BreakDeadlock
  <2> QED
    BY <2>1, IdleDecided, DecidedMoves DEF EndsTransaction
<1> QED
  BY <1>2, <1>3, <1>4

\* Every step keeps the invariant and what was rejected.
LEMMA NextDecided ==
  ASSUME DecidedInv, [Next]_vars
  PROVE  /\ DecidedInv'
         /\ \A t \in Travels :
              travel[t].status = "rejected" => travel'[t].status = "rejected"
<1>1. ASSUME NEW r \in Requests, NEW t \in Travels,
             \/ StartReview(r, t) \/ StartStaff(r, t)
             \/ StartCancel(r, t) \/ StartClose(r, t)
      PROVE  DecidedInv' /\ travel' = travel
  <2>1. CASE StartReview(r, t)
    BY <2>1, DecidedOpens DEF StartReview, Op, Opens
  <2>2. CASE StartStaff(r, t)
    BY <2>2, DecidedOpens DEF StartStaff, Op, Opens
  <2>3. CASE StartCancel(r, t)
    BY <2>3, DecidedOpens DEF StartCancel, Op, Opens
  <2>4. CASE StartClose(r, t)
    BY <2>4, DecidedOpens DEF StartClose, Op, Opens
  <2> QED
    BY <1>1, <2>1, <2>2, <2>3, <2>4
<1>2. ASSUME NEW r \in Requests, NEW t \in Travels, NEW trip \in Trip,
             StartCreate(r, t, trip)
      PROVE  DecidedInv' /\ travel' = travel
  BY <1>2, DecidedCreates DEF StartCreate
<1>3. ASSUME NEW r \in Requests, Steps(r)
      PROVE  /\ DecidedInv'
             /\ \A t \in Travels : travel[t].status = "rejected" =>
                                     travel'[t].status = "rejected"
  BY <1>3, DecidedEnds, DecidedGoesOn DEF Steps
<1>4. CASE UpdateApprovalSetting \/ TimePasses \/ UNCHANGED vars
  <2>1. now' \in 0 .. MaxTime /\ UNCHANGED <<travel, request>>
    BY <1>4, BoundAssumption
       DEF UpdateApprovalSetting, TimePasses, vars, DecidedInv, TypeOK
  <2>2. approval' \in BOOLEAN
    BY <1>4 DEF UpdateApprovalSetting, TimePasses, vars, DecidedInv, TypeOK
  <2> QED
    BY <2>1, <2>2 DEF DecidedInv, TypeOK, Decided, Distinct
<1> QED
  BY <1>1, <1>2, <1>3, <1>4 DEF Next

\* Nothing that is read active before a rejection, with a lock or without,
\* sells a rejected travel: no staff assignment, cancellation or close that
\* overlaps the review, and no second reviewer.
THEOREM RejectedIsFinal == Spec => RejectedStaysRejected
<1>1. Init => DecidedInv
  BY BoundAssumption
     DEF Init, DecidedInv, TypeOK, Decided, Distinct, TravelRow,
         TravelStatus, RequestRecord, IdleRequest, Op, NoTrip, Trip
<1>2. DecidedInv /\ [Next]_vars =>
        /\ DecidedInv'
        /\ [\A t \in Travels : travel[t].status = "rejected" =>
                                 travel'[t].status = "rejected"]_vars
  BY NextDecided
<1> QED
  BY <1>1, <1>2, PTL DEF Spec, RejectedStaysRejected
=============================================================================
