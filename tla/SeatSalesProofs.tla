--------------------------- MODULE SeatSalesProofs ---------------------------
(***************************************************************************)
(* For any seats, tickets, QR ids and number of overlapping requests: the  *)
(* rows of SeatSales keep their types, and so does what a request          *)
(* remembers.                                                              *)
(***************************************************************************)
EXTENDS SeatSalesInvariants, TLAPS

-----------------------------------------------------------------------------
(* What is read and what is written.                                       *)

\* A reading holds the entity of every ticket read.
LEMMA ReadType ==
  ASSUME TypeOK
  PROVE  /\ \A t \in Tickets : EntityOf(t) \in Entity
         /\ \A T \in SUBSET Tickets : Read(T) \subseteq Entity
         /\ Overdue \subseteq Tickets
  BY DEF TypeOK, EntityOf, Entity, Read, LinkedSeats, TicketRow, Overdue

\* The first row of a reading that has the seat, and the ticket read.
LEMMA Holders ==
  ASSUME NEW E \in SUBSET Entity
  PROVE  /\ TicketsIn(E) \subseteq Tickets
         /\ SeatsIn(E) \subseteq Seats
         /\ \A s \in SeatsIn(E) :
              \E e \in E : s \in e.seats /\ HolderIn(E, s) = e.ticket
         /\ \A t \in TicketsIn(E) :
              Remembered(E, t) \in E /\ Remembered(E, t).ticket = t
<1>1. TicketsIn(E) \subseteq Tickets /\ SeatsIn(E) \subseteq Seats
  BY DEF TicketsIn, SeatsIn, Entity
<1>2. ASSUME NEW s \in SeatsIn(E)
      PROVE  \E e \in E : s \in e.seats /\ HolderIn(E, s) = e.ticket
  BY DEF SeatsIn, HolderIn
<1>3. ASSUME NEW t \in TicketsIn(E)
      PROVE  Remembered(E, t) \in E /\ Remembered(E, t).ticket = t
  BY DEF TicketsIn, Remembered
<1> QED
  BY <1>1, <1>2, <1>3

\* The rows that the handlers write.
LEMMA RowUpdates ==
  /\ \A r \in TicketRow, st \in TicketStatus, x \in Expiry :
       [r EXCEPT !.status = st, !.expiry = x] \in TicketRow
  /\ \A r \in TicketRow, b \in BOOLEAN : Cancelled(r, b) \in TicketRow
  /\ \A r \in TicketRow, q \in QRs :
       [r EXCEPT !.status = "pending_payment", !.expiry = "running", !.qr = q]
         \in TicketRow
  /\ FreeSeat \in SeatRow /\ UnsoldSeat \in SeatRow
  /\ \A t \in Tickets, st \in SeatStatus :
       [status |-> st, ticket |-> t] \in SeatRow
  /\ \A r \in SeatRow, st \in SeatStatus : [r EXCEPT !.status = st] \in SeatRow
<1>1. \A r \in TicketRow, b \in BOOLEAN : Cancelled(r, b) \in TicketRow
  BY DEF Cancelled, TicketRow, TicketStatus, Expiry
<1>2. /\ FreeSeat \in SeatRow /\ UnsoldSeat \in SeatRow
      /\ \A t \in Tickets, st \in SeatStatus :
           [status |-> st, ticket |-> t] \in SeatRow
  BY DEF FreeSeat, UnsoldSeat, SeatRow, SeatStatus
<1>3. \A r \in TicketRow, st \in TicketStatus, x \in Expiry :
        [r EXCEPT !.status = st, !.expiry = x] \in TicketRow
  BY DEF TicketRow
<1>4. \A r \in TicketRow, q \in QRs :
        [r EXCEPT !.status = "pending_payment", !.expiry = "running", !.qr = q]
          \in TicketRow
  BY DEF TicketRow, TicketStatus, Expiry
<1>5. \A r \in SeatRow, st \in SeatStatus : [r EXCEPT !.status = st] \in SeatRow
  BY DEF SeatRow
<1> QED
  BY <1>1, <1>2, <1>3, <1>4, <1>5

\* What expireTravelIfNeeded writes.
LEMMA ExpiredType ==
  ASSUME TypeOK, NEW E
  PROVE  /\ ExpiredTicket(E) \in [Tickets -> TicketRow]
         /\ ExpiredSeat(E) \in [Seats -> SeatRow]
<1>1. ExpiredTicket(E) \in [Tickets -> TicketRow]
  <2> SUFFICES ASSUME NEW t \in Tickets
               PROVE  ExpiredTicket(E)[t] \in TicketRow
    BY DEF ExpiredTicket
  <2> QED
    BY DEF TypeOK, ExpiredTicket, TicketRow, TicketStatus
<1>2. ExpiredSeat(E) \in [Seats -> SeatRow]
  BY RowUpdates DEF TypeOK, ExpiredSeat
<1> QED
  BY <1>1, <1>2

\* Only tickets go astray.
LEMMA AstrayType ==
  ASSUME TypeOK, NEW E, NEW x, NEW y
  PROVE  astray \cup Overwritten(E, x, y) \subseteq Tickets
  BY DEF TypeOK, Overwritten

\* A request that starts remembers what its record allows; one that ends
\* remembers nothing.
LEMMA RequestType ==
  ASSUME TypeOK, NEW r \in Requests
  PROVE  /\ Idle \in RequestRecord
         /\ [request EXCEPT ![r] = Idle] \in [Requests -> RequestRecord]
         /\ \A R \in RequestRecord :
              [request EXCEPT ![r] = R] \in [Requests -> RequestRecord]
<1>1. Idle \in RequestRecord
  BY DEF Idle, RequestRecord, Kinds, OfficeKinds
<1> QED
  BY <1>1 DEF TypeOK

\* What a request under way remembers are entities.
LEMMA RememberedType ==
  ASSUME TypeOK, NEW r \in Requests
  PROVE  /\ request[r].overdue \in SUBSET Entity
         /\ request[r].rows \in SUBSET Entity
         /\ request[r].overdue \cup request[r].rows \in SUBSET Entity
         /\ request[r].kind \in Kinds
  BY DEF TypeOK, RequestRecord

\* Every request starts with a record of the right type.
LEMMA StartsType ==
  ASSUME TypeOK, NEW r \in Requests, StartListing(r) \/ StartsAny(r)
  PROVE  TypeOK'
<1> SUFFICES ASSUME NEW R \in RequestRecord, Starts(r, R)
             PROVE  TypeOK'
  <2> DEFINE Overdues == Read(Overdue)
  <2>1. Overdues \subseteq Entity
    BY ReadType
  <2>2. CASE StartListing(r)
    <3>1. [Idle EXCEPT !.op = "listing", !.overdue = Overdues] \in RequestRecord
      BY <2>1, RequestType DEF Idle, RequestRecord
    <3> QED
      BY <2>2, <3>1 DEF StartListing
  <2>3. ASSUME NEW k \in Kinds, StartSale(r, k)
        PROVE  TypeOK'
    <3>1. [Idle EXCEPT !.op = "sale", !.kind = k, !.overdue = Overdues]
            \in RequestRecord
      BY <2>1, RequestType DEF Idle, RequestRecord
    <3> QED
      BY <2>3, <3>1 DEF StartSale
  <2>4. ASSUME NEW q \in QRs, StartNotice(r, q)
        PROVE  TypeOK'
    <3> DEFINE T == {t \in Tickets : ticket[t].qr = q /\ ~ticket[t].deleted}
    <3>1. Read(T) \subseteq Entity
      BY ReadType
    <3>2. [Idle EXCEPT !.op = "notice", !.qr = q, !.rows = Read(T)]
            \in RequestRecord
      <4> HIDE DEF T
      <4> QED
        BY <3>1, RequestType DEF Idle, RequestRecord
    <3> QED
      BY <2>4, <3>2 DEF StartNotice
  <2>5. CASE StartAssignStaff(r)
    <3>1. [Idle EXCEPT !.op = "staff"] \in RequestRecord
      BY RequestType DEF Idle, RequestRecord
    <3> QED
      BY <2>5, <3>1 DEF StartAssignStaff
  <2>6. CASE StartCancelTravel(r)
    <3> DEFINE T == {t \in Tickets : Live(t)} \ Overdue
    <3>1. Read(T) \subseteq Entity
      BY ReadType
    <3>2. [Idle EXCEPT !.op = "cancel", !.overdue = Overdues, !.rows = Read(T)]
            \in RequestRecord
      <4> HIDE DEF T, Overdues
      <4> QED
        BY <2>1, <3>1, RequestType DEF Idle, RequestRecord
    <3> QED
      BY <2>6, <3>2 DEF StartCancelTravel
  <2>7. CASE StartClose(r)
    <3> DEFINE T == {t \in Tickets : /\ ~ticket[t].deleted
                                     /\ ticket[t].status # "unused"} \ Overdue
               S == {s \in Seats : /\ seat[s].status = "sold"
                                   /\ seat[s].ticket \notin Overdue}
    <3>1. Read(T) \subseteq Entity
      BY ReadType
    <3>2. [Idle EXCEPT !.op = "close", !.overdue = Overdues, !.rows = Read(T),
                       !.sold = S] \in RequestRecord
      <4>1. S \subseteq Seats
        OBVIOUS
      <4> HIDE DEF T, S, Overdues
      <4> QED
        BY <2>1, <3>1, <4>1, RequestType DEF Idle, RequestRecord
    <3> QED
      BY <2>7, <3>2 DEF StartClose
  <2> QED
    BY <2>2, <2>3, <2>4, <2>5, <2>6, <2>7 DEF StartsAny
<1> QED
  BY RequestType DEF Starts, TypeOK

\* Every request that commits leaves rows of the right types.
LEMMA CommitsType ==
  ASSUME TypeOK, NEW r \in Requests, CommitsAny(r)
  PROVE  TypeOK'
<1> DEFINE overdue == request[r].overdue
           rows == request[r].rows
<1>1. overdue \in SUBSET Entity /\ rows \in SUBSET Entity
      /\ overdue \cup rows \in SUBSET Entity /\ request[r].kind \in Kinds
  BY RememberedType
<1>2. [request EXCEPT ![r] = Idle] \in [Requests -> RequestRecord]
  BY RequestType
<1> HIDE DEF overdue, rows
<1>3. CASE EndListing(r)
  <2>1. ticket' \in [Tickets -> TicketRow] /\ seat' \in [Seats -> SeatRow]
    BY <1>3, ExpiredType DEF EndListing
  <2>2. request' \in [Requests -> RequestRecord] /\ astray' \subseteq Tickets
    BY <1>3, <1>2, AstrayType DEF EndListing, Commits
  <2> QED
    BY <1>3, <2>1, <2>2 DEF EndListing, TypeOK
<1>4. ASSUME NEW t \in Tickets, NEW S \in SUBSET Seats, EndSale(r, t, S)
      PROVE  TypeOK'
  <2> DEFINE row == [UnusedTicket EXCEPT !.status = "reserved",
                                         !.kind = request[r].kind,
                                         !.seats = S, !.expiry = "running"]
  <2>1. row \in TicketRow
    BY <1>1 DEF UnusedTicket, TicketRow, TicketStatus, Expiry
  <2>2. ticket' \in [Tickets -> TicketRow]
    <3> HIDE DEF row
    <3>1. ticket' = [ExpiredTicket(overdue) EXCEPT ![t] = row]
      BY <1>4 DEF EndSale, overdue, row
    <3> QED
      BY <2>1, <3>1, ExpiredType
  <2>3. seat' \in [Seats -> SeatRow]
    <3>1. seat' = [s \in Seats |-> IF s \in S
                                   THEN [status |-> "reserved", ticket |-> t]
                                   ELSE ExpiredSeat(overdue)[s]]
      BY <1>4 DEF EndSale, overdue
    <3>2. [status |-> "reserved", ticket |-> t] \in SeatRow
      BY RowUpdates DEF SeatStatus
    <3> QED
      BY <3>1, <3>2, ExpiredType
  <2>4. request' \in [Requests -> RequestRecord] /\ astray' \subseteq Tickets
    BY <1>4, <1>2, AstrayType DEF EndSale, Commits
  <2> QED
    BY <1>4, <2>2, <2>3, <2>4 DEF EndSale, TypeOK
<1>5. CASE EndNotice(r)
  <2>1. ticket' \in [Tickets -> TicketRow]
    BY <1>5, RowUpdates DEF EndNotice, TypeOK, TicketStatus, Expiry
  <2>2. seat' \in [Seats -> SeatRow]
    <3>1. \A s \in SeatsIn(rows) : HolderIn(rows, s) \in Tickets
      BY <1>1, Holders DEF Entity
    <3> QED
      BY <1>5, <3>1, RowUpdates DEF EndNotice, rows, TypeOK, SeatStatus
  <2>3. paymentQr' \in [QRs -> QrRow]
    BY <1>5 DEF EndNotice, TypeOK, QrRow
  <2>4. astray' \subseteq Tickets
    <3>1. {e.ticket : e \in {f \in rows : f.status \notin Active}}
            \subseteq Tickets
      BY <1>1 DEF Entity
    <3> QED
      BY <1>5, <3>1, AstrayType DEF EndNotice, rows
  <2> QED
    BY <1>5, <1>2, <2>1, <2>2, <2>3, <2>4 DEF EndNotice, TypeOK
<1>6. CASE EndAssignStaff(r)
  BY <1>6, <1>2 DEF EndAssignStaff, TypeOK, TravelRow, TravelStatus
<1>7. CASE EndCancelTravel(r)
  <2>1. ticket' \in [Tickets -> TicketRow]
    <3>1. \A t \in Tickets : ticket[t] \in TicketRow
      BY DEF TypeOK
    <3>2. \A t \in Tickets :
            Cancelled(ticket[t], Remembered(rows, t).status \in Unpaid)
              \in TicketRow
      <4> SUFFICES ASSUME NEW t \in Tickets,
                          NEW b, b = (Remembered(rows, t).status \in Unpaid)
                   PROVE  Cancelled(ticket[t], b) \in TicketRow
        OBVIOUS
      <4>1. b \in BOOLEAN
        OBVIOUS
      <4> QED
        BY <3>1, <4>1, RowUpdates
    <3> QED
      BY <1>7, <3>2, ExpiredType DEF EndCancelTravel, rows
  <2>2. seat' \in [Seats -> SeatRow]
    BY <1>7, RowUpdates DEF EndCancelTravel, GivenUp, TypeOK
  <2>3. travel' \in TravelRow
    BY <1>7 DEF EndCancelTravel, TypeOK, TravelRow, TravelStatus
  <2>4. request' \in [Requests -> RequestRecord] /\ astray' \subseteq Tickets
    BY <1>7, <1>2, AstrayType DEF EndCancelTravel, Commits
  <2> QED
    BY <1>7, <2>1, <2>2, <2>3, <2>4 DEF EndCancelTravel, TypeOK
<1>8. CASE EndClose(r)
  <2>1. ticket' \in [Tickets -> TicketRow]
    <3>1. PICK lapsed \in SUBSET TicketsIn(rows) :
            ticket' = [t \in Tickets |->
                         IF t \in TicketsIn(rows)
                         THEN [ticket[t] EXCEPT
                                 !.status = ClosedStatus(Remembered(rows, t),
                                                         lapsed),
                                 !.expiry = "none"]
                         ELSE ExpiredTicket(overdue)[t]]
      BY <1>8 DEF EndClose, rows, overdue
    <3>2. \A t \in TicketsIn(rows) :
            ClosedStatus(Remembered(rows, t), lapsed) \in TicketStatus
      <4>1. \A e \in rows : e.status \in TicketStatus
        BY <1>1 DEF Entity
      <4> QED
        BY <1>1, <4>1, Holders DEF ClosedStatus, TicketStatus
    <3>3. \A t \in Tickets : ticket[t] \in TicketRow
      BY DEF TypeOK
    <3> QED
      BY <3>1, <3>2, <3>3, RowUpdates, ExpiredType DEF Expiry
  <2>2. seat' \in [Seats -> SeatRow]
    <3>1. \A s \in SeatsIn(rows) : HolderIn(rows, s) \in Tickets
      BY <1>1, Holders DEF Entity
    <3> QED
      BY <1>8, <3>1, RowUpdates DEF EndClose, rows, TypeOK, SeatStatus
  <2>3. travel' \in TravelRow
    BY <1>8 DEF EndClose, TypeOK, TravelRow, TravelStatus
  <2>4. request' \in [Requests -> RequestRecord] /\ astray' \subseteq Tickets
    BY <1>8, <1>2, AstrayType DEF EndClose, Commits
  <2> QED
    BY <1>8, <2>1, <2>2, <2>3, <2>4 DEF EndClose, TypeOK
<1> QED
  BY <1>3, <1>4, <1>5, <1>6, <1>7, <1>8 DEF CommitsAny

\* A ticket that is sold or given up keeps its types, and so do its seats.
LEMMA TicketType ==
  ASSUME TypeOK, NEW t \in Tickets
  PROVE  /\ SoldTicket(t) \in [Tickets -> TicketRow]
         /\ CancelledTicket(t) \in [Tickets -> TicketRow]
         /\ SoldSeats(t, LinkedSeats(t)) \in [Seats -> SeatRow]
         /\ GivenUp(LinkedSeats(t)) \in [Seats -> SeatRow]
<1>1. SoldTicket(t) \in [Tickets -> TicketRow]
  <2>1. [ticket[t] EXCEPT !.status = "sold", !.expiry = "none"] \in TicketRow
    BY RowUpdates DEF TypeOK, TicketStatus, Expiry
  <2>2. SoldTicket(t) = [ticket EXCEPT ![t] = [ticket[t] EXCEPT
                           !.status = "sold", !.expiry = "none"]]
    BY DEF TypeOK, SoldTicket, TicketRow
  <2> QED
    BY <2>1, <2>2 DEF TypeOK
<1>2. CancelledTicket(t) \in [Tickets -> TicketRow]
  <2> SUFFICES ASSUME NEW b, b = (ticket[t].status \in Unpaid)
               PROVE  [ticket EXCEPT ![t] = Cancelled(ticket[t], b)]
                        \in [Tickets -> TicketRow]
    BY DEF CancelledTicket
  <2>1. b \in BOOLEAN
    OBVIOUS
  <2> QED
    BY <2>1, RowUpdates DEF TypeOK
<1>3. SoldSeats(t, LinkedSeats(t)) \in [Seats -> SeatRow]
  BY RowUpdates DEF TypeOK, SoldSeats, SeatStatus
<1>4. GivenUp(LinkedSeats(t)) \in [Seats -> SeatRow]
  BY RowUpdates DEF TypeOK, GivenUp
<1> QED
  BY <1>1, <1>2, <1>3, <1>4

\* Every step leaves rows of the right types.
LEMMA NextType ==
  ASSUME TypeOK, [Next]_vars
  PROVE  TypeOK'
<1>1. ASSUME NEW r \in Requests, StartListing(r) \/ StartsAny(r)
      PROVE  TypeOK'
  BY <1>1, StartsType
<1>2. ASSUME NEW r \in Requests, CommitsAny(r)
      PROVE  TypeOK'
  BY <1>2, CommitsType
<1>3. ASSUME NEW r \in Requests, RollBack(r)
      PROVE  TypeOK'
  BY <1>3, RequestType DEF RollBack, TypeOK
<1>4. ASSUME NEW t \in Tickets, PayFromWallet(t)
      PROVE  TypeOK'
  BY <1>4, TicketType DEF PayFromWallet, TypeOK
<1>5. ASSUME NEW q \in QRs, NEW t \in Tickets, AskBank(q, t)
      PROVE  TypeOK'
  BY <1>5, ReadType DEF AskBank, TypeOK
<1>6. ASSUME NEW q \in QRs, BankFails(q)
      PROVE  TypeOK'
  BY <1>6 DEF BankFails, TypeOK
<1>7. ASSUME NEW q \in QRs, SaveQr(q)
      PROVE  TypeOK'
  <2>1. call[q] \in Entity
    BY <1>7 DEF SaveQr, TypeOK
  <2> DEFINE t == call[q].ticket
  <2>2. t \in Tickets
    BY <2>1 DEF Entity
  <2>3. ticket' \in [Tickets -> TicketRow]
    BY <1>7, <2>2, RowUpdates DEF SaveQr, TypeOK
  <2>4. seat' \in [Seats -> SeatRow]
    BY <1>7, RowUpdates DEF SaveQr, TypeOK, SeatStatus
  <2>5. paymentQr' \in [QRs -> QrRow]
    BY <1>7, <2>2 DEF SaveQr, TypeOK, QrRow
  <2>6. astray' \subseteq Tickets
    BY <1>7, AstrayType DEF SaveQr
  <2>7. call' \in [QRs -> Entity \cup {Null}]
    BY <1>7 DEF SaveQr, TypeOK
  <2> QED
    BY <1>7, <2>3, <2>4, <2>5, <2>6, <2>7 DEF SaveQr, TypeOK
<1>8. ASSUME NEW t \in Tickets, ConfirmCash(t)
      PROVE  TypeOK'
  BY <1>8, TicketType DEF ConfirmCash, TypeOK
<1>9. ASSUME NEW t \in Tickets, CancelInApp(t)
      PROVE  TypeOK'
  <2>1. paymentQr' \in [QRs -> QrRow]
    BY <1>9 DEF CancelInApp, TypeOK, QrRow
  <2> QED
    BY <1>9, <2>1, TicketType DEF CancelInApp, TypeOK
<1>10. ASSUME NEW t \in Tickets, CancelInOffice(t)
       PROVE  TypeOK'
  BY <1>10, TicketType DEF CancelInOffice, TypeOK
<1>11. ASSUME NEW t \in Tickets, DeadlinePasses(t)
       PROVE  TypeOK'
  BY <1>11 DEF DeadlinePasses, TypeOK, TicketRow, Expiry
<1>12. CASE TravelNears
  BY <1>12 DEF TravelNears, TypeOK, TravelRow, Phase
<1>13. CASE UNCHANGED vars
  BY <1>13 DEF vars, TypeOK
<1> QED
  BY <1>1, <1>2, <1>3, <1>4, <1>5, <1>6, <1>7, <1>8, <1>9, <1>10, <1>11,
     <1>12, <1>13 DEF Next

\* No row of SeatSales ever holds what its column does not allow, and no
\* request remembers what is not an entity.
THEOREM TypeCorrect == Spec => []TypeOK
<1>1. Init => TypeOK
  BY RequestType DEF Init, TypeOK, TravelRow, TravelStatus, Phase, SeatRow,
     SeatStatus, FreeSeat, TicketRow, TicketStatus, UnusedTicket, Kinds,
     OfficeKinds, Expiry, QrRow, Idle, RequestRecord
<1>2. TypeOK /\ [Next]_vars => TypeOK'
  BY NextType
<1> QED
  BY <1>1, <1>2, PTL DEF Spec
=============================================================================
