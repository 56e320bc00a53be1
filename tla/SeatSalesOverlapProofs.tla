----------------------- MODULE SeatSalesOverlapProofs -----------------------
(***************************************************************************)
(* For any seats, tickets, QR ids and number of overlapping requests:      *)
(* SaleInv is inductive, and from it follow the laws of SeatSales and the  *)
(* refinement of SeatAllocation.                                           *)
(*                                                                         *)
(* The argument: a write of remembered entities either finds a ticket as   *)
(* it was read, and then treats all its seats alike, or the ticket goes    *)
(* astray, or the write does not touch it.                                 *)
(***************************************************************************)
EXTENDS SeatSalesProofs

-----------------------------------------------------------------------------
(* What no step undoes.                                                    *)

\* A ticket once used keeps the seats it was sold and its kind, a QR row its
\* ticket and its payment, and what is astray stays astray.
Frame ==
  /\ astray \subseteq astray'
  /\ \A t \in Tickets : ticket[t].status # "unused" =>
       /\ ticket'[t].status # "unused"
       /\ ticket'[t].seats = ticket[t].seats
       /\ ticket'[t].kind = ticket[t].kind
  /\ \A q \in QRs : paymentQr[q].status # "none" =>
       /\ paymentQr'[q].status # "none"
       /\ paymentQr'[q].ticket = paymentQr[q].ticket
       /\ paymentQr[q].status = "paid" => paymentQr'[q].status = "paid"

\* A ticket that is not astray does not come back to life.
NoRevival ==
  \A t \in Tickets \ astray' :
    ticket[t].status # "unused" /\ Live(t)' => Live(t)

\* A sold ticket that is not astray is sold still, or cancelled.
SoldKeeps ==
  \A t \in Tickets \ astray' : ticket[t].status = "sold" =>
    ticket'[t].status \in {"sold", "cancelled"}

\* A payment that has come in stays.
LEMMA PaidStays ==
  ASSUME TypeOK, TypeOK', Frame, NEW t \in Tickets, PaidByBank(t)
  PROVE  PaidByBank(t)'
<1>1. PICK q \in QRs : paymentQr[q] = [status |-> "paid", ticket |-> t]
  BY DEF PaidByBank
<1>2. paymentQr'[q].status = "paid" /\ paymentQr'[q].ticket = t
  BY <1>1 DEF Frame
<1>3. paymentQr'[q] = [status |-> "paid", ticket |-> t]
  BY <1>2 DEF TypeOK, QrRow
<1> QED
  BY <1>3 DEF PaidByBank

\* What has been read stays a possible reading.
LEMMA EntityKept ==
  ASSUME Frame, NEW e \in Entity, EntityOK(e)
  PROVE  EntityOK(e)'
  BY DEF Frame, EntityOK, Entity

\* Whatever a request remembers goes on fitting the rows.
LEMMA RequestKept ==
  ASSUME TypeOK, TypeOK', Frame, NEW R \in RequestRecord, RequestOK(R)
  PROVE  RequestOK(R)'
<1>1. R.overdue \in SUBSET Entity /\ R.rows \in SUBSET Entity
  BY DEF RequestRecord
<1>2. \A e \in R.overdue \cup R.rows : EntityOK(e)'
  BY <1>1, EntityKept DEF RequestOK, ReadingOK
<1>3. ReadingOK(R.overdue \cup R.rows)'
  BY <1>2 DEF RequestOK, ReadingOK
<1>4. R.op = "notice" =>
        /\ R.overdue = {}
        /\ R.qr \in QRs /\ paymentQr'[R.qr].status # "none"
        /\ \A e \in R.rows : paymentQr'[R.qr].ticket = e.ticket
  BY DEF RequestOK, Frame
<1>5. ASSUME R.op = "close"
      PROVE  /\ SoldSeatsRead(R)'
             /\ \A e \in R.rows :
                  e.status = "sold" /\ ticket'[e.ticket].kind \in BankKinds =>
                    PaidByBank(e.ticket)'
  <2>1. SoldSeatsRead(R)'
    BY <1>5 DEF RequestOK, SoldSeatsRead, Frame
  <2>2. ASSUME NEW e \in R.rows, e.status = "sold",
               ticket'[e.ticket].kind \in BankKinds
        PROVE  PaidByBank(e.ticket)'
    <3>1. e.ticket \in Tickets /\ EntityOK(e)
      BY <1>1 DEF Entity, RequestOK, ReadingOK
    <3>2. ticket[e.ticket].kind \in BankKinds
      BY <2>2, <3>1 DEF Frame, EntityOK
    <3> QED
      BY <1>5, <2>2, <3>1, <3>2, PaidStays DEF RequestOK
  <2> QED
    BY <2>1, <2>2
<1> QED
  BY <1>3, <1>4, <1>5 DEF RequestOK

\* An idle request remembers nothing.
LEMMA IdleOK == RequestOK(Idle)
  BY DEF RequestOK, ReadingOK, Idle

\* A step that changes what one request remembers into a possible reading.
LEMMA RequestsKept ==
  ASSUME TypeOK, TypeOK', Frame, RequestsOK,
         \/ request' = request
         \/ \E r \in Requests, R \in RequestRecord :
              RequestOK(R) /\ request' = [request EXCEPT ![r] = R]
  PROVE  RequestsOK'
<1> SUFFICES ASSUME NEW r \in Requests
             PROVE  RequestOK(request[r])'
  BY DEF RequestsOK
<1>1. PICK R \in RequestRecord : RequestOK(R) /\ request'[r] = R
  BY DEF RequestsOK, TypeOK
<1>2. RequestOK(R)'
  BY <1>1, RequestKept
<1> QED
  BY <1>1, <1>2

\* A request that ends, or none that changes.
LEMMA RequestsEndOK ==
  ASSUME TypeOK, TypeOK', Frame, RequestsOK,
         \/ request' = request
         \/ \E r \in Requests : request' = [request EXCEPT ![r] = Idle]
  PROVE  RequestsOK'
  BY IdleOK, RequestsKept, RequestType

\* The calls of the bank that go on.
LEMMA CallsKept ==
  ASSUME TypeOK, TypeOK', Frame, CallsOK,
         \A q \in QRs : \/ call'[q] = Null
                        \/ /\ call'[q] = call[q]
                           /\ paymentQr[q].status = "none" =>
                                paymentQr'[q].status = "none"
  PROVE  CallsOK'
<1> SUFFICES ASSUME NEW q \in QRs, call'[q] # Null
             PROVE  /\ EntityOK(call[q])'
                    /\ call'[q].status = "reserved"
                    /\ paymentQr'[q].status = "none"
  BY DEF CallsOK
<1>1. call'[q] = call[q] /\ call[q] \in Entity /\ call[q] # Null
  BY DEF TypeOK
<1>2. PICK e \in Entity : e = call[q]
  BY <1>1
<1>3. EntityOK(e) /\ e.status = "reserved" /\ paymentQr'[q].status = "none"
  BY <1>1, <1>2 DEF CallsOK
<1>4. EntityOK(e)'
  BY <1>3, EntityKept
<1> QED
  BY <1>1, <1>2, <1>3, <1>4

\* The links of tickets to their QRs.
LEMMA QrsKept ==
  ASSUME Frame, QrsOK, \A t \in Tickets : ticket'[t].qr \in {ticket[t].qr, Null}
  PROVE  QrsOK'
  BY NullAssumption DEF QrsOK, Frame

\* Payments of SOLD tickets.
LEMMA SoldKept ==
  ASSUME TypeOK, TypeOK', Frame, SoldWasPaid,
         \A t \in Tickets : ticket'[t].status = "sold" =>
           \/ ticket[t].status = "sold"
           \/ ticket'[t].kind \notin BankKinds
           \/ PaidByBank(t) \/ PaidByBank(t)'
  PROVE  SoldWasPaid'
<1> SUFFICES ASSUME NEW t \in Tickets, ticket'[t].status = "sold",
                    ticket'[t].kind \in BankKinds
             PROVE  PaidByBank(t)'
  BY DEF SoldWasPaid
<1>1. PaidByBank(t) => PaidByBank(t)'
  BY PaidStays
<1>2. ticket[t].status = "sold" => PaidByBank(t)
  BY DEF SoldWasPaid, Frame
<1> QED
  BY <1>1, <1>2

-----------------------------------------------------------------------------
(* What a write does to the tickets it does not touch.                     *)

\* A step that changes neither the ticket nor a seat of it.
LEMMA Untouched ==
  ASSUME TypeOK, TypeOK', NEW t \in Tickets, SeatsFollow(t),
         ~Touches(seat', ticket', t)
  PROVE  SeatsFollow(t)' /\ ticket'[t] = ticket[t]
<1>1. ticket'[t] = ticket[t]
  BY DEF Touches
<1>2. \A s \in Seats : (seat'[s].ticket = t <=> seat[s].ticket = t)
                       /\ (seat[s].ticket = t => seat'[s] = seat[s])
  BY DEF Touches
<1>3. LinkedSeats(t)' = LinkedSeats(t)
  BY <1>2 DEF LinkedSeats
<1>4. \A s \in LinkedSeats(t) : seat'[s] = seat[s]
  BY <1>2 DEF LinkedSeats
<1>5. Live(t)' <=> Live(t)
  BY <1>1 DEF Live
<1> QED
  BY <1>1, <1>3, <1>4, <1>5 DEF SeatsFollow

\* A write that treats the tickets it has read as they are as it should.
LEMMA FollowKept ==
  ASSUME TypeOK, TypeOK', SeatsFollowTickets, NEW E, astray \subseteq astray',
         Overwritten(E, seat', ticket') \subseteq astray',
         \A t \in Tickets \ astray' :
           /\ ~ticket[t].deleted /\ EntityOf(t) \in E /\ SeatsFollow(t)
           => SeatsFollow(t)'
  PROVE  SeatsFollowTickets'
<1> SUFFICES ASSUME NEW t \in Tickets \ astray'
             PROVE  SeatsFollow(t)'
  BY DEF SeatsFollowTickets
<1>1. SeatsFollow(t)
  BY DEF SeatsFollowTickets
<1>2. CASE Touches(seat', ticket', t)
  BY <1>1, <1>2 DEF Overwritten
<1>3. CASE ~Touches(seat', ticket', t)
  BY <1>1, <1>3, Untouched
<1> QED
  BY <1>2, <1>3

\* A ticket that is not astray has been read as it is, or is not changed.
LEMMA ChangedWasRead ==
  ASSUME NEW E, Overwritten(E, seat', ticket') \subseteq astray',
         NEW t \in Tickets \ astray', ticket'[t] # ticket[t]
  PROVE  ~ticket[t].deleted /\ EntityOf(t) \in E
  BY DEF Overwritten, Touches

\* Links: a step that links a seat anew links it to a ticket that was sold it.
LEMMA LinksKept ==
  ASSUME Frame, LinksNamed,
         \A s \in Seats, t \in Tickets : seat'[s].ticket = t =>
           \/ seat[s].ticket = t
           \/ ticket[t].status # "unused" /\ s \in ticket[t].seats
  PROVE  LinksNamed'
<1> SUFFICES ASSUME NEW s \in Seats, NEW t \in Tickets, seat'[s].ticket = t
             PROVE  s \in ticket'[t].seats /\ ticket'[t].status # "unused"
  BY DEF LinksNamed
<1>1. ticket[t].status # "unused" /\ s \in ticket[t].seats
  BY DEF LinksNamed
<1> QED
  BY <1>1 DEF Frame

\* A ticket nobody has used cannot go astray.
LEMMA UnusedKept ==
  ASSUME LinksNamed, UnusedTicketsClean, NEW E, NEW x, NEW y,
         NEW t \in Tickets, ticket[t].status = "unused", y[t] = ticket[t],
         \A s \in Seats : x[s] = seat[s] \/ x[s].ticket # t
  PROVE  t \notin astray \cup Overwritten(E, x, y)
<1>1. t \notin astray
  BY DEF UnusedTicketsClean
<1>2. \A s \in Seats : seat[s].ticket # t
  BY DEF LinksNamed
<1> QED
  BY <1>1, <1>2 DEF Overwritten, Touches

-----------------------------------------------------------------------------
(* What a reading says of the rows it has been read from.                  *)

\* Tickets that are not deleted, read as they are, make a possible reading.
LEMMA FreshEntity ==
  ASSUME TypeOK, LinksNamed, SeatsFollowTickets, NEW t \in Tickets,
         ~ticket[t].deleted, ticket[t].status # "unused"
  PROVE  EntityOK(EntityOf(t))
<1>1. LinkedSeats(t) \subseteq ticket[t].seats
  BY DEF LinkedSeats, LinksNamed
<1>2. t \notin astray =>
        LinkedSeats(t) = IF ticket[t].status \in Active THEN ticket[t].seats
                                                        ELSE {}
  BY DEF SeatsFollowTickets, SeatsFollow, Live
<1> QED
  BY <1>1, <1>2 DEF EntityOK, EntityOf

\* And so do several of them.
LEMMA FreshReading ==
  ASSUME TypeOK, LinksNamed, SeatsFollowTickets, NEW T \in SUBSET Tickets,
         \A t \in T : ~ticket[t].deleted /\ ticket[t].status # "unused"
  PROVE  ReadingOK(Read(T))
<1>1. \A e \in Read(T) : EntityOK(e)
  BY FreshEntity DEF Read
<1>2. ASSUME NEW e \in Read(T), NEW f \in Read(T),
             e.ticket = f.ticket \/ e.seats \cap f.seats # {}
      PROVE  e = f
  <2>1. PICK t \in T, u \in T : e = EntityOf(t) /\ f = EntityOf(u)
    BY DEF Read
  <2>2. t = u
    BY <1>2, <2>1 DEF EntityOf, LinkedSeats
  <2> QED
    BY <2>1, <2>2
<1> QED
  BY <1>1, <1>2 DEF ReadingOK

\* Part of a possible reading is one.
LEMMA ReadingPart ==
  ASSUME NEW E, NEW F, ReadingOK(E), F \subseteq E
  PROVE  ReadingOK(F)
  BY DEF ReadingOK

\* In a reading each ticket is named once, with seats of its own.
LEMMA ReadOnce ==
  ASSUME NEW E \in SUBSET Entity, ReadingOK(E), NEW e \in E
  PROVE  /\ e.ticket \in TicketsIn(E) /\ e.ticket \in Tickets
         /\ e.seats \subseteq SeatsIn(E)
         /\ Remembered(E, e.ticket) = e
         /\ \A s \in SeatsIn(E) : HolderIn(E, s) = e.ticket <=> s \in e.seats
<1>1. e.ticket \in TicketsIn(E) /\ e.seats \subseteq SeatsIn(E)
      /\ e.ticket \in Tickets
  BY DEF TicketsIn, SeatsIn, Entity
<1>2. Remembered(E, e.ticket) = e
  BY <1>1, Holders DEF ReadingOK
<1>3. ASSUME NEW s \in SeatsIn(E)
      PROVE  HolderIn(E, s) = e.ticket <=> s \in e.seats
  <2>1. PICK f \in E : s \in f.seats /\ HolderIn(E, s) = f.ticket
    BY Holders
  <2> QED
    BY <2>1 DEF ReadingOK
<1> QED
  BY <1>1, <1>2, <1>3

\* Whom the reading names has been used, and was sold the seats it names.
LEMMA ReadNamed ==
  ASSUME NEW E \in SUBSET Entity, ReadingOK(E)
  PROVE  /\ \A t \in TicketsIn(E) : ticket[t].status # "unused"
         /\ \A s \in SeatsIn(E) : /\ HolderIn(E, s) \in Tickets
                                  /\ ticket[HolderIn(E, s)].status # "unused"
                                  /\ s \in ticket[HolderIn(E, s)].seats
<1>1. \A t \in TicketsIn(E) : ticket[t].status # "unused"
  BY DEF TicketsIn, ReadingOK, EntityOK
<1>2. ASSUME NEW s \in SeatsIn(E)
      PROVE  /\ HolderIn(E, s) \in Tickets
             /\ ticket[HolderIn(E, s)].status # "unused"
             /\ s \in ticket[HolderIn(E, s)].seats
  <2>1. PICK e \in E : s \in e.seats /\ HolderIn(E, s) = e.ticket
    BY Holders
  <2>2. EntityOK(e) /\ e.ticket \in Tickets
    BY DEF ReadingOK, Entity
  <2> QED
    BY <2>1, <2>2 DEF EntityOK
<1> QED
  BY <1>1, <1>2

\* What expireTravelIfNeeded writes, column by column.
LEMMA ExpiredColumns ==
  ASSUME TypeOK, NEW E \in SUBSET Entity
  PROVE  /\ \A t \in Tickets :
              LET row == ExpiredTicket(E)[t]
              IN  /\ row.seats = ticket[t].seats /\ row.kind = ticket[t].kind
                  /\ row.qr = ticket[t].qr
                  /\ t \in TicketsIn(E) => row.status = "expired" /\ row.deleted
                  /\ t \notin TicketsIn(E) => row = ticket[t]
         /\ \A s \in Seats :
              /\ s \in SeatsIn(E) => ExpiredSeat(E)[s] = FreeSeat
              /\ s \notin SeatsIn(E) => ExpiredSeat(E)[s] = seat[s]
<1>1. ASSUME NEW t \in Tickets
      PROVE  LET row == ExpiredTicket(E)[t]
             IN  /\ row.seats = ticket[t].seats /\ row.kind = ticket[t].kind
                 /\ row.qr = ticket[t].qr
                 /\ t \in TicketsIn(E) => row.status = "expired" /\ row.deleted
                 /\ t \notin TicketsIn(E) => row = ticket[t]
  <2>1. ticket[t] \in TicketRow
    BY DEF TypeOK
  <2> QED
    BY <2>1 DEF ExpiredTicket, TicketRow
<1>2. \A s \in Seats : /\ s \in SeatsIn(E) => ExpiredSeat(E)[s] = FreeSeat
                       /\ s \notin SeatsIn(E) => ExpiredSeat(E)[s] = seat[s]
  BY DEF ExpiredSeat
<1> QED
  BY <1>1, <1>2

\* The parts of SaleInv that a step which commits has to keep.
LEMMA Parts ==
  ASSUME LinksNamed', FreeSeatsUnlinked', UnusedTicketsClean', RequestsOK',
         CallsOK', QrsOK', SeatsFollowTickets', SoldWasPaid'
  PROVE  SaleInv'
  BY DEF SaleInv

-----------------------------------------------------------------------------
(* Requests that start.                                                    *)

\* A request that starts changes no row, and remembers a possible reading.
LEMMA StartsOK ==
  ASSUME TypeOK, TypeOK', SaleInv, NEW r \in Requests, NEW R \in RequestRecord,
         RequestOK(R), Starts(r, R)
  PROVE  SaleInv' /\ Frame /\ NoRevival /\ SoldKeeps
<1>1. Frame /\ NoRevival /\ SoldKeeps
  BY DEF Starts, Frame, NoRevival, SoldKeeps, Live
<1>2. RequestsOK'
  BY <1>1, RequestsKept DEF SaleInv, Starts
<1>3. CallsOK'
  BY <1>1, CallsKept DEF SaleInv, Starts
<1>4. /\ LinksNamed' /\ FreeSeatsUnlinked' /\ UnusedTicketsClean' /\ QrsOK'
      /\ SeatsFollowTickets'
  BY DEF SaleInv, Starts, LinksNamed, FreeSeatsUnlinked, UnusedTicketsClean,
     QrsOK, SeatsFollowTickets, SeatsFollow, LinkedSeats, Live
<1>5. SoldWasPaid'
  BY DEF SaleInv, Starts, SoldWasPaid, PaidByBank
<1> QED
  BY <1>1, <1>2, <1>3, <1>4, <1>5, Parts

\* The tickets that are overdue, and what they are read with.
LEMMA OverdueRead ==
  ASSUME TypeOK, SaleInv
  PROVE  /\ \A t \in Overdue : /\ t \in Tickets /\ ~ticket[t].deleted
                               /\ ticket[t].status \in Unpaid
         /\ \A e \in Read(Overdue) : e.status \in Unpaid
         /\ ReadingOK(Read(Overdue))
         /\ Read(Overdue) \in SUBSET Entity
<1>1. \A t \in Overdue : /\ t \in Tickets /\ ~ticket[t].deleted
                         /\ ticket[t].status \in Unpaid
  BY DEF Overdue
<1>2. \A e \in Read(Overdue) : e.status \in Unpaid
  BY <1>1 DEF Read, EntityOf
<1>3. Overdue \in SUBSET Tickets /\ \A t \in Overdue : ticket[t].status # "unused"
  BY <1>1 DEF Unpaid
<1>4. ReadingOK(Read(Overdue))
  BY <1>1, <1>3, FreshReading DEF SaleInv
<1> QED
  BY <1>1, <1>2, <1>4, ReadType

\* Two readings of different tickets at the same time are one reading.
LEMMA TwoReadings ==
  ASSUME TypeOK, SaleInv, NEW T \in SUBSET Tickets, T \cap Overdue = {},
         \A t \in T : ~ticket[t].deleted /\ ticket[t].status # "unused"
  PROVE  /\ ReadingOK(Read(Overdue) \cup Read(T))
         /\ \A e \in Read(Overdue) : e \notin Read(T)
<1>1. Read(Overdue) \cup Read(T) = Read(Overdue \cup T)
  BY DEF Read
<1>2. Overdue \cup T \in SUBSET Tickets
  BY OverdueRead
<1>3. \A t \in Overdue \cup T : ~ticket[t].deleted /\ ticket[t].status # "unused"
  BY OverdueRead DEF Unpaid
<1>4. ReadingOK(Read(Overdue \cup T))
  BY <1>2, <1>3, FreshReading DEF SaleInv
<1>5. \A e \in Read(Overdue) : e \notin Read(T)
  BY DEF Read, EntityOf
<1> QED
  BY <1>1, <1>4, <1>5

\* What each kind of request has read when it starts is a possible reading.
LEMMA StartingOK ==
  ASSUME TypeOK, TypeOK', SaleInv, NEW r \in Requests,
         StartListing(r) \/ StartsAny(r)
  PROVE  SaleInv' /\ Frame /\ NoRevival /\ SoldKeeps
<1> SUFFICES \E R \in RequestRecord : RequestOK(R) /\ Starts(r, R)
  BY StartsOK
<1> DEFINE E == Read(Overdue)
<1>1. E \in SUBSET Entity /\ ReadingOK(E) /\ \A e \in E : e.status \in Unpaid
  BY OverdueRead
<1>2. Idle \in RequestRecord
  BY RequestType
<1>3. CASE StartListing(r)
  <2> DEFINE R == [Idle EXCEPT !.op = "listing", !.overdue = E]
  <2>1. Starts(r, R)
    BY <1>3 DEF StartListing
  <2>2. R \in RequestRecord /\ RequestOK(R)
    <3> HIDE DEF E
    <3> QED
      BY <1>1, <1>2 DEF Idle, RequestRecord, RequestOK
  <2> QED
    BY <2>1, <2>2
<1>4. ASSUME NEW k \in Kinds, StartSale(r, k)
      PROVE  \E R \in RequestRecord : RequestOK(R) /\ Starts(r, R)
  <2> DEFINE R == [Idle EXCEPT !.op = "sale", !.kind = k, !.overdue = E]
  <2>1. Starts(r, R)
    BY <1>4 DEF StartSale
  <2>2. R \in RequestRecord /\ RequestOK(R)
    <3> HIDE DEF E
    <3> QED
      BY <1>1, <1>2 DEF Idle, RequestRecord, RequestOK
  <2> QED
    BY <2>1, <2>2
<1>5. ASSUME NEW q \in QRs, StartNotice(r, q)
      PROVE  \E R \in RequestRecord : RequestOK(R) /\ Starts(r, R)
  <2> DEFINE T == {t \in Tickets : ticket[t].qr = q /\ ~ticket[t].deleted}
             R == [Idle EXCEPT !.op = "notice", !.qr = q, !.rows = Read(T)]
  <2>1. Starts(r, R)
    BY <1>5 DEF StartNotice
  <2>2. Read(T) \in SUBSET Entity
    BY ReadType
  <2>3. \A t \in T : ~ticket[t].deleted /\ ticket[t].status # "unused"
    BY NullAssumption DEF SaleInv, UnusedTicketsClean
  <2>4. ReadingOK(Read(T))
    BY <2>3, FreshReading DEF SaleInv
  <2>5. paymentQr[q].status # "none" /\ \A e \in Read(T) : paymentQr[q].ticket = e.ticket
    <3>1. \A t \in T : paymentQr[q].ticket = t
      BY DEF SaleInv, QrsOK
    <3>2. paymentQr[q].status # "none"
      BY <1>5 DEF StartNotice, Awaited
    <3> QED
      BY <3>1, <3>2 DEF Read, EntityOf
  <2>6. R \in RequestRecord /\ RequestOK(R)
    <3> HIDE DEF T
    <3> QED
      BY <1>2, <2>2, <2>4, <2>5 DEF Idle, RequestRecord, RequestOK
  <2> QED
    BY <2>1, <2>6
<1>6. CASE StartAssignStaff(r)
  <2> DEFINE R == [Idle EXCEPT !.op = "staff"]
  <2>1. Starts(r, R)
    BY <1>6 DEF StartAssignStaff
  <2>2. R \in RequestRecord /\ RequestOK(R)
    BY <1>2 DEF Idle, RequestRecord, RequestOK, ReadingOK
  <2> QED
    BY <2>1, <2>2
<1>7. CASE StartCancelTravel(r)
  <2> DEFINE T == {t \in Tickets : Live(t)} \ Overdue
             R == [Idle EXCEPT !.op = "cancel", !.overdue = E, !.rows = Read(T)]
  <2>1. Starts(r, R)
    BY <1>7 DEF StartCancelTravel
  <2>2. Read(T) \in SUBSET Entity
    BY ReadType
  <2>3. \A t \in T : ~ticket[t].deleted /\ ticket[t].status \in Active
    BY DEF Live
  <2>4. ReadingOK(E \cup Read(T)) /\ \A e \in E : e \notin Read(T)
    BY <2>3, TwoReadings DEF Active, Unpaid
  <2>5. \A e \in Read(T) : e.status \in Active
    BY <2>3 DEF Read, EntityOf
  <2>6. R \in RequestRecord /\ RequestOK(R)
    <3> HIDE DEF T, E
    <3> QED
      BY <1>1, <1>2, <2>2, <2>4, <2>5 DEF Idle, RequestRecord, RequestOK
  <2> QED
    BY <2>1, <2>6
<1>8. CASE StartClose(r)
  <2> DEFINE T == {t \in Tickets : /\ ~ticket[t].deleted
                                   /\ ticket[t].status # "unused"} \ Overdue
             S == {s \in Seats : /\ seat[s].status = "sold"
                                 /\ seat[s].ticket \notin Overdue}
             R == [Idle EXCEPT !.op = "close", !.overdue = E, !.rows = Read(T),
                               !.sold = S]
  <2>1. Starts(r, R)
    BY <1>8 DEF StartClose
  <2>2. Read(T) \in SUBSET Entity
    BY ReadType
  <2>3. ReadingOK(E \cup Read(T)) /\ \A e \in E : e \notin Read(T)
    BY TwoReadings
  <2>4. \A e \in E : e.seats \cap S = {}
    BY DEF Read, EntityOf, LinkedSeats
  <2>5. ASSUME NEW e \in Read(T), e.ticket \notin astray
        PROVE  IF e.status = "sold" THEN e.seats \subseteq S
                                    ELSE e.seats \cap S = {}
    <3>1. PICK t \in T : e = EntityOf(t)
      BY DEF Read
    <3>2. e.ticket = t /\ e.status = ticket[t].status /\ e.seats = LinkedSeats(t)
      BY <3>1 DEF EntityOf
    <3>3. SeatsFollow(t)
      BY <2>5, <3>2 DEF SaleInv, SeatsFollowTickets
    <3>4. \A s \in LinkedSeats(t) : seat[s].status = ticket[t].status
      BY <3>3 DEF SeatsFollow
    <3> QED
      BY <3>2, <3>4 DEF LinkedSeats
  <2>6. ASSUME NEW e \in Read(T), e.status = "sold",
               ticket[e.ticket].kind \in BankKinds
        PROVE  PaidByBank(e.ticket)
    BY <2>6 DEF Read, EntityOf, SaleInv, SoldWasPaid
  <2>7. R \in RequestRecord /\ RequestOK(R)
    <3>1. S \in SUBSET Seats
      OBVIOUS
    <3> HIDE DEF T, E, S
    <3> QED
      BY <1>1, <1>2, <2>2, <2>3, <2>4, <2>5, <2>6, <3>1
         DEF Idle, RequestRecord, RequestOK, SoldSeatsRead
  <2> QED
    BY <2>1, <2>7
<1> QED
  BY <1>3, <1>4, <1>5, <1>6, <1>7, <1>8 DEF StartsAny

-----------------------------------------------------------------------------
(* Requests that commit.                                                   *)

\* What a request under way has read is a possible reading.
LEMMA UnderWay ==
  ASSUME TypeOK, SaleInv, NEW r \in Requests
  PROVE  /\ RequestOK(request[r])
         /\ request[r].overdue \cup request[r].rows \in SUBSET Entity
         /\ request[r].overdue \in SUBSET Entity
         /\ request[r].rows \in SUBSET Entity
         /\ ReadingOK(request[r].overdue \cup request[r].rows)
         /\ ReadingOK(request[r].overdue)
         /\ ReadingOK(request[r].rows)
         /\ \A e \in request[r].overdue : e.status \in Unpaid
<1>1. RequestOK(request[r])
  BY DEF SaleInv, RequestsOK
<1>2. ReadingOK(request[r].overdue \cup request[r].rows)
      /\ \A e \in request[r].overdue : e.status \in Unpaid
  BY <1>1 DEF RequestOK
<1>3. ReadingOK(request[r].overdue) /\ ReadingOK(request[r].rows)
  BY <1>2, ReadingPart
<1> QED
  BY <1>1, <1>2, <1>3, RememberedType

\* A listing expires what it has found overdue.
LEMMA EndListingOK ==
  ASSUME TypeOK, TypeOK', SaleInv, NEW r \in Requests, EndListing(r)
  PROVE  SaleInv' /\ Frame /\ NoRevival /\ SoldKeeps
<1>1. request[r].rows = {}
  BY UnderWay DEF EndListing, RequestOK
<1>2. PICK E \in SUBSET Entity : /\ E = request[r].overdue
                                 /\ ReadingOK(E)
                                 /\ \A e \in E : e.status \in Unpaid
  BY UnderWay
<1>3. /\ astray' = astray \cup Overwritten(E, seat', ticket')
      /\ request' = [request EXCEPT ![r] = Idle]
      /\ UNCHANGED <<travel, paymentQr, call>>
  BY <1>1, <1>2 DEF EndListing, Commits
<1>4. \A t \in Tickets :
        /\ ticket'[t].seats = ticket[t].seats
        /\ ticket'[t].kind = ticket[t].kind
        /\ ticket'[t].qr = ticket[t].qr
        /\ t \in TicketsIn(E) => ticket'[t].status = "expired"
                                 /\ ticket'[t].deleted
        /\ t \notin TicketsIn(E) => ticket'[t] = ticket[t]
  BY <1>2, ExpiredColumns DEF EndListing
<1>5. \A s \in Seats : /\ s \in SeatsIn(E) => seat'[s] = FreeSeat
                       /\ s \notin SeatsIn(E) => seat'[s] = seat[s]
  BY <1>2, ExpiredColumns DEF EndListing
<1>6. Frame
  BY <1>3, <1>4 DEF Frame
<1>7. RequestsOK' /\ CallsOK' /\ QrsOK'
  BY <1>3, <1>4, <1>6, RequestsEndOK, CallsKept, QrsKept DEF SaleInv
<1>8. LinksNamed' /\ FreeSeatsUnlinked'
  <2>1. \A s \in Seats, t \in Tickets : seat'[s].ticket = t => seat[s].ticket = t
    BY <1>5, NullAssumption DEF FreeSeat
  <2>2. LinksNamed'
    BY <1>6, <2>1, LinksKept DEF SaleInv
  <2>3. FreeSeatsUnlinked'
    BY <1>5 DEF SaleInv, FreeSeatsUnlinked, FreeSeat
  <2> QED
    BY <2>2, <2>3
<1>9. UnusedTicketsClean'
  <2> SUFFICES ASSUME NEW t \in Tickets, ticket'[t].status = "unused"
               PROVE  ticket'[t].qr = Null /\ t \notin astray'
    BY DEF UnusedTicketsClean
  <2>1. ticket'[t] = ticket[t]
    BY <1>4
  <2>2. \A s \in Seats : seat'[s] = seat[s] \/ seat'[s].ticket # t
    BY <1>5, NullAssumption DEF FreeSeat
  <2>3. t \notin astray \cup Overwritten(E, seat', ticket')
    BY <2>1, <2>2, UnusedKept DEF SaleInv
  <2> QED
    BY <1>3, <2>1, <2>3 DEF SaleInv, UnusedTicketsClean
<1>10. SeatsFollowTickets'
  <2> SUFFICES ASSUME NEW t \in Tickets \ astray', ~ticket[t].deleted,
                      EntityOf(t) \in E
               PROVE  SeatsFollow(t)'
    BY <1>3, FollowKept DEF SaleInv
  <2>1. PICK e \in E : e = EntityOf(t)
    OBVIOUS
  <2>2. e.ticket = t /\ e.seats = LinkedSeats(t)
    BY <2>1 DEF EntityOf
  <2>3. t \in TicketsIn(E) /\ LinkedSeats(t) \subseteq SeatsIn(E)
    BY <1>2, <2>2, ReadOnce
  <2>4. ~Live(t)'
    BY <1>4, <2>3 DEF Live
  <2>5. LinkedSeats(t)' = {}
    BY <1>5, <2>3, NullAssumption DEF LinkedSeats, FreeSeat
  <2> QED
    BY <2>4, <2>5 DEF SeatsFollow
<1>11. SoldWasPaid'
  BY <1>4, <1>6, SoldKept DEF SaleInv
<1>12. NoRevival
  BY <1>4 DEF NoRevival, Live
<1>13. SoldKeeps
  <2> SUFFICES ASSUME NEW t \in Tickets \ astray', ticket[t].status = "sold",
                      ticket'[t] # ticket[t]
               PROVE  FALSE
    BY DEF SoldKeeps
  <2>1. EntityOf(t) \in E
    BY <1>3, ChangedWasRead
  <2> QED
    BY <1>2, <2>1 DEF EntityOf, Unpaid
<1> QED
  BY <1>6, <1>7, <1>8, <1>9, <1>10, <1>11, <1>12, <1>13, Parts

\* A sale expires what it has found overdue and sells seats then on offer.
LEMMA EndSaleOK ==
  ASSUME TypeOK, TypeOK', SaleInv, NEW r \in Requests, NEW t \in Tickets,
         NEW S \in SUBSET Seats, EndSale(r, t, S)
  PROVE  /\ SaleInv' /\ Frame /\ NoRevival /\ SoldKeeps
         /\ ticket[t].status = "unused" /\ ticket'[t].seats = S
         /\ Live(t)' /\ t \notin astray'
         /\ \A u \in Tickets \ {t} : ticket[u].status = "unused" =>
              ticket'[u].status = "unused"
<1>1. request[r].rows = {}
  BY UnderWay DEF EndSale, RequestOK
<1>2. PICK E \in SUBSET Entity : /\ E = request[r].overdue
                                 /\ ReadingOK(E)
                                 /\ \A e \in E : e.status \in Unpaid
  BY UnderWay
<1>3. /\ astray' = astray \cup Overwritten(E, ExpiredSeat(E), ExpiredTicket(E))
      /\ request' = [request EXCEPT ![r] = Idle]
      /\ UNCHANGED <<travel, paymentQr, call>>
      /\ ticket[t].status = "unused" /\ S # {} /\ Offered(S, E)
  BY <1>1, <1>2 DEF EndSale, Commits
<1>4. t \notin TicketsIn(E)
  BY <1>2, <1>3, ReadNamed
<1>5. /\ ticket'[t].status = "reserved" /\ ~ticket'[t].deleted
      /\ ticket'[t].seats = S /\ ticket'[t].qr = Null
  <2>1. ticket'[t] = [UnusedTicket EXCEPT !.status = "reserved",
                                          !.kind = request[r].kind,
                                          !.seats = S, !.expiry = "running"]
    BY ExpiredType DEF EndSale
  <2> QED
    BY <2>1 DEF UnusedTicket
<1>6. \A u \in Tickets \ {t} : ticket'[u] = ExpiredTicket(E)[u]
  BY <1>2, ExpiredType DEF EndSale
<1>7. \A s \in Seats : /\ s \in S => seat'[s] = [status |-> "reserved", ticket |-> t]
                       /\ s \notin S => seat'[s] = ExpiredSeat(E)[s]
  BY <1>2 DEF EndSale
<1>8. \A u \in Tickets \ {t} :
        /\ ticket'[u].seats = ticket[u].seats
        /\ ticket'[u].kind = ticket[u].kind
        /\ ticket'[u].qr = ticket[u].qr
        /\ u \in TicketsIn(E) => ticket'[u].status = "expired"
                                 /\ ticket'[u].deleted
        /\ u \notin TicketsIn(E) => ticket'[u] = ticket[u]
  BY <1>6, ExpiredColumns
<1>9. \A s \in Seats : /\ s \in SeatsIn(E) => ExpiredSeat(E)[s] = FreeSeat
                       /\ s \notin SeatsIn(E) => ExpiredSeat(E)[s] = seat[s]
  BY ExpiredColumns
<1>10. \A s \in S : ExpiredSeat(E)[s].ticket = Null
  BY <1>3, <1>9 DEF Offered, FreeSeat, SaleInv, FreeSeatsUnlinked
<1>11. Frame
  BY <1>3, <1>8, <1>2, ReadNamed DEF Frame
<1>12. RequestsOK' /\ CallsOK' /\ QrsOK'
  BY <1>3, <1>5, <1>8, <1>11, RequestsEndOK, CallsKept, QrsKept DEF SaleInv
<1>13. LinksNamed' /\ FreeSeatsUnlinked'
  <2>1. ASSUME NEW s \in Seats, NEW u \in Tickets, seat'[s].ticket = u
        PROVE  s \in ticket'[u].seats /\ ticket'[u].status # "unused"
    <3>1. CASE s \in S
      BY <1>5, <1>7, <2>1, <3>1
    <3>2. CASE s \notin S
      <4>1. seat[s].ticket = u
        BY <1>7, <1>9, <2>1, <3>2, NullAssumption DEF FreeSeat
      <4> QED
        BY <1>11, <4>1 DEF SaleInv, LinksNamed, Frame
    <3> QED
      BY <3>1, <3>2
  <2>2. FreeSeatsUnlinked'
    BY <1>7, <1>9 DEF SaleInv, FreeSeatsUnlinked, FreeSeat
  <2> QED
    BY <2>1, <2>2 DEF LinksNamed
<1>14. ASSUME NEW u \in Tickets, ticket[u].status = "unused"
       PROVE  u \notin astray'
  <2>1. u \notin TicketsIn(E)
    BY <1>2, <1>14, ReadNamed
  <2>2. ExpiredTicket(E)[u] = ticket[u]
    BY <2>1, ExpiredColumns
  <2>3. \A s \in Seats : ExpiredSeat(E)[s] = seat[s] \/ ExpiredSeat(E)[s].ticket # u
    BY <1>9, NullAssumption DEF FreeSeat
  <2> QED
    BY <1>3, <1>14, <2>2, <2>3, UnusedKept DEF SaleInv
<1>15. \A u \in Tickets \ {t} :
         ticket'[u].status = "unused" <=> ticket[u].status = "unused"
  BY <1>8, <1>2, ReadNamed
<1>16. UnusedTicketsClean'
  BY <1>5, <1>8, <1>14, <1>15 DEF SaleInv, UnusedTicketsClean
<1>17. SeatsFollow(t)' /\ Live(t)'
  <2>1. Live(t)'
    BY <1>5 DEF Live, Active, Unpaid
  <2>2. \A s \in Seats \ S : seat'[s].ticket # t
    BY <1>3, <1>7, <1>9, NullAssumption DEF FreeSeat, SaleInv, LinksNamed
  <2>3. LinkedSeats(t)' = S
    BY <1>7, <2>2 DEF LinkedSeats
  <2> QED
    BY <1>5, <1>7, <2>1, <2>3 DEF SeatsFollow
<1>18. ASSUME NEW u \in (Tickets \ {t}) \ astray'
       PROVE  SeatsFollow(u)'
  <2>1. SeatsFollow(u)
    BY <1>3, <1>18 DEF SaleInv, SeatsFollowTickets
  <2>2. CASE Touches(ExpiredSeat(E), ExpiredTicket(E), u)
    <3>1. EntityOf(u) \in E
      BY <1>3, <1>18, <2>2 DEF Overwritten
    <3>2. PICK e \in E : e = EntityOf(u)
      BY <3>1
    <3>3. e.ticket = u /\ e.seats = LinkedSeats(u)
      BY <3>2 DEF EntityOf
    <3>4. u \in TicketsIn(E) /\ LinkedSeats(u) \subseteq SeatsIn(E)
      BY <1>2, <3>3, ReadOnce
    <3>5. ~Live(u)'
      BY <1>8, <3>4 DEF Live
    <3>6. LinkedSeats(u)' = {}
      BY <1>7, <1>9, <3>4, NullAssumption DEF LinkedSeats, FreeSeat
    <3> QED
      BY <3>5, <3>6 DEF SeatsFollow
  <2>3. CASE ~Touches(ExpiredSeat(E), ExpiredTicket(E), u)
    <3>1. ticket'[u] = ticket[u]
      BY <1>6, <2>3 DEF Touches
    <3>2. \A s \in S : seat[s].ticket # u /\ seat'[s].ticket # u
      BY <1>7, <1>10, <2>3, NullAssumption DEF Touches
    <3>3. \A s \in Seats \ S : seat'[s] # seat[s] =>
            seat[s].ticket # u /\ seat'[s].ticket # u
      BY <1>7, <2>3 DEF Touches
    <3>4. ~Touches(seat', ticket', u)
      BY <3>1, <3>2, <3>3 DEF Touches
    <3> QED
      BY <2>1, <3>4, Untouched
  <2> QED
    BY <2>2, <2>3
<1>19. SeatsFollowTickets'
  BY <1>17, <1>18 DEF SeatsFollowTickets
<1>20. SoldWasPaid'
  <2>1. \A u \in Tickets : ticket'[u].status = "sold" => ticket[u].status = "sold"
    BY <1>5, <1>8
  <2> QED
    BY <1>11, <2>1, SoldKept DEF SaleInv
<1>21. NoRevival
  BY <1>3, <1>8 DEF NoRevival, Live
<1>22. SoldKeeps
  <2> SUFFICES ASSUME NEW u \in Tickets \ astray', ticket[u].status = "sold",
                      ticket'[u] # ticket[u]
               PROVE  FALSE
    BY DEF SoldKeeps
  <2>1. ExpiredTicket(E)[u] # ticket[u]
    BY <1>3, <1>6
  <2>2. EntityOf(u) \in E
    BY <1>3, <2>1 DEF Overwritten, Touches
  <2> QED
    BY <1>2, <2>2 DEF EntityOf, Unpaid
<1> QED
  BY <1>3, <1>5, <1>11, <1>12, <1>13, <1>14, <1>15, <1>16, <1>17, <1>19, <1>20,
     <1>21, <1>22, Parts

\* A notification sells the ticket it has read, with the seats it then had.
LEMMA EndNoticeOK ==
  ASSUME TypeOK, TypeOK', SaleInv, NEW r \in Requests, EndNotice(r)
  PROVE  SaleInv' /\ Frame /\ NoRevival /\ SoldKeeps
<1>1. request[r].overdue = {} /\ request[r].qr \in QRs
  BY UnderWay DEF EndNotice, RequestOK
<1>2. PICK E \in SUBSET Entity : E = request[r].rows /\ ReadingOK(E)
  BY UnderWay
<1> DEFINE paid == request[r].qr
<1>3. /\ paymentQr[paid].status # "none"
      /\ \A e \in E : paymentQr[paid].ticket = e.ticket
  BY <1>2, UnderWay DEF EndNotice, RequestOK
<1>4. /\ astray \subseteq astray' /\ Overwritten(E, seat', ticket') \subseteq astray'
      /\ \A e \in E : e.status \notin Active => e.ticket \in astray'
      /\ astray' \subseteq astray \cup Overwritten(E, seat', ticket')
                             \cup TicketsIn(E)
      /\ request' = [request EXCEPT ![r] = Idle]
      /\ UNCHANGED <<travel, call>>
  BY <1>2 DEF EndNotice, TicketsIn
<1>5. \A t \in Tickets :
        /\ ticket'[t].seats = ticket[t].seats
        /\ ticket'[t].kind = ticket[t].kind
        /\ ticket'[t].qr = ticket[t].qr
        /\ ticket'[t].deleted = ticket[t].deleted
        /\ t \in TicketsIn(E) => ticket'[t].status = "sold"
        /\ t \notin TicketsIn(E) => ticket'[t] = ticket[t]
  <2> SUFFICES ASSUME NEW t \in Tickets
               PROVE  /\ ticket'[t].seats = ticket[t].seats
                      /\ ticket'[t].kind = ticket[t].kind
                      /\ ticket'[t].qr = ticket[t].qr
                      /\ ticket'[t].deleted = ticket[t].deleted
                      /\ t \in TicketsIn(E) => ticket'[t].status = "sold"
                      /\ t \notin TicketsIn(E) => ticket'[t] = ticket[t]
    OBVIOUS
  <2>1. ticket[t] \in TicketRow
    BY DEF TypeOK
  <2>2. ticket'[t] = IF t \in TicketsIn(E)
                     THEN [ticket[t] EXCEPT !.status = "sold",
                                            !.expiry = "none"]
                     ELSE ticket[t]
    BY <1>2 DEF EndNotice
  <2> QED
    BY <2>1, <2>2 DEF TicketRow
<1>6. \A s \in Seats :
        /\ s \in SeatsIn(E) => /\ seat'[s].status = "sold"
                               /\ seat'[s].ticket = HolderIn(E, s)
        /\ s \notin SeatsIn(E) => seat'[s] = seat[s]
  <2> SUFFICES ASSUME NEW s \in Seats
               PROVE  /\ s \in SeatsIn(E) => /\ seat'[s].status = "sold"
                                             /\ seat'[s].ticket = HolderIn(E, s)
                      /\ s \notin SeatsIn(E) => seat'[s] = seat[s]
    OBVIOUS
  <2>1. seat'[s] = IF s \in SeatsIn(E)
                   THEN [status |-> "sold", ticket |-> HolderIn(E, s)]
                   ELSE seat[s]
    BY <1>2 DEF EndNotice
  <2> QED
    BY <2>1
<1>7. /\ paymentQr'[paid].status = "paid"
      /\ \A q \in QRs : paymentQr'[q].ticket = paymentQr[q].ticket
      /\ \A q \in QRs \ {paid} : paymentQr'[q] = paymentQr[q]
  BY <1>1 DEF EndNotice, TypeOK, QrRow
<1>8. Frame
  BY <1>2, <1>4, <1>5, <1>7, ReadNamed DEF Frame
<1>9. RequestsOK' /\ CallsOK' /\ QrsOK'
  <2>1. \A q \in QRs : paymentQr[q].status = "none" => paymentQr'[q].status = "none"
    BY <1>3, <1>7
  <2> QED
    BY <1>4, <1>5, <1>8, <2>1, RequestsEndOK, CallsKept, QrsKept DEF SaleInv
<1>10. LinksNamed' /\ FreeSeatsUnlinked'
  <2>1. \A s \in Seats, t \in Tickets : seat'[s].ticket = t =>
           \/ seat[s].ticket = t
           \/ ticket[t].status # "unused" /\ s \in ticket[t].seats
    BY <1>2, <1>6, ReadNamed
  <2>2. LinksNamed'
    BY <1>8, <2>1, LinksKept DEF SaleInv
  <2>3. FreeSeatsUnlinked'
    BY <1>6 DEF SaleInv, FreeSeatsUnlinked
  <2> QED
    BY <2>2, <2>3
<1>11. UnusedTicketsClean'
  <2> SUFFICES ASSUME NEW t \in Tickets, ticket'[t].status = "unused"
               PROVE  ticket'[t].qr = Null /\ t \notin astray'
    BY DEF UnusedTicketsClean
  <2>1. t \notin TicketsIn(E) /\ ticket'[t] = ticket[t]
    BY <1>5
  <2>2. ticket[t].status = "unused"
    BY <2>1
  <2>3. \A s \in Seats : seat'[s] = seat[s] \/ seat'[s].ticket # t
    BY <1>2, <1>6, <2>2, ReadNamed
  <2>4. t \notin astray \cup Overwritten(E, seat', ticket')
    BY <2>1, <2>2, <2>3, UnusedKept DEF SaleInv
  <2> QED
    BY <1>4, <2>1, <2>2, <2>4 DEF SaleInv, UnusedTicketsClean
<1>12. SeatsFollowTickets'
  <2> SUFFICES ASSUME NEW t \in Tickets \ astray', ~ticket[t].deleted,
                      EntityOf(t) \in E, SeatsFollow(t)
               PROVE  SeatsFollow(t)'
    BY <1>4, FollowKept DEF SaleInv
  <2>1. PICK e \in E : e = EntityOf(t)
    OBVIOUS
  <2>2. e.ticket = t /\ e.seats = LinkedSeats(t) /\ e.status = ticket[t].status
    BY <2>1 DEF EntityOf
  <2>3. /\ t \in TicketsIn(E) /\ LinkedSeats(t) \subseteq SeatsIn(E)
        /\ \A s \in SeatsIn(E) : HolderIn(E, s) = t <=> s \in LinkedSeats(t)
    BY <1>2, <2>2, ReadOnce
  <2>4. Live(t) /\ LinkedSeats(t) = ticket[t].seats
    BY <1>4, <2>2 DEF Live, SeatsFollow
  <2>5. LinkedSeats(t)' = LinkedSeats(t)
    BY <1>6, <2>3 DEF LinkedSeats
  <2>6. \A s \in LinkedSeats(t) : seat'[s].status = "sold"
    BY <1>6, <2>3 DEF LinkedSeats
  <2>7. ticket'[t].status = "sold" /\ Live(t)'
    BY <1>5, <2>3 DEF Live, Active
  <2> QED
    BY <1>5, <2>4, <2>5, <2>6, <2>7 DEF SeatsFollow
<1>13. SoldWasPaid'
  <2>1. ASSUME NEW t \in TicketsIn(E)
        PROVE  PaidByBank(t)'
    <3>1. paymentQr'[paid].ticket = t /\ t \in Tickets
      BY <1>1, <1>3, <1>7 DEF TicketsIn, Entity
    <3>2. paymentQr'[paid] = [status |-> "paid", ticket |-> t]
      BY <1>1, <1>7, <3>1 DEF TypeOK, QrRow
    <3> QED
      BY <1>1, <3>2 DEF PaidByBank
  <2>2. \A t \in Tickets : ticket'[t].status = "sold" =>
          ticket[t].status = "sold" \/ PaidByBank(t)'
    BY <1>5, <2>1
  <2> QED
    BY <1>8, <2>2, SoldKept DEF SaleInv
<1>14. NoRevival
  <2> SUFFICES ASSUME NEW t \in Tickets \ astray', Live(t)',
                      ticket'[t] # ticket[t]
               PROVE  Live(t)
    BY DEF NoRevival, Live
  <2>1. ~ticket[t].deleted /\ EntityOf(t) \in E
    BY <1>4, ChangedWasRead
  <2> QED
    BY <1>4, <2>1 DEF EntityOf, Live
<1>15. SoldKeeps
  BY <1>5 DEF SoldKeeps
<1> QED
  BY <1>8, <1>9, <1>10, <1>11, <1>12, <1>13, <1>14, <1>15, Parts

\* A cancellation of the travel ends what it has read, and no other ticket.
LEMMA EndCancelTravelOK ==
  ASSUME TypeOK, TypeOK', SaleInv, NEW r \in Requests, EndCancelTravel(r)
  PROVE  SaleInv' /\ Frame /\ NoRevival /\ SoldKeeps
<1>1. PICK X \in SUBSET Entity, Y \in SUBSET Entity :
        X = request[r].overdue /\ Y = request[r].rows
  BY UnderWay
<1> DEFINE E == X \cup Y
<1>2. E \in SUBSET Entity /\ ReadingOK(E) /\ ReadingOK(X) /\ ReadingOK(Y)
      /\ \A e \in X : e.status \in Unpaid /\ e \notin Y
  BY <1>1, UnderWay DEF RequestOK
<1>3. /\ astray' = astray \cup Overwritten(E, seat', ticket')
      /\ request' = [request EXCEPT ![r] = Idle]
      /\ UNCHANGED <<paymentQr, call>>
  BY <1>1 DEF EndCancelTravel, Commits
<1>4. \A t \in TicketsIn(E) : t \in TicketsIn(X) \/ t \in TicketsIn(Y)
  BY DEF TicketsIn
<1>5. \A t \in Tickets :
        /\ ticket'[t].seats = ticket[t].seats
        /\ ticket'[t].kind = ticket[t].kind
        /\ ticket'[t].qr = ticket[t].qr
        /\ t \in TicketsIn(Y) => ticket'[t].status = "cancelled"
        /\ t \in TicketsIn(X) /\ t \notin TicketsIn(Y) =>
             ticket'[t].status = "expired"
        /\ t \notin TicketsIn(E) => ticket'[t] = ticket[t]
  <2> SUFFICES ASSUME NEW t \in Tickets
               PROVE  /\ ticket'[t].seats = ticket[t].seats
                      /\ ticket'[t].kind = ticket[t].kind
                      /\ ticket'[t].qr = ticket[t].qr
                      /\ t \in TicketsIn(Y) => ticket'[t].status = "cancelled"
                      /\ t \in TicketsIn(X) /\ t \notin TicketsIn(Y) =>
                           ticket'[t].status = "expired"
                      /\ t \notin TicketsIn(E) => ticket'[t] = ticket[t]
    OBVIOUS
  <2>1. ticket[t] \in TicketRow
    BY DEF TypeOK
  <2>2. PICK b : ticket'[t] = IF t \in TicketsIn(Y) THEN Cancelled(ticket[t], b)
                              ELSE ExpiredTicket(X)[t]
    BY <1>1 DEF EndCancelTravel
  <2>3. \A c : /\ Cancelled(ticket[t], c).seats = ticket[t].seats
               /\ Cancelled(ticket[t], c).kind = ticket[t].kind
               /\ Cancelled(ticket[t], c).qr = ticket[t].qr
               /\ Cancelled(ticket[t], c).status = "cancelled"
    BY <2>1 DEF Cancelled, TicketRow
  <2>4. t \notin TicketsIn(E) => t \notin TicketsIn(X) /\ t \notin TicketsIn(Y)
    BY DEF TicketsIn
  <2> HIDE DEF E
  <2>5. CASE t \in TicketsIn(Y)
    BY <2>2, <2>3, <2>4, <2>5
  <2>6. CASE t \notin TicketsIn(Y)
    BY <2>2, <2>4, <2>6, ExpiredColumns
  <2> QED
    BY <2>5, <2>6
<1>6. \A s \in Seats : /\ s \in SeatsIn(E) => seat'[s] = FreeSeat
                       /\ s \notin SeatsIn(E) => seat'[s] = seat[s]
  BY <1>1 DEF EndCancelTravel, GivenUp
<1> HIDE DEF E
<1>7. Frame
  BY <1>2, <1>3, <1>4, <1>5, ReadNamed DEF Frame
<1>8. RequestsOK' /\ CallsOK' /\ QrsOK'
  BY <1>3, <1>5, <1>7, RequestsEndOK, CallsKept, QrsKept DEF SaleInv
<1>9. LinksNamed' /\ FreeSeatsUnlinked'
  <2>1. \A s \in Seats, t \in Tickets : seat'[s].ticket = t => seat[s].ticket = t
    BY <1>6, NullAssumption DEF FreeSeat
  <2>2. LinksNamed'
    BY <1>7, <2>1, LinksKept DEF SaleInv
  <2>3. FreeSeatsUnlinked'
    BY <1>6 DEF SaleInv, FreeSeatsUnlinked, FreeSeat
  <2> QED
    BY <2>2, <2>3
<1>10. UnusedTicketsClean'
  <2> SUFFICES ASSUME NEW t \in Tickets, ticket'[t].status = "unused"
               PROVE  ticket'[t].qr = Null /\ t \notin astray'
    BY DEF UnusedTicketsClean
  <2>1. ticket'[t] = ticket[t]
    BY <1>4, <1>5
  <2>2. \A s \in Seats : seat'[s] = seat[s] \/ seat'[s].ticket # t
    BY <1>6, NullAssumption DEF FreeSeat
  <2>3. t \notin astray \cup Overwritten(E, seat', ticket')
    BY <2>1, <2>2, UnusedKept DEF SaleInv
  <2> QED
    BY <1>3, <2>1, <2>3 DEF SaleInv, UnusedTicketsClean
<1>11. SeatsFollowTickets'
  <2> SUFFICES ASSUME NEW t \in Tickets \ astray', ~ticket[t].deleted,
                      EntityOf(t) \in E
               PROVE  SeatsFollow(t)'
    BY <1>3, FollowKept DEF SaleInv
  <2>1. PICK e \in E : e = EntityOf(t)
    OBVIOUS
  <2>2. e.ticket = t /\ e.seats = LinkedSeats(t)
    BY <2>1 DEF EntityOf
  <2>3. t \in TicketsIn(E) /\ LinkedSeats(t) \subseteq SeatsIn(E)
    BY <1>2, <2>2, ReadOnce
  <2>4. ~Live(t)'
    BY <1>4, <1>5, <2>3 DEF Live, Active, Unpaid
  <2>5. LinkedSeats(t)' = {}
    BY <1>6, <2>3, NullAssumption DEF LinkedSeats, FreeSeat
  <2> QED
    BY <2>4, <2>5 DEF SeatsFollow
<1>12. SoldWasPaid'
  <2>1. \A t \in Tickets : ticket'[t].status = "sold" => ticket[t].status = "sold"
    BY <1>4, <1>5
  <2> QED
    BY <1>7, <2>1, SoldKept DEF SaleInv
<1>13. NoRevival
  BY <1>4, <1>5 DEF NoRevival, Live, Active, Unpaid
<1>14. SoldKeeps
  <2> SUFFICES ASSUME NEW t \in Tickets \ astray', ticket[t].status = "sold",
                      ticket'[t] # ticket[t]
               PROVE  ticket'[t].status = "cancelled"
    BY DEF SoldKeeps
  <2>1. PICK e \in E : e = EntityOf(t)
    BY <1>3, ChangedWasRead
  <2>2. e.ticket = t /\ e.status = "sold"
    BY <2>1 DEF EntityOf
  <2>3. e \in Y
    BY <1>2, <2>2 DEF E, Unpaid
  <2>4. t \in TicketsIn(Y)
    BY <2>2, <2>3 DEF TicketsIn
  <2> QED
    BY <1>5, <2>4
<1> QED
  BY <1>7, <1>8, <1>9, <1>10, <1>11, <1>12, <1>13, <1>14, Parts

\* A close ends the unpaid tickets it has read and takes the seats nobody
\* had paid off the market.
LEMMA EndCloseOK ==
  ASSUME TypeOK, TypeOK', SaleInv, NEW r \in Requests, EndClose(r)
  PROVE  SaleInv' /\ Frame /\ NoRevival /\ SoldKeeps
<1>1. PICK X \in SUBSET Entity, Y \in SUBSET Entity, P \in SUBSET Seats :
        X = request[r].overdue /\ Y = request[r].rows /\ P = request[r].sold
  BY UnderWay DEF TypeOK, RequestRecord
<1> DEFINE E == X \cup Y
<1>2. E \in SUBSET Entity /\ ReadingOK(E) /\ ReadingOK(X) /\ ReadingOK(Y)
      /\ \A e \in X : e.status \in Unpaid /\ e \notin Y
  BY <1>1, UnderWay DEF RequestOK
<1>3. /\ astray' = astray \cup Overwritten(E, seat', ticket')
      /\ request' = [request EXCEPT ![r] = Idle]
      /\ UNCHANGED <<paymentQr, call>>
  BY <1>1 DEF EndClose, Commits
<1>4. /\ \A e \in X : e.seats \cap P = {}
      /\ \A e \in Y : e.ticket \notin astray =>
           IF e.status = "sold" THEN e.seats \subseteq P
                                ELSE e.seats \cap P = {}
      /\ \A e \in Y : e.status = "sold" /\ ticket[e.ticket].kind \in BankKinds =>
           PaidByBank(e.ticket)
  BY <1>1, UnderWay DEF EndClose, RequestOK, SoldSeatsRead
<1>5. \A t \in TicketsIn(E) : t \in TicketsIn(X) \/ t \in TicketsIn(Y)
  BY DEF TicketsIn
<1>6. \A t \in Tickets :
        /\ ticket'[t].seats = ticket[t].seats
        /\ ticket'[t].kind = ticket[t].kind
        /\ ticket'[t].qr = ticket[t].qr
        /\ t \in TicketsIn(Y) =>
             LET e == Remembered(Y, t)
             IN  /\ ticket'[t].deleted = ticket[t].deleted
                 /\ IF e.status \in Unpaid
                    THEN ticket'[t].status \in {"expired", "cancelled_for_close"}
                    ELSE ticket'[t].status = e.status
        /\ t \in TicketsIn(X) /\ t \notin TicketsIn(Y) =>
             ticket'[t].status = "expired"
        /\ t \notin TicketsIn(E) => ticket'[t] = ticket[t]
  <2> SUFFICES ASSUME NEW t \in Tickets
               PROVE  /\ ticket'[t].seats = ticket[t].seats
                      /\ ticket'[t].kind = ticket[t].kind
                      /\ ticket'[t].qr = ticket[t].qr
                      /\ t \in TicketsIn(Y) =>
                           LET e == Remembered(Y, t)
                           IN  /\ ticket'[t].deleted = ticket[t].deleted
                               /\ IF e.status \in Unpaid
                                  THEN ticket'[t].status \in
                                         {"expired", "cancelled_for_close"}
                                  ELSE ticket'[t].status = e.status
                      /\ t \in TicketsIn(X) /\ t \notin TicketsIn(Y) =>
                           ticket'[t].status = "expired"
                      /\ t \notin TicketsIn(E) => ticket'[t] = ticket[t]
    OBVIOUS
  <2>1. ticket[t] \in TicketRow
    BY DEF TypeOK
  <2>2. PICK lapsed :
          ticket'[t] = IF t \in TicketsIn(Y)
                       THEN [ticket[t] EXCEPT
                               !.status = ClosedStatus(Remembered(Y, t), lapsed),
                               !.expiry = "none"]
                       ELSE ExpiredTicket(X)[t]
    BY <1>1 DEF EndClose
  <2>3. t \notin TicketsIn(E) => t \notin TicketsIn(X) /\ t \notin TicketsIn(Y)
    BY DEF TicketsIn
  <2> HIDE DEF E
  <2>4. CASE t \in TicketsIn(Y)
    <3>1. PICK st : /\ st = ClosedStatus(Remembered(Y, t), lapsed)
                    /\ ticket'[t] = [ticket[t] EXCEPT !.status = st,
                                                      !.expiry = "none"]
      BY <2>2, <2>4
    <3>2. /\ ticket'[t].seats = ticket[t].seats /\ ticket'[t].kind = ticket[t].kind
          /\ ticket'[t].qr = ticket[t].qr
          /\ ticket'[t].deleted = ticket[t].deleted /\ ticket'[t].status = st
      BY <2>1, <3>1 DEF TicketRow
    <3>3. IF Remembered(Y, t).status \in Unpaid
          THEN st \in {"expired", "cancelled_for_close"}
          ELSE st = Remembered(Y, t).status
      BY <3>1 DEF ClosedStatus
    <3> QED
      BY <2>3, <2>4, <3>2, <3>3
  <2>5. CASE t \notin TicketsIn(Y)
    BY <2>2, <2>3, <2>5, ExpiredColumns
  <2> QED
    BY <2>4, <2>5
<1>7. \A s \in Seats :
        /\ s \notin P => seat'[s] = UnsoldSeat
        /\ s \in P => seat'[s].status = "sold"
        /\ s \in P /\ s \in SeatsIn(Y) => seat'[s].ticket = HolderIn(Y, s)
        /\ s \in P /\ s \notin SeatsIn(Y) => seat'[s].ticket = seat[s].ticket
  <2> SUFFICES ASSUME NEW s \in Seats
               PROVE  /\ s \notin P => seat'[s] = UnsoldSeat
                      /\ s \in P => seat'[s].status = "sold"
                      /\ s \in P /\ s \in SeatsIn(Y) =>
                           seat'[s].ticket = HolderIn(Y, s)
                      /\ s \in P /\ s \notin SeatsIn(Y) =>
                           seat'[s].ticket = seat[s].ticket
    OBVIOUS
  <2>1. seat[s] \in SeatRow
    BY DEF TypeOK
  <2>2. seat'[s] = IF s \notin P THEN UnsoldSeat
                   ELSE IF s \in SeatsIn(Y)
                   THEN [status |-> "sold", ticket |-> HolderIn(Y, s)]
                   ELSE [seat[s] EXCEPT !.status = "sold"]
    BY <1>1 DEF EndClose
  <2> QED
    BY <2>1, <2>2 DEF SeatRow
<1> HIDE DEF E
<1>8. \A t \in TicketsIn(Y) : Remembered(Y, t) \in Y /\ Remembered(Y, t).ticket = t
  BY Holders
<1>9. \A e \in Entity : e.status \in TicketStatus
  BY DEF Entity
<1>10. \A t \in TicketsIn(Y) : ticket'[t].status # "unused"
  <2> SUFFICES ASSUME NEW t \in TicketsIn(Y)
               PROVE  ticket'[t].status # "unused"
    OBVIOUS
  <2>1. t \in Tickets
    BY Holders
  <2>2. Remembered(Y, t).status # "unused"
    BY <1>2, <1>8 DEF ReadingOK, EntityOK
  <2> QED
    BY <1>6, <2>1, <2>2
<1>11. \A s \in Seats, t \in Tickets : seat'[s].ticket = t =>
         /\ s \in P
         /\ \/ seat[s].ticket = t
            \/ s \in SeatsIn(Y) /\ HolderIn(Y, s) = t
  BY <1>7, NullAssumption DEF UnsoldSeat
<1>12. Frame
  BY <1>2, <1>3, <1>5, <1>6, <1>10, ReadNamed DEF Frame
<1>13. RequestsOK' /\ CallsOK' /\ QrsOK'
  BY <1>3, <1>6, <1>12, RequestsEndOK, CallsKept, QrsKept DEF SaleInv
<1>14. LinksNamed' /\ FreeSeatsUnlinked'
  <2>1. LinksNamed'
    BY <1>2, <1>11, <1>12, LinksKept, ReadNamed DEF SaleInv
  <2>2. FreeSeatsUnlinked'
    BY <1>7 DEF FreeSeatsUnlinked, UnsoldSeat
  <2> QED
    BY <2>1, <2>2
<1>15. UnusedTicketsClean'
  <2> SUFFICES ASSUME NEW t \in Tickets, ticket'[t].status = "unused"
               PROVE  ticket'[t].qr = Null /\ t \notin astray'
    BY DEF UnusedTicketsClean
  <2>1. ticket'[t] = ticket[t]
    BY <1>5, <1>6, <1>10
  <2>2. \A s \in Seats : seat'[s].ticket # t
    BY <1>2, <1>11, <2>1, ReadNamed DEF SaleInv, LinksNamed
  <2>3. t \notin astray \cup Overwritten(E, seat', ticket')
    BY <2>1, <2>2, UnusedKept DEF SaleInv
  <2> QED
    BY <1>3, <2>1, <2>3 DEF SaleInv, UnusedTicketsClean
<1>16. SeatsFollowTickets'
  <2> SUFFICES ASSUME NEW t \in Tickets \ astray', ~ticket[t].deleted,
                      EntityOf(t) \in E, SeatsFollow(t)
               PROVE  SeatsFollow(t)'
    BY <1>3, FollowKept DEF SaleInv
  <2>1. PICK e \in E : e = EntityOf(t)
    OBVIOUS
  <2>2. e.ticket = t /\ e.seats = LinkedSeats(t) /\ e.status = ticket[t].status
    BY <2>1 DEF EntityOf
  <2>3. t \notin astray
    BY <1>3
  <2>4. ASSUME \A s \in SeatsIn(Y) : HolderIn(Y, s) = t => s \in e.seats
        PROVE  LinkedSeats(t)' \subseteq e.seats \cap P
    BY <1>11, <2>2, <2>4 DEF LinkedSeats
  <2>5. CASE e \in X
    <3>1. \A f \in Y : f.ticket # t
      BY <1>2, <2>2, <2>5 DEF ReadingOK, E
    <3>2. t \in TicketsIn(X) /\ t \notin TicketsIn(Y)
      BY <2>2, <2>5, <3>1 DEF TicketsIn
    <3>3. \A s \in SeatsIn(Y) : HolderIn(Y, s) # t
      BY <3>1, Holders
    <3>4. LinkedSeats(t)' = {}
      BY <1>4, <2>4, <2>5, <3>3
    <3>5. ~Live(t)'
      BY <1>6, <3>2 DEF Live, Active, Unpaid
    <3> QED
      BY <3>4, <3>5 DEF SeatsFollow
  <2>6. CASE e \in Y
    <3>1. /\ t \in TicketsIn(Y) /\ e.seats \subseteq SeatsIn(Y)
          /\ Remembered(Y, t) = e
          /\ \A s \in SeatsIn(Y) : HolderIn(Y, s) = t <=> s \in e.seats
      BY <1>2, <2>2, <2>6, ReadOnce
    <3>2. LinkedSeats(t)' \subseteq e.seats \cap P
      BY <2>4, <3>1
    <3>3. CASE e.status = "sold"
      <4>1. e.seats \subseteq P
        BY <1>4, <2>2, <2>3, <2>6, <3>3
      <4>2. \A s \in e.seats : seat'[s].ticket = t /\ seat'[s].status = "sold"
        BY <1>7, <3>1, <4>1
      <4>3. LinkedSeats(t)' = e.seats
        BY <2>2, <3>2, <4>2 DEF LinkedSeats
      <4>4. ticket'[t].status = "sold" /\ ~ticket'[t].deleted
        BY <1>6, <3>1, <3>3 DEF Unpaid
      <4>5. ticket[t].seats = e.seats
        BY <2>2, <3>3 DEF SeatsFollow, Live, Active
      <4> QED
        BY <1>6, <4>2, <4>3, <4>4, <4>5 DEF SeatsFollow, Live, Active
    <3>4. CASE e.status # "sold"
      <4>1. LinkedSeats(t)' = {}
        BY <1>4, <2>2, <2>3, <2>6, <3>2, <3>4
      <4>2. ~Live(t)'
        BY <1>6, <3>1, <3>4 DEF Live, Active, Unpaid
      <4> QED
        BY <4>1, <4>2 DEF SeatsFollow
    <3> QED
      BY <3>3, <3>4
  <2> QED
    BY <2>5, <2>6 DEF E
<1>17. SoldWasPaid'
  <2>1. ASSUME NEW t \in Tickets, ticket'[t].status = "sold"
        PROVE  \/ ticket[t].status = "sold" \/ ticket'[t].kind \notin BankKinds
               \/ PaidByBank(t)
    <3>1. CASE t \in TicketsIn(Y)
      <4>1. Remembered(Y, t).status = "sold"
        BY <1>6, <2>1, <3>1
      <4> QED
        BY <1>4, <1>6, <1>8, <3>1, <4>1
    <3>2. CASE t \notin TicketsIn(Y)
      BY <1>5, <1>6, <2>1, <3>2
    <3> QED
      BY <3>1, <3>2
  <2> QED
    BY <1>12, <2>1, SoldKept DEF SaleInv
<1>18. ASSUME NEW t \in Tickets \ astray', ticket'[t] # ticket[t]
       PROVE  /\ ~ticket[t].deleted
              /\ \/ /\ t \in TicketsIn(X) /\ t \notin TicketsIn(Y)
                    /\ ticket[t].status \in Unpaid
                 \/ /\ t \in TicketsIn(Y)
                    /\ Remembered(Y, t).status = ticket[t].status
  <2>1. ~ticket[t].deleted /\ EntityOf(t) \in E
    BY <1>3, <1>18, ChangedWasRead
  <2>2. PICK e \in E : e = EntityOf(t)
    BY <2>1
  <2>3. e.ticket = t /\ e.status = ticket[t].status
    BY <2>2 DEF EntityOf
  <2>4. CASE e \in X
    <3>1. \A f \in Y : f.ticket # t
      BY <1>2, <2>3, <2>4 DEF ReadingOK, E
    <3> QED
      BY <1>2, <2>1, <2>3, <2>4, <3>1 DEF TicketsIn
  <2>5. CASE e \in Y
    BY <1>2, <2>1, <2>3, <2>5, ReadOnce
  <2> QED
    BY <2>4, <2>5 DEF E
<1>19. NoRevival
  <2> SUFFICES ASSUME NEW t \in Tickets \ astray', Live(t)',
                      ticket'[t] # ticket[t]
               PROVE  Live(t)
    BY DEF NoRevival, Live
  <2> QED
    BY <1>6, <1>18 DEF Live, Active, Unpaid
<1>20. SoldKeeps
  <2> SUFFICES ASSUME NEW t \in Tickets \ astray', ticket[t].status = "sold",
                      ticket'[t] # ticket[t]
               PROVE  ticket'[t].status = "sold"
    BY DEF SoldKeeps
  <2> QED
    BY <1>6, <1>18 DEF Unpaid
<1> QED
  BY <1>12, <1>13, <1>14, <1>15, <1>16, <1>17, <1>19, <1>20, Parts

-----------------------------------------------------------------------------
(* generateQr.                                                             *)

\* A QR that the bank has made marks the ticket it was asked for as pending.
LEMMA SaveQrOK ==
  ASSUME TypeOK, TypeOK', SaleInv, NEW q \in QRs, SaveQr(q)
  PROVE  SaleInv' /\ Frame /\ NoRevival /\ SoldKeeps
<1>1. PICK e \in Entity : e = call[q] /\ e # Null
  BY DEF SaveQr, TypeOK
<1>2. EntityOK(e) /\ e.status = "reserved" /\ paymentQr[q].status = "none"
  BY <1>1 DEF SaleInv, CallsOK
<1>3. PICK u \in Tickets : u = e.ticket
  BY <1>1 DEF Entity
<1>4. /\ astray' = astray \cup Overwritten({e}, seat', ticket')
      /\ UNCHANGED <<travel, request>>
  BY <1>1 DEF SaveQr
<1>5. \A t \in Tickets :
        /\ ticket'[t].seats = ticket[t].seats
        /\ ticket'[t].kind = ticket[t].kind
        /\ ticket'[t].deleted = ticket[t].deleted
        /\ t = u => ticket'[t].status = "pending_payment" /\ ticket'[t].qr = q
        /\ t # u => ticket'[t] = ticket[t]
  BY <1>1, <1>3 DEF SaveQr, TypeOK, TicketRow
<1>6. \A s \in Seats :
        /\ seat'[s].ticket = seat[s].ticket
        /\ s \in e.seats => seat'[s].status = "pending_payment"
        /\ s \notin e.seats => seat'[s] = seat[s]
  BY <1>1 DEF SaveQr, TypeOK, SeatRow
<1>7. /\ paymentQr'[q].status = "pending" /\ paymentQr'[q].ticket = u
      /\ \A p \in QRs \ {q} : paymentQr'[p] = paymentQr[p]
      /\ call'[q] = Null
      /\ \A p \in QRs \ {q} : call'[p] = call[p]
  BY <1>1, <1>3 DEF SaveQr, TypeOK
<1>8. Frame
  BY <1>2, <1>4, <1>5, <1>7 DEF Frame
<1>9. RequestsOK' /\ CallsOK'
  BY <1>4, <1>7, <1>8, RequestsEndOK, CallsKept DEF SaleInv
<1>10. QrsOK'
  <2> SUFFICES ASSUME NEW t \in Tickets, NEW p \in QRs, ticket'[t].qr = p
               PROVE  paymentQr'[p].status # "none" /\ paymentQr'[p].ticket = t
    BY DEF QrsOK
  <2>1. CASE t = u
    BY <1>5, <1>7, <2>1
  <2>2. CASE t # u
    BY <1>2, <1>5, <1>7, <2>2 DEF SaleInv, QrsOK
  <2> QED
    BY <2>1, <2>2
<1>11. LinksNamed' /\ FreeSeatsUnlinked'
  <2>1. LinksNamed'
    BY <1>6, <1>8, LinksKept DEF SaleInv
  <2>2. FreeSeatsUnlinked'
    BY <1>6 DEF SaleInv, FreeSeatsUnlinked
  <2> QED
    BY <2>1, <2>2
<1>12. UnusedTicketsClean'
  <2> SUFFICES ASSUME NEW t \in Tickets, ticket'[t].status = "unused"
               PROVE  ticket'[t].qr = Null /\ t \notin astray'
    BY DEF UnusedTicketsClean
  <2>1. ticket'[t] = ticket[t]
    BY <1>5
  <2>2. \A s \in Seats : seat'[s].ticket # t
    BY <1>6, <2>1 DEF SaleInv, LinksNamed
  <2>3. t \notin astray \cup Overwritten({e}, seat', ticket')
    BY <2>1, <2>2, UnusedKept DEF SaleInv
  <2> QED
    BY <1>4, <2>1, <2>3 DEF SaleInv, UnusedTicketsClean
<1>13. SeatsFollowTickets'
  <2> SUFFICES ASSUME NEW t \in Tickets \ astray', ~ticket[t].deleted,
                      EntityOf(t) \in {e}, SeatsFollow(t)
               PROVE  SeatsFollow(t)'
    BY <1>4, FollowKept DEF SaleInv
  <2>1. t = u /\ e.seats = LinkedSeats(t) /\ e.status = ticket[t].status
    BY <1>3 DEF EntityOf
  <2>2. LinkedSeats(t) = ticket[t].seats
    BY <1>2, <2>1 DEF SeatsFollow, Live, Active, Unpaid
  <2>3. LinkedSeats(t)' = LinkedSeats(t)
    BY <1>6 DEF LinkedSeats
  <2>4. \A s \in LinkedSeats(t) : seat'[s].status = "pending_payment"
    BY <1>6, <2>1 DEF LinkedSeats
  <2>5. ticket'[t].status = "pending_payment" /\ Live(t)'
    BY <1>5, <2>1 DEF Live, Active, Unpaid
  <2> QED
    BY <1>5, <2>2, <2>3, <2>4, <2>5 DEF SeatsFollow
<1>14. SoldWasPaid'
  <2>1. \A t \in Tickets : ticket'[t].status = "sold" => ticket[t].status = "sold"
    BY <1>5
  <2> QED
    BY <1>8, <2>1, SoldKept DEF SaleInv
<1>15. \A t \in Tickets \ astray' : ticket'[t] # ticket[t] =>
         ~ticket[t].deleted /\ ticket[t].status = "reserved"
  <2> SUFFICES ASSUME NEW t \in Tickets \ astray', ticket'[t] # ticket[t]
               PROVE  ~ticket[t].deleted /\ ticket[t].status = "reserved"
    OBVIOUS
  <2>1. ~ticket[t].deleted /\ EntityOf(t) \in {e}
    BY <1>4, ChangedWasRead
  <2> QED
    BY <1>2, <2>1 DEF EntityOf
<1>16. NoRevival /\ SoldKeeps
  BY <1>15 DEF NoRevival, SoldKeeps, Live, Active, Unpaid
<1> QED
  BY <1>8, <1>9, <1>10, <1>11, <1>12, <1>13, <1>14, <1>16, Parts

\* A call that starts reads the ticket as it is.
LEMMA AskBankOK ==
  ASSUME TypeOK, TypeOK', SaleInv, NEW q \in QRs, NEW t \in Tickets,
         AskBank(q, t)
  PROVE  SaleInv' /\ Frame /\ NoRevival /\ SoldKeeps
<1>1. UNCHANGED <<travel, seat, ticket, paymentQr, request, astray>>
  BY DEF AskBank
<1>2. Frame /\ NoRevival /\ SoldKeeps
  BY <1>1 DEF Frame, NoRevival, SoldKeeps, Live
<1>3. RequestsOK'
  BY <1>1, <1>2, RequestsEndOK DEF SaleInv
<1>4. CallsOK'
  <2> SUFFICES ASSUME NEW p \in QRs, call'[p] # Null
               PROVE  /\ EntityOK(call[p])'
                      /\ call'[p].status = "reserved"
                      /\ paymentQr'[p].status = "none"
    BY DEF CallsOK
  <2>1. PICK e \in Entity : e = call'[p]
    BY DEF TypeOK
  <2>2. EntityOK(e) /\ e.status = "reserved" /\ paymentQr[p].status = "none"
    <3>1. CASE p = q
      <4>1. e = EntityOf(t) /\ paymentQr[p].status = "none"
        BY <2>1, <3>1 DEF AskBank, TypeOK
      <4>2. ticket[t].status = "reserved" /\ ~ticket[t].deleted
        BY DEF AskBank, Payable
      <4> QED
        BY <4>1, <4>2, FreshEntity DEF SaleInv, EntityOf
    <3>2. CASE p # q
      BY <2>1, <3>2 DEF AskBank, TypeOK, SaleInv, CallsOK
    <3> QED
      BY <3>1, <3>2
  <2>3. EntityOK(e)'
    BY <1>2, <2>2, EntityKept
  <2> QED
    BY <1>1, <2>1, <2>2, <2>3
<1>5. /\ LinksNamed' /\ FreeSeatsUnlinked' /\ UnusedTicketsClean' /\ QrsOK'
      /\ SeatsFollowTickets' /\ SoldWasPaid'
  BY <1>1 DEF SaleInv, LinksNamed, FreeSeatsUnlinked, UnusedTicketsClean,
     QrsOK, SeatsFollowTickets, SeatsFollow, LinkedSeats, Live, SoldWasPaid,
     PaidByBank
<1> QED
  BY <1>2, <1>3, <1>4, <1>5, Parts

-----------------------------------------------------------------------------
(* Handlers that lock what they read.                                      *)

\* One ticket u is sold, or gives its seats up; every other row stays.
LEMMA OneTicketOK ==
  ASSUME TypeOK, TypeOK', SaleInv, NEW u \in Tickets, Live(u),
         UNCHANGED <<call, request, astray>>,
         \A t \in Tickets :
           /\ ticket'[t].seats = ticket[t].seats
           /\ ticket'[t].kind = ticket[t].kind
           /\ ticket'[t].qr = ticket[t].qr
           /\ t # u => ticket'[t] = ticket[t],
         \A q \in QRs : /\ paymentQr'[q].ticket = paymentQr[q].ticket
                        /\ paymentQr[q].status # "pending" =>
                             paymentQr'[q].status = paymentQr[q].status
                        /\ paymentQr[q].status = "pending" =>
                             paymentQr'[q].status # "none",
         \A s \in Seats : seat[s].ticket # u => seat'[s] = seat[s],
         \/ /\ ticket'[u].status = "sold" /\ ~ticket'[u].deleted
            /\ ticket[u].kind \notin BankKinds
            /\ \A s \in Seats : seat[s].ticket = u =>
                 seat'[s].status = "sold" /\ seat'[s].ticket = u
         \/ /\ ticket'[u].status = "cancelled"
            /\ \A s \in Seats : seat[s].ticket = u => seat'[s] = FreeSeat
  PROVE  SaleInv' /\ Frame /\ NoRevival /\ SoldKeeps
<1>1. Frame
  BY DEF Frame
<1>2. RequestsOK' /\ CallsOK' /\ QrsOK'
  BY <1>1, RequestsEndOK, CallsKept, QrsKept DEF SaleInv
<1>3. \A s \in Seats, t \in Tickets : seat'[s].ticket = t => seat[s].ticket = t
  BY NullAssumption DEF FreeSeat
<1>4. LinksNamed'
  BY <1>1, <1>3, LinksKept DEF SaleInv
<1>5. FreeSeatsUnlinked'
  BY DEF SaleInv, FreeSeatsUnlinked, FreeSeat
<1>6. UnusedTicketsClean'
  BY DEF SaleInv, UnusedTicketsClean, Live, Active, Unpaid
<1>7. ASSUME NEW t \in Tickets, t \notin astray
      PROVE  SeatsFollow(t)'
  <2>1. SeatsFollow(t)
    BY <1>7 DEF SaleInv, SeatsFollowTickets
  <2>2. CASE t # u
    <3>1. ~Touches(seat', ticket', t)
      BY <1>3, <2>2 DEF Touches
    <3> QED
      BY <2>1, <3>1, Untouched
  <2>3. CASE t = u /\ ticket'[u].status = "sold"
    <3>1. \A s \in Seats : seat[s].ticket = u =>
            seat'[s].status = "sold" /\ seat'[s].ticket = u
      BY <2>3
    <3>2. LinkedSeats(t)' = LinkedSeats(t)
      BY <1>3, <2>3, <3>1 DEF LinkedSeats
    <3>3. LinkedSeats(t) = ticket[t].seats
      BY <2>1, <2>3 DEF SeatsFollow
    <3>4. \A s \in LinkedSeats(t) : seat'[s].status = "sold"
      BY <2>3, <3>1 DEF LinkedSeats
    <3>5. Live(t)'
      BY <2>3 DEF Live, Active
    <3> QED
      BY <2>3, <3>2, <3>3, <3>4, <3>5 DEF SeatsFollow
  <2>4. CASE t = u /\ ticket'[u].status = "cancelled"
    <3>1. \A s \in Seats : seat[s].ticket = u => seat'[s] = FreeSeat
      BY <2>4
    <3>2. LinkedSeats(t)' = {}
      BY <1>3, <2>4, <3>1, NullAssumption DEF LinkedSeats, FreeSeat
    <3>3. ~Live(t)'
      BY <2>4 DEF Live, Active, Unpaid
    <3> QED
      BY <3>2, <3>3 DEF SeatsFollow
  <2> QED
    BY <2>2, <2>3, <2>4
<1>8. SeatsFollowTickets'
  BY <1>7 DEF SeatsFollowTickets
<1>9. SoldWasPaid'
  BY <1>1, SoldKept DEF SaleInv
<1>10. NoRevival /\ SoldKeeps
  BY DEF NoRevival, SoldKeeps, Live
<1> QED
  BY <1>1, <1>2, <1>4, <1>5, <1>6, <1>8, <1>9, <1>10, Parts

\* A ticket paid from the wallet or in cash.
LEMMA PaidHereOK ==
  ASSUME TypeOK, TypeOK', SaleInv, NEW u \in Tickets,
         PayFromWallet(u) \/ ConfirmCash(u)
  PROVE  SaleInv' /\ Frame /\ NoRevival /\ SoldKeeps
<1>1. /\ ticket' = SoldTicket(u) /\ seat' = SoldSeats(u, LinkedSeats(u))
      /\ UNCHANGED <<paymentQr, call, request, astray>>
  BY DEF PayFromWallet, ConfirmCash
<1>2. Live(u) /\ ticket[u].kind \notin BankKinds
  BY DEF PayFromWallet, ConfirmCash, Payable, Confirmable, Live, Active,
     Unpaid, BankKinds
<1>3. \A t \in Tickets :
        /\ ticket'[t].seats = ticket[t].seats
        /\ ticket'[t].kind = ticket[t].kind
        /\ ticket'[t].qr = ticket[t].qr
        /\ ticket'[t].deleted = ticket[t].deleted
        /\ t # u => ticket'[t] = ticket[t]
        /\ t = u => ticket'[t].status = "sold"
  BY <1>1 DEF SoldTicket, TypeOK, TicketRow
<1>4. \A s \in Seats :
        /\ seat[s].ticket # u => seat'[s] = seat[s]
        /\ seat[s].ticket = u => seat'[s].status = "sold" /\ seat'[s].ticket = u
  BY <1>1 DEF SoldSeats, LinkedSeats
<1>5. \A q \in QRs : paymentQr'[q] = paymentQr[q]
  BY <1>1
<1>6. ticket'[u].status = "sold" /\ ~ticket'[u].deleted
  BY <1>2, <1>3 DEF Live
<1>7. UNCHANGED <<call, request, astray>>
  BY <1>1
<1> QED
  BY <1>2, <1>3, <1>4, <1>5, <1>6, <1>7, OneTicketOK

\* A ticket cancelled in the app or in the office.
LEMMA CancelOK ==
  ASSUME TypeOK, TypeOK', SaleInv, NEW u \in Tickets,
         CancelInApp(u) \/ CancelInOffice(u)
  PROVE  SaleInv' /\ Frame /\ NoRevival /\ SoldKeeps
<1>1. /\ ticket' = CancelledTicket(u) /\ seat' = GivenUp(LinkedSeats(u))
      /\ UNCHANGED <<call, request, astray>> /\ Live(u)
  BY DEF CancelInApp, CancelInOffice, Cancelable
<1>2. \A t \in Tickets :
        /\ ticket'[t].seats = ticket[t].seats
        /\ ticket'[t].kind = ticket[t].kind
        /\ ticket'[t].qr = ticket[t].qr
        /\ t # u => ticket'[t] = ticket[t]
        /\ t = u => ticket'[t].status = "cancelled"
  BY <1>1 DEF CancelledTicket, Cancelled, TypeOK, TicketRow
<1>3. \A s \in Seats : /\ seat[s].ticket # u => seat'[s] = seat[s]
                       /\ seat[s].ticket = u => seat'[s] = FreeSeat
  BY <1>1 DEF GivenUp, LinkedSeats
<1>4. \A q \in QRs : /\ paymentQr'[q].ticket = paymentQr[q].ticket
                     /\ paymentQr[q].status # "pending" =>
                          paymentQr'[q].status = paymentQr[q].status
                     /\ paymentQr[q].status = "pending" =>
                          paymentQr'[q].status # "none"
  <2>1. CASE CancelInApp(u)
    BY <2>1 DEF CancelInApp, TypeOK, QrRow
  <2>2. CASE CancelInOffice(u)
    BY <2>2 DEF CancelInOffice
  <2> QED
    BY <2>1, <2>2
<1> QED
  BY <1>1, <1>2, <1>3, <1>4, OneTicketOK

\* A step that leaves tickets, but for their deadlines, seats, QRs and calls
\* alone.
LEMMA QuietOK ==
  ASSUME TypeOK, TypeOK', SaleInv, UNCHANGED <<seat, paymentQr, astray>>,
         \A q \in QRs : call'[q] \in {call[q], Null},
         \/ request' = request
         \/ \E r \in Requests : request' = [request EXCEPT ![r] = Idle],
         \A t \in Tickets :
           /\ ticket'[t].status = ticket[t].status
           /\ ticket'[t].seats = ticket[t].seats
           /\ ticket'[t].kind = ticket[t].kind
           /\ ticket'[t].qr = ticket[t].qr
           /\ ticket'[t].deleted = ticket[t].deleted
  PROVE  SaleInv' /\ Frame /\ NoRevival /\ SoldKeeps
<1>1. Frame /\ NoRevival /\ SoldKeeps
  BY DEF Frame, NoRevival, SoldKeeps, Live
<1>2. RequestsOK' /\ CallsOK' /\ QrsOK'
  BY <1>1, RequestsEndOK, CallsKept, QrsKept DEF SaleInv
<1>3. LinksNamed' /\ FreeSeatsUnlinked' /\ UnusedTicketsClean'
  BY DEF SaleInv, LinksNamed, FreeSeatsUnlinked, UnusedTicketsClean
<1>4. SeatsFollowTickets'
  <2> SUFFICES ASSUME NEW t \in Tickets \ astray
               PROVE  SeatsFollow(t)'
    BY DEF SeatsFollowTickets
  <2>1. SeatsFollow(t)
    BY DEF SaleInv, SeatsFollowTickets
  <2>2. LinkedSeats(t)' = LinkedSeats(t) /\ (Live(t)' <=> Live(t))
    BY DEF LinkedSeats, Live
  <2> QED
    BY <2>1, <2>2 DEF SeatsFollow
<1>5. SoldWasPaid'
  BY <1>1, SoldKept DEF SaleInv
<1> QED
  BY <1>1, <1>2, <1>3, <1>4, <1>5, Parts

-----------------------------------------------------------------------------
(* The inductive step.                                                     *)

\* Every step keeps SaleInv, the frame, the dead tickets and the sold ones.
LEMMA NextOK ==
  ASSUME TypeOK, TypeOK', SaleInv, [Next]_vars
  PROVE  SaleInv' /\ Frame /\ NoRevival /\ SoldKeeps
<1>1. ASSUME NEW r \in Requests, StartListing(r) \/ StartsAny(r)
      PROVE  SaleInv' /\ Frame /\ NoRevival /\ SoldKeeps
  BY <1>1, StartingOK
<1>2. ASSUME NEW r \in Requests, CommitsAny(r)
      PROVE  SaleInv' /\ Frame /\ NoRevival /\ SoldKeeps
  <2>1. CASE EndAssignStaff(r)
    BY <2>1, QuietOK DEF EndAssignStaff
  <2> QED
    BY <1>2, <2>1, EndListingOK, EndSaleOK, EndNoticeOK, EndCancelTravelOK,
       EndCloseOK DEF CommitsAny
<1>3. ASSUME NEW r \in Requests, RollBack(r)
      PROVE  SaleInv' /\ Frame /\ NoRevival /\ SoldKeeps
  BY <1>3, QuietOK DEF RollBack
<1>4. ASSUME NEW t \in Tickets, PayFromWallet(t) \/ ConfirmCash(t)
      PROVE  SaleInv' /\ Frame /\ NoRevival /\ SoldKeeps
  BY <1>4, PaidHereOK
<1>5. ASSUME NEW t \in Tickets, CancelInApp(t) \/ CancelInOffice(t)
      PROVE  SaleInv' /\ Frame /\ NoRevival /\ SoldKeeps
  BY <1>5, CancelOK
<1>6. ASSUME NEW q \in QRs, NEW t \in Tickets, AskBank(q, t)
      PROVE  SaleInv' /\ Frame /\ NoRevival /\ SoldKeeps
  BY <1>6, AskBankOK
<1>7. ASSUME NEW q \in QRs, BankFails(q)
      PROVE  SaleInv' /\ Frame /\ NoRevival /\ SoldKeeps
  BY <1>7, QuietOK DEF BankFails, TypeOK
<1>8. ASSUME NEW q \in QRs, SaveQr(q)
      PROVE  SaleInv' /\ Frame /\ NoRevival /\ SoldKeeps
  BY <1>8, SaveQrOK
<1>9. ASSUME NEW t \in Tickets, DeadlinePasses(t)
      PROVE  SaleInv' /\ Frame /\ NoRevival /\ SoldKeeps
  <2>1. \A u \in Tickets :
          /\ ticket'[u].status = ticket[u].status
          /\ ticket'[u].seats = ticket[u].seats
          /\ ticket'[u].kind = ticket[u].kind
          /\ ticket'[u].qr = ticket[u].qr
          /\ ticket'[u].deleted = ticket[u].deleted
    BY <1>9 DEF DeadlinePasses, TypeOK, TicketRow
  <2> QED
    BY <1>9, <2>1, QuietOK DEF DeadlinePasses
<1>10. CASE TravelNears
  BY <1>10, QuietOK DEF TravelNears
<1>11. CASE UNCHANGED vars
  BY <1>11, QuietOK DEF vars
<1> QED
  BY <1>1, <1>2, <1>3, <1>4, <1>5, <1>6, <1>7, <1>8, <1>9, <1>10, <1>11
     DEF Next

\* The start.
LEMMA InitOK == Init => SaleInv
<1> SUFFICES ASSUME Init
             PROVE  SaleInv
  OBVIOUS
<1>1. RequestsOK
  BY IdleOK DEF Init, RequestsOK
<1>2. LinksNamed /\ FreeSeatsUnlinked /\ UnusedTicketsClean
  BY NullAssumption DEF Init, LinksNamed, FreeSeatsUnlinked,
     UnusedTicketsClean, FreeSeat, UnusedTicket
<1>3. CallsOK /\ QrsOK
  BY NullAssumption DEF Init, CallsOK, QrsOK, UnusedTicket
<1>4. SeatsFollowTickets /\ SoldWasPaid
  BY NullAssumption DEF Init, SeatsFollowTickets, SeatsFollow, LinkedSeats,
     Live, Active, Unpaid, SoldWasPaid, FreeSeat, UnusedTicket
<1> QED
  BY <1>1, <1>2, <1>3, <1>4 DEF SaleInv

-----------------------------------------------------------------------------
(* The theorems.                                                           *)

\* However many requests overlap, what the rows say of each other and what
\* the requests remember fit together: the invariant the rest follows from.
THEOREM SalesInvariant == Spec => []SaleInv
<1>1. TypeOK /\ SaleInv /\ [Next]_vars /\ TypeOK' => SaleInv'
  BY NextOK
<1> QED
  BY <1>1, InitOK, TypeCorrect, PTL DEF Spec

\* Outside the tickets that a stale save has hit, a live ticket has all its
\* seats with its status, and no other ticket has any.
THEOREM SeatsFollowTheirTickets == Spec => []SeatsFollowTickets
<1>1. SaleInv => SeatsFollowTickets
  BY DEF SaleInv
<1> QED
  BY <1>1, SalesInvariant, PTL

\* A seat is sold twice only to a ticket that a stale save has hit.
THEOREM NoSeatSoldTwice == Spec => []NoDoubleSale
<1>1. TypeOK /\ SaleInv => NoDoubleSale
  <2> SUFFICES ASSUME TypeOK, SaleInv, NEW t \in Tickets \ astray,
                      NEW u \in Tickets \ astray, Live(t), Live(u),
                      NEW s \in ticket[t].seats \cap ticket[u].seats
               PROVE  t = u
    BY DEF NoDoubleSale
  <2>1. s \in LinkedSeats(t) /\ s \in LinkedSeats(u)
    BY DEF SaleInv, SeatsFollowTickets, SeatsFollow
  <2> QED
    BY <2>1 DEF LinkedSeats
<1> QED
  BY <1>1, TypeCorrect, SalesInvariant, PTL

\* Whatever overlaps, no ticket that a bank is to pay is SOLD without a QR
\* of its own that is PAID.
THEOREM SoldTicketsArePaid == Spec => []SoldWasPaid
<1>1. SaleInv => SoldWasPaid
  BY DEF SaleInv
<1> QED
  BY <1>1, SalesInvariant, PTL

\* Only a stale save takes a SOLD ticket anywhere but to CANCELLED.
THEOREM SoldTicketsStaySold == Spec => SoldStaysSold
<1>1. TypeOK /\ TypeOK' /\ SaleInv /\ [Next]_vars =>
        [\A t \in Tickets : ticket[t].status = "sold" /\ t \notin astray' =>
           ticket'[t].status \in {"sold", "cancelled"}]_vars
  BY NextOK DEF SoldKeeps
<1> QED
  BY <1>1, TypeCorrect, SalesInvariant, PTL DEF Spec, SoldStaysSold

-----------------------------------------------------------------------------
(* The desk.                                                               *)

\* Only a sale takes a ticket into use.
LEMMA OnlySalesGrant ==
  ASSUME TypeOK, SaleInv, [Next]_vars,
         \A r \in Requests, t \in Tickets, S \in SUBSET Seats : ~EndSale(r, t, S),
         NEW t \in Tickets, ticket[t].status = "unused"
  PROVE  ticket'[t].status = "unused"
<1>1. ASSUME NEW r \in Requests, EndListing(r)
      PROVE  ticket'[t] = ticket[t]
  <2>1. t \notin TicketsIn(request[r].overdue)
    BY UnderWay, ReadNamed
  <2> QED
    BY <1>1, <2>1, ExpiredColumns, UnderWay DEF EndListing
<1>2. ASSUME NEW r \in Requests, EndNotice(r)
      PROVE  ticket'[t] = ticket[t]
  <2>1. t \notin TicketsIn(request[r].rows)
    BY UnderWay, ReadNamed
  <2> QED
    BY <1>2, <2>1 DEF EndNotice
<1>3. ASSUME NEW r \in Requests, EndCancelTravel(r) \/ EndClose(r)
      PROVE  ticket'[t] = ticket[t]
  <2>1. t \notin TicketsIn(request[r].overdue) /\ t \notin TicketsIn(request[r].rows)
    BY UnderWay, ReadNamed
  <2>2. ExpiredTicket(request[r].overdue)[t] = ticket[t]
    BY <2>1, ExpiredColumns, UnderWay
  <2> QED
    BY <1>3, <2>1, <2>2 DEF EndCancelTravel, EndClose
<1>4. ASSUME NEW r \in Requests, StartListing(r) \/ StartsAny(r)
                                 \/ EndAssignStaff(r) \/ RollBack(r)
      PROVE  ticket' = ticket
  BY <1>4 DEF StartListing, StartsAny, StartSale, StartNotice, StartAssignStaff,
     StartCancelTravel, StartClose, Starts, EndAssignStaff, RollBack
<1>5. ASSUME NEW q \in QRs, SaveQr(q)
      PROVE  ticket'[t] = ticket[t]
  <2>1. call[q].ticket # t
    BY <1>5 DEF SaveQr, SaleInv, CallsOK, EntityOK
  <2> QED
    BY <1>5, <2>1 DEF SaveQr, TypeOK
<1>6. ASSUME NEW u \in Tickets, PayFromWallet(u) \/ ConfirmCash(u)
      PROVE  ticket'[t] = ticket[t]
  BY <1>6 DEF PayFromWallet, ConfirmCash, Payable, Confirmable, SoldTicket,
     TypeOK
<1>7. ASSUME NEW u \in Tickets, CancelInApp(u) \/ CancelInOffice(u)
      PROVE  ticket'[t] = ticket[t]
  <2>1. u # t /\ ticket' = CancelledTicket(u)
    BY <1>7 DEF CancelInApp, CancelInOffice, Cancelable, Live, Active, Unpaid
  <2> QED
    BY <2>1 DEF CancelledTicket, TypeOK
<1>8. ASSUME NEW u \in Tickets, DeadlinePasses(u)
      PROVE  ticket'[t].status = ticket[t].status
  BY <1>8 DEF DeadlinePasses, TypeOK, TicketRow
<1>9. \/ \E r \in Requests : CommitsAny(r)
      \/ \E r \in Requests : StartListing(r) \/ StartsAny(r) \/ RollBack(r)
      \/ \E q \in QRs : SaveQr(q)
      \/ \E u \in Tickets : \/ PayFromWallet(u) \/ ConfirmCash(u)
                            \/ CancelInApp(u) \/ CancelInOffice(u)
                            \/ DeadlinePasses(u)
      \/ ticket' = ticket
  BY DEF Next, vars, AskBank, BankFails, TravelNears
<1>10. ASSUME NEW r \in Requests, CommitsAny(r)
       PROVE  ticket'[t] = ticket[t]
  BY <1>10, <1>1, <1>2, <1>3, <1>4 DEF CommitsAny
<1> QED
  BY <1>4, <1>5, <1>6, <1>7, <1>8, <1>9, <1>10

\* After a step the desk's seats are those it had, but for the tickets that
\* have given theirs back and the one that got some.
LEMMA DeskStep ==
  ASSUME TypeOK, TypeOK', SaleInv, [Next]_vars
  PROVE  [Desk!Next]_(Desk!vars)
<1> DEFINE own == [s \in Seats |-> IF seat[s].ticket \in astray THEN Null
                                   ELSE seat[s].ticket]
           got == {t \in Tickets : ticket[t].status # "unused"}
<1>0. PICK T \in SUBSET got :
        \A t \in Tickets : t \in T <=> t \in got /\ (t \in astray' \/ ~Live(t)')
  <2>1. {t \in got : t \in astray' \/ ~Live(t)'} \in SUBSET got
    OBVIOUS
  <2> QED
    BY <2>1
<1> DEFINE back == [s \in Seats |-> IF own[s] \in T THEN Null ELSE own[s]]
<1>1. SaleInv' /\ Frame /\ NoRevival
  BY NextOK
<1>2. \A t \in Tickets \ astray' : Live(t)' =>
        \A s \in Seats : seat'[s].ticket = t <=> s \in ticket'[t].seats
  BY <1>1 DEF SaleInv, SeatsFollowTickets, SeatsFollow, LinkedSeats, TypeOK,
     TicketRow
<1>3. \A t \in Tickets \ astray : Live(t) =>
        \A s \in Seats : seat[s].ticket = t <=> s \in ticket[t].seats
  BY DEF SaleInv, SeatsFollowTickets, SeatsFollow, LinkedSeats, TypeOK,
     TicketRow
<1>4. \A t \in Tickets \ astray' : ~Live(t)' => \A s \in Seats : seat'[s].ticket # t
  BY <1>1 DEF SaleInv, SeatsFollowTickets, SeatsFollow, LinkedSeats
<1>5. \A s \in Seats, t \in Tickets : seat[s].ticket = t => t \in got
  BY DEF SaleInv, LinksNamed
<1>7. ASSUME NEW s \in Seats
      PROVE  /\ back[s] # Null => own'[s] = back[s]
             /\ back[s] = Null => \/ own'[s] = Null
                                  \/ ticket[own'[s]].status = "unused"
  <2>1. seat[s].ticket \in Tickets \cup {Null}
        /\ seat'[s].ticket \in Tickets \cup {Null}
    BY DEF TypeOK, SeatRow
  <2>2. ASSUME back[s] # Null
        PROVE  own'[s] = back[s]
    <3>1. PICK u \in Tickets : /\ u = seat[s].ticket /\ u = back[s]
                               /\ u \notin astray /\ u \notin T
      BY <2>1, <2>2
    <3>2. u \in got /\ u \notin astray' /\ Live(u)'
      BY <1>5, <1>0, <3>1
    <3>3. Live(u) /\ ticket'[u].seats = ticket[u].seats
      BY <1>1, <3>2 DEF NoRevival, Frame
    <3>4. seat'[s].ticket = u
      BY <1>2, <1>3, <3>1, <3>2, <3>3
    <3> QED
      BY <3>1, <3>2, <3>4
  <2>3. ASSUME back[s] = Null, own'[s] # Null, ticket[own'[s]].status # "unused"
        PROVE  FALSE
    <3>1. PICK u \in Tickets : /\ u = seat'[s].ticket /\ u = own'[s]
                               /\ u \notin astray' /\ u \in got
      BY <2>1, <2>3
    <3>2. Live(u)'
      BY <1>4, <3>1
    <3>3. Live(u) /\ ticket'[u].seats = ticket[u].seats /\ u \notin astray
      BY <1>1, <3>1, <3>2 DEF NoRevival, Frame
    <3>4. seat[s].ticket = u
      BY <1>2, <1>3, <3>1, <3>2, <3>3
    <3>5. back[s] = u
      BY <1>0, <3>1, <3>2, <3>3, <3>4
    <3> QED
      BY <2>3, <3>1, <3>5, NullAssumption
  <2> QED
    BY <2>2, <2>3
<1>8. CASE \A r \in Requests, t \in Tickets, S \in SUBSET Seats : ~EndSale(r, t, S)
  <2>1. \A t \in Tickets : ticket[t].status = "unused" =>
                             ticket'[t].status = "unused"
    BY <1>8, OnlySalesGrant
  <2>2. got' = got
    BY <1>1, <2>1 DEF Frame
  <2>3. \A s \in Seats : own'[s] = back[s]
    <3> SUFFICES ASSUME NEW s \in Seats, own'[s] # Null
                 PROVE  own'[s] = back[s]
      BY <1>7
    <3>1. own'[s] \in Tickets /\ ticket'[own'[s]].status # "unused"
      BY <1>1 DEF TypeOK, SeatRow, SaleInv, LinksNamed
    <3> QED
      BY <1>7, <2>1, <3>1
  <2>4. own' = back
    BY <2>3
  <2>5. Desk!Return(T)
    BY <2>2, <2>4 DEF Desk!Return, Desk!Returned
  <2> QED
    BY <2>5 DEF Desk!Next
<1>9. ASSUME NEW r \in Requests, NEW t \in Tickets, NEW S \in SUBSET Seats,
             EndSale(r, t, S)
      PROVE  Desk!Next
  <2>1. /\ ticket[t].status = "unused" /\ ticket'[t].seats = S
        /\ Live(t)' /\ t \notin astray'
        /\ \A u \in Tickets \ {t} : ticket[u].status = "unused" =>
             ticket'[u].status = "unused"
    BY <1>9, EndSaleOK
  <2>2. got' = got \cup {t} /\ t \notin got
    BY <1>1, <2>1 DEF Frame, Live, Active, Unpaid
  <2>3. ASSUME NEW s \in S
        PROVE  own'[s] = t /\ back[s] = Null
    <3>1. own'[s] = t
      BY <1>2, <2>1
    <3>2. t # Null
      BY NullAssumption
    <3>3. back[s] # t
      BY <1>5, <2>2, <3>2
    <3> QED
      BY <1>7, <3>1, <3>3
  <2>4. ASSUME NEW s \in Seats \ S
        PROVE  own'[s] = back[s]
    <3>1. CASE own'[s] = Null
      BY <1>7, <3>1
    <3>2. CASE own'[s] # Null
      <4>1. own'[s] \in Tickets /\ ticket'[own'[s]].status # "unused"
        BY <1>1, <3>2 DEF TypeOK, SeatRow, SaleInv, LinksNamed
      <4>2. own'[s] # t
        BY <1>2, <2>1, <3>2
      <4> QED
        BY <1>7, <2>1, <3>2, <4>1, <4>2
    <3> QED
      BY <3>1, <3>2
  <2>5. own' = [s \in Seats |-> IF s \in S THEN t ELSE back[s]]
    BY <2>3, <2>4
  <2>6. Desk!Grant(t, S, T)
    BY <2>2, <2>3, <2>5 DEF Desk!Grant, Desk!Returned
  <2> QED
    BY <2>6 DEF Desk!Next
<1> QED
  BY <1>8, <1>9

\* The reservation desk is implemented: outside what stale saves hit, seats
\* are granted together to one ticket and given back together.
THEOREM SalesImplementDesk == Spec => ImplementsDesk
<1>1. Init => Desk!Init
  BY NullAssumption DEF Init, Desk!Init, FreeSeat, UnusedTicket
<1>2. TypeOK /\ TypeOK' /\ SaleInv /\ [Next]_vars => [Desk!Next]_(Desk!vars)
  BY DeskStep
<1> QED
  BY <1>1, <1>2, TypeCorrect, SalesInvariant, PTL DEF Spec, ImplementsDesk,
     Desk!Spec
=============================================================================
