------------------------------ MODULE SeatSales ------------------------------
(***************************************************************************)
(* The seats of one travel and the tickets sold for them: reservation from *)
(* the app or the office, payment by wallet, bank QR or cash, lazy expiry, *)
(* cancellation, and the close or cancellation of the whole travel.        *)
(*                                                                         *)
(* A handler that locks the rows it reads (SELECT ... FOR UPDATE) is one   *)
(* action.  One that reads tickets and seats without a lock is two: Start  *)
(* remembers what it has read, and the step that commits writes the        *)
(* remembered entities back with save(), over whatever has become of them. *)
(* The only row a handler holds between its two steps is the travel that a *)
(* close has locked.                                                       *)
(*                                                                         *)
(* Rows that a soft delete hides stay in the state with deleted = TRUE,    *)
(* because an UPDATE by id still reaches them.  The wallet is the subject  *)
(* of WalletLedger: nothing here depends on it.                            *)
(***************************************************************************)
EXTENDS Naturals, FiniteSets

CONSTANTS
  Seats,     \* the seats of the travel
  Tickets,   \* ticket ids, "unused" until a reservation takes one
  QRs,       \* correlation ids of QR requests
  Requests,  \* handlers that can be between their two steps at a time
  Null       \* no ticket, no QR

ASSUME NullAssumption == Null \notin Tickets /\ Null \notin QRs

VARIABLES
  travel,     \* the row of the travel, and how close its departure is
  seat,       \* travel_seats rows
  ticket,     \* tickets rows
  paymentQr,  \* payment_qr rows, status "none" before the row exists
  call,       \* generateQr between its transactions: the ticket it has read
  request,    \* the other handlers between their two steps
  astray      \* history: tickets that a handler has saved as it had read
              \* them, over what another had made of them or of their seats,
              \* and tickets paid after the close had ended them

vars == <<travel, seat, ticket, paymentQr, call, request, astray>>

-----------------------------------------------------------------------------
(* Row types.                                                              *)

TravelStatus == {"active", "cancelled", "closed"}
SeatStatus == {"available", "reserved", "pending_payment", "sold", "unsold"}
TicketStatus == {"unused", "reserved", "pending_payment", "sold", "expired",
                 "cancelled", "cancelled_for_close"}
Unpaid == {"reserved", "pending_payment"}
Active == Unpaid \cup {"sold"}

\* "open" until hours_before_closing before departure, then "late".
Phase == {"open", "late", "departed"}

\* How a ticket is to be paid: "app_wallet" has qr_amount = 0, and a wallet
\* part beside a QR part makes no difference here.
AppKinds == {"app_qr", "app_wallet"}
OfficeKinds == {"office_qr", "office_cash"}
Kinds == AppKinds \cup OfficeKinds
BankKinds == {"app_qr", "office_qr"}

\* reserve_expiresAt: null, in the future, in the past.
Expiry == {"none", "running", "passed"}

TravelRow == [status : TravelStatus, drivers : BOOLEAN, phase : Phase]
SeatRow == [status : SeatStatus, ticket : Tickets \cup {Null}]
TicketRow == [status : TicketStatus, kind : Kinds, seats : SUBSET Seats,
              expiry : Expiry, deleted : BOOLEAN, qr : QRs \cup {Null}]
\* ticket is the one that the correlation id and the collectors name.
QrRow == [status : {"none", "pending", "paid", "cancelled"},
          ticket : Tickets \cup {Null}]

\* What a handler remembers of a ticket with its travelSeats.
Entity == [ticket : Tickets, status : TicketStatus, seats : SUBSET Seats]
\* overdue: what expireTravelIfNeeded has found; rows: the tickets read
\* besides; sold: the seats a close has read as SOLD.
RequestRecord == [op : {"none", "listing", "sale", "notice", "staff",
                        "cancel", "close"},
                  overdue : SUBSET Entity, rows : SUBSET Entity,
                  sold : SUBSET Seats, qr : QRs \cup {Null}, kind : Kinds]

TypeOK ==
  /\ travel \in TravelRow
  /\ seat \in [Seats -> SeatRow]
  /\ ticket \in [Tickets -> TicketRow]
  /\ paymentQr \in [QRs -> QrRow]
  /\ call \in [QRs -> Entity \cup {Null}]
  /\ request \in [Requests -> RequestRecord]
  /\ astray \subseteq Tickets

FreeSeat == [status |-> "available", ticket |-> Null]
UnsoldSeat == [status |-> "unsold", ticket |-> Null]
UnusedTicket == [status |-> "unused", kind |-> "office_cash", seats |-> {},
                 expiry |-> "none", deleted |-> FALSE, qr |-> Null]
Idle == [op |-> "none", overdue |-> {}, rows |-> {}, sold |-> {},
         qr |-> Null, kind |-> "office_cash"]

Init ==
  /\ travel = [status |-> "active", drivers |-> FALSE, phase |-> "open"]
  /\ seat = [s \in Seats |-> FreeSeat]
  /\ ticket = [t \in Tickets |-> UnusedTicket]
  /\ paymentQr = [q \in QRs |-> [status |-> "none", ticket |-> Null]]
  /\ call = [q \in QRs |-> Null]
  /\ request = [r \in Requests |-> Idle]
  /\ astray = {}

-----------------------------------------------------------------------------
(* Queries.                                                                *)

Live(t) == ~ticket[t].deleted /\ ticket[t].status \in Active
LinkedSeats(t) == {s \in Seats : seat[s].ticket = t}
EntityOf(t) == [ticket |-> t, status |-> ticket[t].status,
                seats |-> LinkedSeats(t)]
Read(T) == {EntityOf(t) : t \in T}


\* The tickets expireTravelIfNeeded finds.
Overdue == {t \in Tickets : /\ ~ticket[t].deleted
                            /\ ticket[t].status \in Unpaid
                            /\ ticket[t].expiry = "passed"}

TicketsIn(E) == {e.ticket : e \in E}
SeatsIn(E) == UNION {e.seats : e \in E}
Remembered(E, t) == CHOOSE e \in E : e.ticket = t
HolderIn(E, s) == (CHOOSE e \in E : s \in e.seats).ticket

\* A close locks the travel's row until it commits.  Whoever locks or writes
\* that row, or inserts a ticket that refers to it, waits.
Unlocked == \A r \in Requests : request[r].op # "close"

-----------------------------------------------------------------------------
(* Writing back what was read.                                             *)

\* expireTravelIfNeeded saves the seats and the tickets it has found.
\* Mutant: the seats are put on sale without being unlinked.
StillLinkedSeat(E) == [s \in Seats |->
                         IF s \in SeatsIn(E)
                         THEN [seat[s] EXCEPT !.status = "available"]
                         ELSE seat[s]]
ExpiredSeat(E) == [s \in Seats |-> IF s \in SeatsIn(E) THEN FreeSeat
                                                       ELSE seat[s]]
ExpiredTicket(E) == [t \in Tickets |->
                       IF t \in TicketsIn(E)
                       THEN [ticket[t] EXCEPT !.status = "expired",
                                              !.deleted = TRUE]
                       ELSE ticket[t]]

\* Writing these rows changes ticket t, a seat it has or a seat it gets.
Touches(seatRows, ticketRows, t) ==
  \/ ticketRows[t] # ticket[t]
  \/ \E s \in Seats : /\ seatRows[s] # seat[s]
                      /\ t \in {seat[s].ticket, seatRows[s].ticket}

\* The tickets that a write touches without their having been read, as E, as
\* they are now.
Overwritten(E, seatRows, ticketRows) ==
  {t \in Tickets : /\ Touches(seatRows, ticketRows, t)
                   /\ ticket[t].deleted \/ EntityOf(t) \notin E}

\* Request r reads what R records.
Starts(r, R) ==
  /\ request[r] = Idle
  /\ request' = [request EXCEPT ![r] = R]
  /\ UNCHANGED <<travel, seat, ticket, paymentQr, call, astray>>

\* Request r commits, having written back these rows as it had read them.
Commits(r, seatRows, ticketRows) ==
  /\ request' = [request EXCEPT ![r] = Idle]
  /\ astray' = astray \cup Overwritten(request[r].overdue \cup request[r].rows,
                                       seatRows, ticketRows)

\* Any request may be rolled back: a client goes away, a check fails,
\* PostgreSQL breaks a deadlock.
RollBack(r) ==
  /\ request[r] # Idle
  /\ request' = [request EXCEPT ![r] = Idle]
  /\ UNCHANGED <<travel, seat, ticket, paymentQr, call, astray>>

-----------------------------------------------------------------------------
(* Reservation and expiry.                                                 *)

\* A listing of the travel or its tickets expires what is overdue.
StartListing(r) ==
  /\ Overdue # {}
  /\ Starts(r, [Idle EXCEPT !.op = "listing", !.overdue = Read(Overdue)])

EndListing(r) ==
  /\ request[r].op = "listing"
  /\ seat' = ExpiredSeat(request[r].overdue)
  /\ ticket' = ExpiredTicket(request[r].overdue)
  /\ Commits(r, seat', ticket')
  /\ UNCHANGED <<travel, paymentQr, call>>

\* The travel can be bought from; the office does not look at the clock.
OnSale(k) ==
  /\ travel.status = "active"
  /\ k \in AppKinds => travel.phase # "departed"

\* TicketsInAppService.create, TicketsForCashierService.create: the travel
\* and what is overdue are read without a lock.
StartSale(r, k) ==
  /\ OnSale(k)
  /\ Starts(r, [Idle EXCEPT !.op = "sale", !.kind = k,
                            !.overdue = Read(Overdue)])

\* Mutant: only the SOLD seats are refused.
NotSold(S, E) == \A s \in S : ExpiredSeat(E)[s].status # "sold"

\* getAndValidateAvailableSeats locks the seats that are AVAILABLE.
Offered(S, E) == \A s \in S : ExpiredSeat(E)[s].status = "available"

EndSale(r, t, S) ==
  LET overdue == request[r].overdue
  IN  /\ request[r].op = "sale"
      /\ Unlocked
      /\ ticket[t].status = "unused"
      /\ S # {} /\ Offered(S, overdue)
      /\ seat' = [s \in Seats |-> IF s \in S
                                  THEN [status |-> "reserved", ticket |-> t]
                                  ELSE ExpiredSeat(overdue)[s]]
      /\ ticket' = [ExpiredTicket(overdue) EXCEPT
                      ![t] = [UnusedTicket EXCEPT !.status = "reserved",
                                                  !.kind = request[r].kind,
                                                  !.seats = S,
                                                  !.expiry = "running"]]
      /\ Commits(r, ExpiredSeat(overdue), ExpiredTicket(overdue))
      /\ UNCHANGED <<travel, paymentQr, call>>

-----------------------------------------------------------------------------
(* Payment.                                                                *)

\* generateQr, first transaction: the row lock and its conditions.
Payable(t) ==
  /\ ~ticket[t].deleted
  /\ ticket[t].status = "reserved"
  /\ ticket[t].kind # "office_cash"
  /\ ticket[t].expiry # "passed"

\* TicketsService.confirmWithManager and the cashier's applySoldState.
SoldTicket(t) == [ticket EXCEPT ![t].status = "sold", ![t].expiry = "none"]
SoldSeats(t, S) == [s \in Seats |-> IF s \in S
                                    THEN [status |-> "sold", ticket |-> t]
                                    ELSE seat[s]]

\* generateQr when the wallet covers the whole price: no bank is involved.
PayFromWallet(t) ==
  /\ Payable(t)
  /\ ticket[t].kind = "app_wallet"
  /\ ticket' = SoldTicket(t)
  /\ seat' = SoldSeats(t, LinkedSeats(t))
  /\ UNCHANGED <<travel, paymentQr, call, request, astray>>

\* generateQr up to the commit that releases the ticket; the bank is asked
\* with no transaction open.
AskBank(q, t) ==
  /\ Payable(t)
  /\ ticket[t].kind \in BankKinds
  /\ call[q] = Null /\ paymentQr[q].status = "none"
  /\ call' = [call EXCEPT ![q] = EntityOf(t)]
  /\ UNCHANGED <<travel, seat, ticket, paymentQr, request, astray>>

\* The bank refuses or times out: the ticket stays as it is.
BankFails(q) ==
  /\ call[q] # Null
  /\ call' = [call EXCEPT ![q] = Null]
  /\ UNCHANGED <<travel, seat, ticket, paymentQr, request, astray>>

\* generateQr, last transaction: updates by id, with no look at what the
\* ticket and its seats have become since the first transaction.
SaveQr(q) ==
  LET t == call[q].ticket
  IN  /\ call[q] # Null
      /\ ticket' = [ticket EXCEPT ![t].status = "pending_payment",
                                  ![t].expiry = "running",
                                  ![t].qr = q]
      /\ seat' = [s \in Seats |->
                    IF s \in call[q].seats
                    THEN [seat[s] EXCEPT !.status = "pending_payment"]
                    ELSE seat[s]]
      /\ paymentQr' = [paymentQr EXCEPT ![q] = [status |-> "pending",
                                                ticket |-> t]]
      /\ astray' = astray \cup Overwritten({call[q]}, seat', ticket')
      /\ call' = [call EXCEPT ![q] = Null]
      /\ UNCHANGED <<travel, request>>

\* Mutant: a notification is processed again when it is repeated.
Notified(q) == paymentQr[q].status # "none"

\* A notification for a QR that is PAID or CANCELLED is ignored.
Awaited(q) == paymentQr[q].status = "pending"

\* The bank's notification, at any time and any number of times; a deleted
\* ticket is not found.
StartNotice(r, q) ==
  /\ Awaited(q)
  /\ Starts(r, [Idle EXCEPT !.op = "notice", !.qr = q,
                  !.rows = Read({t \in Tickets : /\ ticket[t].qr = q
                                                 /\ ~ticket[t].deleted})])

\* The ticket is saved as SOLD with the seats it had; save() links them anew.
EndNotice(r) ==
  LET E == request[r].rows
  IN  /\ request[r].op = "notice"
      /\ paymentQr' = [paymentQr EXCEPT ![request[r].qr].status = "paid"]
      /\ ticket' = [t \in Tickets |->
                      IF t \in TicketsIn(E)
                      THEN [ticket[t] EXCEPT !.status = "sold",
                                             !.expiry = "none"]
                      ELSE ticket[t]]
      /\ seat' = [s \in Seats |->
                    IF s \in SeatsIn(E)
                    THEN [status |-> "sold", ticket |-> HolderIn(E, s)]
                    ELSE seat[s]]
      /\ request' = [request EXCEPT ![r] = Idle]
      /\ astray' = astray \cup Overwritten(E, seat', ticket')
                     \cup {e.ticket : e \in {f \in E : f.status \notin Active}}
      /\ UNCHANGED <<travel, call>>

\* Mutant: a ticket to be paid by QR is taken for one paid in cash.
ConfirmableAnyPayment(t) ==
  /\ Live(t) /\ ticket[t].status = "reserved"
  /\ ticket[t].kind \in OfficeKinds
  /\ ticket[t].expiry = "running"
  /\ LinkedSeats(t) # {}

\* findConfirmableTicket and the checks of confirm.
Confirmable(t) ==
  /\ Live(t) /\ ticket[t].status = "reserved"
  /\ ticket[t].kind = "office_cash"
  /\ ticket[t].expiry = "running"
  /\ LinkedSeats(t) # {}

\* TicketsForCashierService.confirm: the cashier takes the cash.
ConfirmCash(t) ==
  /\ Unlocked
  /\ Confirmable(t)
  /\ ticket' = SoldTicket(t)
  /\ seat' = SoldSeats(t, LinkedSeats(t))
  /\ UNCHANGED <<travel, paymentQr, call, request, astray>>

-----------------------------------------------------------------------------
(* Cancellation of one ticket.  Both findCancelableTicket queries lock the *)
(* ticket, its seats and its travel.                                       *)

Cancelable(t) ==
  /\ Unlocked
  /\ Live(t)
  /\ ticket[t].expiry # "passed"
  /\ LinkedSeats(t) # {}

\* Mutant: the status of the office's own spelling.
Misspelt(row, unpaid) == [row EXCEPT !.status = "canceled",
                                     !.expiry = "none",
                                     !.deleted = @ \/ unpaid]

\* applyCancelledState: an unpaid ticket is soft deleted as well.
Cancelled(row, unpaid) == [row EXCEPT !.status = "cancelled",
                                      !.expiry = "none",
                                      !.deleted = @ \/ unpaid]
CancelledTicket(t) ==
  [ticket EXCEPT ![t] = Cancelled(@, @.status \in Unpaid)]

\* Mutant: SOLD seats are spared, as close spares them.
UnsoldGivenUp(S) == [s \in Seats |-> IF s \in S /\ seat[s].status # "sold"
                                     THEN FreeSeat ELSE seat[s]]

GivenUp(S) == [s \in Seats |-> IF s \in S THEN FreeSeat ELSE seat[s]]

\* TicketsInAppService.cancel; it locks the PaymentQR too.
CancelInApp(t) ==
  /\ Cancelable(t)
  /\ ticket[t].kind \in AppKinds
  /\ travel.status = "active"
  /\ ticket[t].status = "sold" => travel.phase = "open"
  /\ paymentQr' = [q \in QRs |->
                     IF q = ticket[t].qr /\ paymentQr[q].status = "pending"
                     THEN [paymentQr[q] EXCEPT !.status = "cancelled"]
                     ELSE paymentQr[q]]
  /\ ticket' = CancelledTicket(t)
  /\ seat' = GivenUp(LinkedSeats(t))
  /\ UNCHANGED <<travel, call, request, astray>>

\* TicketsForCashierService.cancel: any travel status, the QR is left alone.
CancelInOffice(t) ==
  /\ Cancelable(t)
  /\ ticket[t].kind \in OfficeKinds
  /\ ticket' = CancelledTicket(t)
  /\ seat' = GivenUp(LinkedSeats(t))
  /\ UNCHANGED <<travel, paymentQr, call, request, astray>>

-----------------------------------------------------------------------------
(* The travel as a whole.                                                  *)

\* TravelsForCashierService.assignStaff reads the travel while it is active
\* and saves it whole.
StartAssignStaff(r) ==
  /\ travel.status = "active"
  /\ Starts(r, [Idle EXCEPT !.op = "staff"])

EndAssignStaff(r) ==
  /\ request[r].op = "staff"
  /\ Unlocked
  /\ travel' = [travel EXCEPT !.status = "active", !.drivers = TRUE]
  /\ request' = [request EXCEPT ![r] = Idle]
  /\ UNCHANGED <<seat, ticket, paymentQr, call, astray>>

\* TravelsService.cancel: no lock at all.
StartCancelTravel(r) ==
  /\ travel.status = "active"
  /\ Starts(r, [Idle EXCEPT !.op = "cancel",
                  !.overdue = Read(Overdue),
                  !.rows = Read({t \in Tickets : Live(t)} \ Overdue)])

EndCancelTravel(r) ==
  LET overdue == request[r].overdue
      rows == request[r].rows
  IN  /\ request[r].op = "cancel"
      /\ Unlocked
      /\ ticket' = [t \in Tickets |->
                      IF t \in TicketsIn(rows)
                      THEN Cancelled(ticket[t],
                                     Remembered(rows, t).status \in Unpaid)
                      ELSE ExpiredTicket(overdue)[t]]
      /\ seat' = GivenUp(SeatsIn(overdue \cup rows))
      /\ travel' = [travel EXCEPT !.status = "cancelled"]
      /\ Commits(r, seat', ticket')
      /\ UNCHANGED <<paymentQr, call>>

\* TravelsForCashierService.close locks the travel, and reads its tickets
\* and seats without a lock.
StartClose(r) ==
  /\ travel.status = "active"
  /\ travel.drivers
  /\ Unlocked
  /\ Starts(r, [Idle EXCEPT !.op = "close",
                  !.overdue = Read(Overdue),
                  !.rows = Read({t \in Tickets : /\ ~ticket[t].deleted
                                                 /\ ticket[t].status # "unused"}
                                  \ Overdue),
                  !.sold = {s \in Seats : /\ seat[s].status = "sold"
                                          /\ seat[s].ticket \notin Overdue}])

\* Mutant: SOLD tickets are ended with the unpaid ones.
ClosedEveryTicket(e, lapsed) ==
  IF e.status \in Active THEN "cancelled_for_close" ELSE e.status

\* A reservation whose time runs out while the handler runs (lapsed) is
\* EXPIRED, but not deleted as expireTravelIfNeeded does.
ClosedStatus(e, lapsed) ==
  IF e.status \notin Unpaid THEN e.status
  ELSE IF e.ticket \in lapsed /\ e.status = "reserved" THEN "expired"
  ELSE "cancelled_for_close"

EndClose(r) ==
  LET overdue == request[r].overdue
      rows == request[r].rows
  IN  /\ request[r].op = "close"
      /\ \E lapsed \in SUBSET TicketsIn(rows) :
           ticket' = [t \in Tickets |->
                        IF t \in TicketsIn(rows)
                        THEN [ticket[t] EXCEPT
                                !.status = ClosedStatus(Remembered(rows, t),
                                                        lapsed),
                                !.expiry = "none"]
                        ELSE ExpiredTicket(overdue)[t]]
      /\ seat' = [s \in Seats |->
                    IF s \notin request[r].sold THEN UnsoldSeat
                    ELSE IF s \in SeatsIn(rows)
                    THEN [status |-> "sold", ticket |-> HolderIn(rows, s)]
                    ELSE [seat[s] EXCEPT !.status = "sold"]]
      /\ travel' = [travel EXCEPT !.status = "closed"]
      /\ Commits(r, seat', ticket')
      /\ UNCHANGED <<paymentQr, call>>

-----------------------------------------------------------------------------
(* Time.                                                                   *)

\* Nobody looks at the deadline of a deleted ticket.
DeadlinePasses(t) ==
  /\ ticket[t].expiry = "running" /\ ~ticket[t].deleted
  /\ ticket' = [ticket EXCEPT ![t].expiry = "passed"]
  /\ UNCHANGED <<travel, seat, paymentQr, call, request, astray>>

\* Nor at the departure of a travel that is not active.
TravelNears ==
  /\ travel.phase # "departed" /\ travel.status = "active"
  /\ travel' = [travel EXCEPT !.phase = IF @ = "open" THEN "late"
                                        ELSE "departed"]
  /\ UNCHANGED <<seat, ticket, paymentQr, call, request, astray>>

-----------------------------------------------------------------------------

StartsAny(r) ==
  \/ \E k \in Kinds : StartSale(r, k)
  \/ \E q \in QRs : StartNotice(r, q)
  \/ StartAssignStaff(r)
  \/ StartCancelTravel(r)
  \/ StartClose(r)

CommitsAny(r) ==
  \/ EndListing(r)
  \/ \E t \in Tickets, S \in SUBSET Seats : EndSale(r, t, S)
  \/ EndNotice(r)
  \/ EndAssignStaff(r)
  \/ EndCancelTravel(r)
  \/ EndClose(r)

Next ==
  \/ \E r \in Requests : StartListing(r)
  \/ \E r \in Requests : StartsAny(r)
  \/ \E r \in Requests : CommitsAny(r)
  \/ \E r \in Requests : RollBack(r)
  \/ \E t \in Tickets : PayFromWallet(t)
  \/ \E q \in QRs, t \in Tickets : AskBank(q, t)
  \/ \E q \in QRs : BankFails(q)
  \/ \E q \in QRs : SaveQr(q)
  \/ \E t \in Tickets : ConfirmCash(t)
  \/ \E t \in Tickets : CancelInApp(t)
  \/ \E t \in Tickets : CancelInOffice(t)
  \/ \E t \in Tickets : DeadlinePasses(t)
  \/ TravelNears

Spec == Init /\ [][Next]_vars

(***************************************************************************)
(* Time goes on, the bank answers or the request times out after 45 s, a   *)
(* request commits or is rolled back, and somebody keeps listing the       *)
(* travel, not always in vain.  The last is a strong fairness because the  *)
(* model bounds the requests under way: in the code a listing does not     *)
(* wait for them.                                                          *)
(***************************************************************************)
Fairness ==
  /\ \A t \in Tickets : WF_vars(DeadlinePasses(t))
  /\ \A q \in QRs : WF_vars(BankFails(q) \/ SaveQr(q))
  /\ \A r \in Requests : WF_vars(RollBack(r) \/ CommitsAny(r))
  /\ SF_vars(\E r \in Requests : StartListing(r))
  /\ SF_vars(\E r \in Requests : EndListing(r))

FairSpec == Spec /\ Fairness

-----------------------------------------------------------------------------
(* Properties.                                                             *)

\* Seats and tickets tell the same story: a live ticket has every seat it
\* was sold and each of them has its status, and any other ticket has none.
\* No handler that others overlap breaks this for the tickets that it has
\* read as they are; what a stale save has hit is out of the law's reach.
SeatsFollow(t) ==
  IF Live(t)
  THEN /\ LinkedSeats(t) = ticket[t].seats
       /\ \A s \in ticket[t].seats : seat[s].status = ticket[t].status
  ELSE LinkedSeats(t) = {}

SeatsFollowTickets == \A t \in Tickets \ astray : SeatsFollow(t)

\* Two live tickets name the same seat only if a stale save has hit one.
NoDoubleSale ==
  \A t, u \in Tickets \ astray :
    t # u /\ Live(t) /\ Live(u) => ticket[t].seats \cap ticket[u].seats = {}

\* Whatever overlaps, a ticket that a bank is to pay is SOLD only if a QR of
\* its own is PAID: neither the repeated nor the late notification, nor a
\* second QR, nor the close that saves what it has read sells it for nothing.
PaidByBank(t) ==
  \E q \in QRs : paymentQr[q] = [status |-> "paid", ticket |-> t]

SoldWasPaid ==
  \A t \in Tickets : ticket[t].status = "sold" /\ ticket[t].kind \in BankKinds =>
    PaidByBank(t)

\* A SOLD ticket leaves that status only by its cancellation, unless a
\* handler that had read it before it was paid saves it as it was.
SoldStaysSold ==
  [][\A t \in Tickets : ticket[t].status = "sold" /\ t \notin astray' =>
       ticket'[t].status \in {"sold", "cancelled"}]_vars


-----------------------------------------------------------------------------
(* A claim of the code's comments that the code does not keep.             *)

\* payments.service.ts:349-350: the bank's confirmation is ignored "para no
\* revivir un ticket cancelado".
CancelledStaysCancelled ==
  [][\A t \in Tickets :
       ticket[t].status \in {"cancelled", "cancelled_for_close"} =>
         ticket'[t].status # "sold"]_vars

-----------------------------------------------------------------------------
(* What the reservation desk promises, whatever the payments do.           *)

Desk == INSTANCE SeatAllocation WITH
          owner <- [s \in Seats |-> IF seat[s].ticket \in astray THEN Null
                                    ELSE seat[s].ticket],
          granted <- {t \in Tickets : ticket[t].status # "unused"}

\* Seats are granted all at once, to one ticket, and given back all at once;
\* a ticket that a stale save hits loses its seats in the desk's eyes, and
\* nobody else does.
ImplementsDesk == Desk!Spec
=============================================================================
