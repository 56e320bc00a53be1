------------------------------ MODULE Settlement ------------------------------
(***************************************************************************)
(* What becomes of the money of a travel's tickets: the totals that close  *)
(* writes, the refunds of cancellations, the commissions generated later.  *)
(* A total is modelled by the set of tickets that it adds up.              *)
(*                                                                         *)
(* A handler that locks the rows it reads is one action.  The others are a *)
(* Start... step, which remembers what has been read, and an End... step,  *)
(* which commits: the rows are written as they were read, over whatever    *)
(* has become of them.  Only a close holds a row meanwhile, the travel's.  *)
(*                                                                         *)
(* The seats of a ticket are the subject of SeatSales.  Here a ticket does *)
(* not lose them to a handler that has read another ticket: that would     *)
(* only keep it from being confirmed or cancelled.                         *)
(***************************************************************************)
EXTENDS Naturals

CONSTANTS
  Travels,
  Tickets,
  QRs,       \* correlation ids of QR requests
  Requests,  \* handlers that can be between their two steps at a time
  Notices,   \* bank notifications that can be handled at a time
  Runs,      \* commissions.create requests that can be open at a time
  Null

ASSUME NullAssumption == Null \notin Travels \cup Tickets \cup QRs

VARIABLES
  travel,      \* travels: travel_status, the tickets its totals add up
  ticket,      \* tickets
  paymentQr,   \* payment_qr rows, and the requests that ask the bank for one
  refunded,    \* tickets that a cancellation has credited, once or more
  request,     \* handlers between their two steps: what they have read
  notice,      \* callback requests: what they have read
  run,         \* commissions.create requests: what they have read
  commission,  \* commissions: the tickets each row adds up
  paid,        \* history: tickets whose price has come in
  stray,       \* history: tickets paid too late or twice, and paid tickets
               \* that a handler has ended from what it read before
  revived      \* history: travels that assignStaff has made active again

vars == <<travel, ticket, paymentQr, refunded, request, notice, run,
          commission, paid, stray, revived>>

-----------------------------------------------------------------------------
(* Rows.                                                                   *)

AppKinds == {"app_qr", "app_wallet"}
QrKinds == {"app_qr", "office_qr"}
Kinds == AppKinds \cup QrKinds \cup {"office_cash"}

\* counted: for a closed travel.  Nobody asks for the totals of another.
TravelRow == [status : {"active", "closed", "cancelled"},
              counted : SUBSET Tickets]
\* unpaid: RESERVED or PENDING_PAYMENT; ended: EXPIRED, CANCELLED_FOR_CLOSE.
TicketRow == [status : {"none", "unpaid", "sold", "cancelled", "ended"},
              deleted : BOOLEAN, seats : BOOLEAN, kind : Kinds,
              travel : Travels \cup {Null}, qr : QRs \cup {Null}]
\* asked: generateQr is waiting for the bank, the row does not exist yet.
QrRow == [status : {"none", "asked", "pending", "paid", "cancelled"},
          ticket : Tickets \cup {Null}]
\* overdue: what expireTravelIfNeeded has found; the rest: by status.
RequestRecord == [op : {"none", "expiry", "close", "cancel", "staff"},
                  travel : Travels \cup {Null},
                  overdue : SUBSET Tickets, sold : SUBSET Tickets,
                  ended : SUBSET Tickets, cancelled : SUBSET Tickets]
NoticeRecord == [qr : QRs \cup {Null}, ticket : Tickets \cup {Null},
                 seats : BOOLEAN]
RunRecord == [todo : SUBSET Travels, counted : SUBSET Tickets,
              cancelled : SUBSET Tickets]
CommissionRow == [made : BOOLEAN, counted : SUBSET Tickets,
                  cancelled : SUBSET Tickets]

TypeOK ==
  /\ travel \in [Travels -> TravelRow]
  /\ ticket \in [Tickets -> TicketRow]
  /\ paymentQr \in [QRs -> QrRow]
  /\ refunded \subseteq Tickets
  /\ request \in [Requests -> RequestRecord]
  /\ notice \in [Notices -> NoticeRecord]
  /\ run \in [Runs -> RunRecord]
  /\ commission \in [Travels -> CommissionRow]
  /\ paid \subseteq Tickets
  /\ stray \subseteq Tickets
  /\ revived \subseteq Travels

NoTicket == [status |-> "none", deleted |-> FALSE, seats |-> FALSE,
             kind |-> "office_cash", travel |-> Null, qr |-> Null]
NoQr == [status |-> "none", ticket |-> Null]
Idle == [op |-> "none", travel |-> Null, overdue |-> {}, sold |-> {},
         ended |-> {}, cancelled |-> {}]
NoNotice == [qr |-> Null, ticket |-> Null, seats |-> FALSE]
NoRun == [todo |-> {}, counted |-> {}, cancelled |-> {}]
NoCommission == [made |-> FALSE, counted |-> {}, cancelled |-> {}]

Init ==
  /\ travel = [v \in Travels |-> [status |-> "active", counted |-> {}]]
  /\ ticket = [k \in Tickets |-> NoTicket]
  /\ paymentQr = [q \in QRs |-> NoQr]
  /\ refunded = {}
  /\ request = [r \in Requests |-> Idle]
  /\ notice = [n \in Notices |-> NoNotice]
  /\ run = [r \in Runs |-> NoRun]
  /\ commission = [v \in Travels |-> NoCommission]
  /\ paid = {}
  /\ stray = {}
  /\ revived = {}

-----------------------------------------------------------------------------
(* Helpers.                                                                *)

Of(v) == {k \in Tickets : ticket[k].travel = v}

\* Mutant: the query includes deleted tickets.
FoundWithDeleted(v, status) == {k \in Of(v) : ticket[k].status = status}

Found(v, status) == {k \in Of(v) : /\ ~ticket[k].deleted
                                   /\ ticket[k].status = status}
App(k) == ticket[k].kind \in AppKinds
OnSale(k) == travel[ticket[k].travel].status = "active"

\* Mutant: close reads the travel without a lock.
NeverLocked(v) == TRUE

\* Whoever writes or locks the travel's row, or inserts a ticket that refers
\* to it, waits for a close.
Unlocked(v) == \A r \in Requests :
                 ~(request[r].op = "close" /\ request[r].travel = v)

Sets(k, row) == ticket' = [ticket EXCEPT ![k] = row]

\* The price of ticket k comes in; in time, for a travel on sale?
PaysFor(k, inTime) ==
  /\ paid' = paid \cup {k}
  /\ stray' = IF inTime THEN stray ELSE stray \cup {k}

\* Tickets K are written back as they were before they were paid.
GoStray(K) == stray' = stray \cup (K \cap paid)

Requested(r, R) == request' = [request EXCEPT ![r] = R]

-----------------------------------------------------------------------------
(* Sale and payment.                                                       *)

\* The expiry that a reservation begins with is a request of its own here.
Reserve(k, v, kind) ==
  /\ ticket[k].status = "none"
  /\ travel[v].status = "active" /\ Unlocked(v)
  /\ Sets(k, [NoTicket EXCEPT !.status = "unpaid", !.seats = TRUE,
                              !.kind = kind, !.travel = v])
  /\ UNCHANGED <<travel, paymentQr, refunded, request, notice, run, commission,
                 paid, stray, revived>>

\* RESERVED: a ticket has its QR as soon as it is PENDING_PAYMENT.
Reserved(k) == /\ ticket[k].status = "unpaid" /\ ~ticket[k].deleted
               /\ ticket[k].qr = Null

\* generateQr for a ticket that the wallet pays whole.
PayFromWallet(k) ==
  /\ Reserved(k) /\ ticket[k].kind = "app_wallet"
  /\ Sets(k, [ticket[k] EXCEPT !.status = "sold"])
  /\ PaysFor(k, OnSale(k))
  /\ UNCHANGED <<travel, paymentQr, refunded, request, notice, run, commission,
                 revived>>

\* generateQr for other tickets: the bank is asked between two transactions,
\* and nothing keeps a second request for the ticket from asking it too.
AskBank(q, k) ==
  /\ Reserved(k) /\ ticket[k].kind \in QrKinds
  /\ paymentQr[q].status = "none"
  /\ paymentQr' = [paymentQr EXCEPT ![q] = [status |-> "asked",
                                            ticket |-> k]]
  /\ UNCHANGED <<travel, ticket, refunded, request, notice, run, commission,
                 paid, stray, revived>>

BankFails(q) ==
  /\ paymentQr[q].status = "asked"
  /\ paymentQr' = [paymentQr EXCEPT ![q] = NoQr]
  /\ UNCHANGED <<travel, ticket, refunded, request, notice, run, commission,
                 paid, stray, revived>>

\* The last transaction of generateQr writes the ticket whatever has become
\* of it, and links the new QR in place of an older one.
SaveQr(q) ==
  LET k == paymentQr[q].ticket
  IN  /\ paymentQr[q].status = "asked"
      /\ paymentQr' = [paymentQr EXCEPT ![q].status = "pending"]
      /\ Sets(k, [ticket[k] EXCEPT !.qr = q, !.status = "unpaid"])
      /\ GoStray({k})
      /\ UNCHANGED <<travel, refunded, request, notice, run, commission, paid,
                     revived>>

\* The callback finds the QR, and the ticket linked to it unless deleted.
StartNotice(n, q) ==
  /\ notice[n] = NoNotice
  /\ paymentQr[q].status = "pending"
  /\ \E k \in Tickets \cup {Null} :
       /\ IF k = Null
          THEN \A j \in Tickets : ticket[j].qr = q => ticket[j].deleted
          ELSE ticket[k].qr = q /\ ~ticket[k].deleted
       /\ notice' = [notice EXCEPT ![n] =
            [qr |-> q, ticket |-> k,
             seats |-> IF k = Null THEN FALSE ELSE ticket[k].seats]]
  /\ UNCHANGED <<travel, ticket, paymentQr, refunded, request, run, commission,
                 paid, stray, revived>>

\* It saves them as SOLD and PAID whatever has become of them.  The price
\* comes in with the first notification of the QR.
EndNotice(n) ==
  LET q == notice[n].qr
      k == paymentQr[q].ticket
      found == notice[n].ticket = k
  IN  /\ q # Null
      /\ IF found
         THEN Sets(k, [ticket[k] EXCEPT !.status = "sold",
                                        !.seats = notice[n].seats])
         ELSE UNCHANGED ticket
      /\ paymentQr' = [paymentQr EXCEPT ![q].status = "paid"]
      /\ PaysFor(k, /\ found /\ ~ticket[k].deleted
                    /\ \/ /\ ticket[k].status = "sold"
                          /\ paymentQr[q].status = "paid"
                       \/ ticket[k].status = "unpaid" /\ OnSale(k))
      /\ notice' = [notice EXCEPT ![n] = NoNotice]
      /\ UNCHANGED <<travel, refunded, request, run, commission, revived>>

\* TicketsForCashierService.confirm locks the travel with the ticket, and
\* never asks for the travel's status.
ConfirmCash(k) ==
  /\ Reserved(k) /\ ticket[k].kind = "office_cash" /\ ticket[k].seats
  /\ Unlocked(ticket[k].travel)
  /\ Sets(k, [ticket[k] EXCEPT !.status = "sold"])
  /\ PaysFor(k, OnSale(k))
  /\ UNCHANGED <<travel, paymentQr, refunded, request, notice, run, commission,
                 revived>>

-----------------------------------------------------------------------------
(* Cancellation of one ticket.                                             *)

\* Both findCancelableTicket queries lock the ticket, seats and travel.
Cancelable(k) ==
  /\ ticket[k].status \in {"unpaid", "sold"} /\ ~ticket[k].deleted
  /\ ticket[k].seats /\ Unlocked(ticket[k].travel)

\* An unpaid ticket is deleted with its cancellation.
Cancelled(k) == [ticket[k] EXCEPT !.status = "cancelled", !.seats = FALSE,
                                  !.deleted = ticket[k].status = "unpaid"]

\* The QR is locked, and cancelled if it is still PENDING.
CancelInApp(k) ==
  /\ Cancelable(k) /\ App(k) /\ OnSale(k)
  /\ Sets(k, Cancelled(k))
  /\ paymentQr' = [q \in QRs |->
                     IF q = ticket[k].qr /\ paymentQr[q].status = "pending"
                     THEN [paymentQr[q] EXCEPT !.status = "cancelled"]
                     ELSE paymentQr[q]]
  /\ refunded' = IF ticket[k].status = "sold" THEN refunded \cup {k}
                                              ELSE refunded
  /\ UNCHANGED <<travel, request, notice, run, commission, paid, stray,
                 revived>>

\* Mutant: the office cancels app tickets too, and so after the close.
CancelAnyInOffice(k) ==
  /\ Cancelable(k)
  /\ Sets(k, Cancelled(k))
  /\ UNCHANGED <<travel, paymentQr, refunded, request, notice, run, commission,
                 paid, stray, revived>>

\* On a closed travel too: nothing looks at its status.
CancelInOffice(k) ==
  /\ Cancelable(k) /\ ~App(k)
  /\ Sets(k, Cancelled(k))
  /\ UNCHANGED <<travel, paymentQr, refunded, request, notice, run, commission,
                 paid, stray, revived>>

-----------------------------------------------------------------------------
(* Expiry, and the end of the travel.                                      *)

\* expireTravelIfNeeded finds what is overdue without a lock: a listing does
\* nothing else, close and the cancellation of the travel begin with it.
StartExpiry(r, v, overdue) ==
  /\ request[r] = Idle
  /\ overdue \subseteq Found(v, "unpaid") /\ overdue # {}
  /\ Requested(r, [Idle EXCEPT !.op = "expiry", !.travel = v,
                               !.overdue = overdue])
  /\ UNCHANGED <<travel, ticket, paymentQr, refunded, notice, run, commission,
                 paid, stray, revived>>

Expired(overdue) ==
  [k \in Tickets |-> IF k \in overdue
                     THEN [ticket[k] EXCEPT !.status = "ended",
                                            !.deleted = TRUE, !.seats = FALSE]
                     ELSE ticket[k]]

EndExpiry(r) ==
  /\ request[r].op = "expiry"
  /\ ticket' = Expired(request[r].overdue)
  /\ GoStray(request[r].overdue)
  /\ Requested(r, Idle)
  /\ UNCHANGED <<travel, paymentQr, refunded, notice, run, commission, paid,
                 revived>>

\* Request r has done with expireTravelIfNeeded for travel v.
PastExpiry(r, v) ==
  \/ request[r] = Idle
  \/ request[r].op = "expiry" /\ request[r].travel = v

\* close locks the travel and reads its tickets without a lock: all but those
\* that it has expired itself.
StartClose(r, v) ==
  LET unread == request[r].overdue
  IN  /\ PastExpiry(r, v)
      /\ travel[v].status = "active" /\ Unlocked(v)
      /\ Requested(r, [op |-> "close", travel |-> v, overdue |-> unread,
                       sold |-> Found(v, "sold") \ unread,
                       ended |-> (Found(v, "unpaid") \cup Found(v, "ended"))
                                   \ unread,
                       cancelled |-> Found(v, "cancelled") \ unread])
      /\ UNCHANGED <<travel, ticket, paymentQr, refunded, notice, run,
                     commission, paid, stray, revived>>

\* The totals add up the SOLD tickets.  Every ticket is written as it was
\* read, the unpaid ones as ended, though they may have been paid since.
EndClose(r) ==
  LET v == request[r].travel
      sold == request[r].sold
      ended == request[r].ended
      overdue == request[r].overdue
  IN  /\ request[r].op = "close"
      /\ travel' = [travel EXCEPT ![v] = [status |-> "closed",
                                          counted |-> sold]]
      /\ ticket' = [k \in Tickets |->
           IF k \in sold THEN [ticket[k] EXCEPT !.status = "sold"]
           ELSE IF k \in ended
           THEN [ticket[k] EXCEPT !.status = "ended", !.seats = FALSE]
           ELSE IF k \in request[r].cancelled
           THEN [ticket[k] EXCEPT !.status = "cancelled", !.seats = FALSE]
           ELSE Expired(overdue)[k]]
      /\ GoStray(ended \cup overdue)
      /\ Requested(r, Idle)
      /\ UNCHANGED <<paymentQr, refunded, notice, run, commission, paid,
                     revived>>

\* TravelsService.cancel takes no lock; ended: here what is unpaid.
StartCancelTravel(r, v) ==
  LET unread == request[r].overdue
  IN  /\ PastExpiry(r, v)
      /\ travel[v].status = "active"
      /\ Requested(r, [op |-> "cancel", travel |-> v, overdue |-> unread,
                       sold |-> Found(v, "sold") \ unread,
                       ended |-> Found(v, "unpaid") \ unread,
                       cancelled |-> {}])
      /\ UNCHANGED <<travel, ticket, paymentQr, refunded, notice, run,
                     commission, paid, stray, revived>>

\* The tickets are cancelled as they were read, and so is the travel.  The
\* look-up of an earlier credit takes no lock: two cancellations of a travel
\* can credit a ticket twice (WalletLedger, RefundedOnce).
EndCancelTravel(r) ==
  LET v == request[r].travel
      sold == request[r].sold
      ended == request[r].ended
      overdue == request[r].overdue
  IN  /\ request[r].op = "cancel" /\ Unlocked(v)
      /\ travel' = [travel EXCEPT ![v] = [status |-> "cancelled",
                                          counted |-> {}]]
      /\ ticket' = [k \in Tickets |->
           IF k \in sold \cup ended
           THEN [ticket[k] EXCEPT !.status = "cancelled", !.seats = FALSE,
                                  !.deleted = @ \/ k \in ended]
           ELSE Expired(overdue)[k]]
      /\ refunded' = refunded \cup {k \in sold : App(k)}
      /\ stray' = stray \cup ((ended \cup overdue) \cap paid)
                        \cup {k \in Of(v) \ sold : ticket[k].status = "sold"}
      /\ Requested(r, Idle)
      /\ UNCHANGED <<paymentQr, notice, run, commission, paid, revived>>

\* TravelsForCashierService.assignStaff reads an active travel and saves it
\* whole, whatever has become of it.
StartAssignStaff(r, v) ==
  /\ request[r] = Idle
  /\ travel[v].status = "active"
  /\ Requested(r, [Idle EXCEPT !.op = "staff", !.travel = v])
  /\ UNCHANGED <<travel, ticket, paymentQr, refunded, notice, run, commission,
                 paid, stray, revived>>

EndAssignStaff(r) ==
  LET v == request[r].travel
  IN  /\ request[r].op = "staff" /\ Unlocked(v)
      /\ travel' = [travel EXCEPT ![v] = [status |-> "active",
                                          counted |-> {}]]
      /\ revived' = IF travel[v].status = "active" THEN revived
                                                   ELSE revived \cup {v}
      /\ Requested(r, Idle)
      /\ UNCHANGED <<ticket, paymentQr, refunded, notice, run, commission,
                     paid, stray>>

\* No driver, or a deadlock that PostgreSQL breaks.
RollBack(r) ==
  /\ request[r] # Idle
  /\ Requested(r, Idle)
  /\ UNCHANGED <<travel, ticket, paymentQr, refunded, notice, run, commission,
                 paid, stray, revived>>

-----------------------------------------------------------------------------
(* CommissionsService.create.                                              *)

\* The closed travels without a commission, with their totals and the app
\* tickets that were cancelled after they had been paid: one query.
StartRun(r) ==
  LET todo == {v \in Travels : /\ travel[v].status = "closed"
                               /\ ~commission[v].made}
  IN  /\ run[r] = NoRun /\ todo # {}
      /\ run' = [run EXCEPT ![r] =
           [todo |-> todo,
            counted |-> {k \in Tickets : \E v \in todo :
                           App(k) /\ k \in travel[v].counted},
            cancelled |-> {k \in Tickets : \E v \in todo :
                             App(k) /\ k \in Found(v, "cancelled")}]]
      /\ UNCHANGED <<travel, ticket, paymentQr, refunded, request, notice,
                     commission, paid, stray, revived>>

\* One commission per travel: a second row is an exception, which leaves the
\* rest of the travels to the next request.
SaveCommission(r, v) ==
  /\ v \in run[r].todo
  /\ IF commission[v].made
     THEN /\ run' = [run EXCEPT ![r] = NoRun]
          /\ UNCHANGED commission
     ELSE /\ commission' = [commission EXCEPT ![v] =
               [made |-> TRUE, counted |-> run[r].counted \cap Of(v),
                cancelled |-> run[r].cancelled \cap Of(v)]]
          /\ run' = [run EXCEPT ![r] =
               IF run[r].todo = {v} THEN NoRun
               ELSE [run[r] EXCEPT !.todo = @ \ {v}]]
  /\ UNCHANGED <<travel, ticket, paymentQr, refunded, request, notice, paid,
                 stray, revived>>

-----------------------------------------------------------------------------

Next ==
  \/ \E k \in Tickets, v \in Travels, kind \in Kinds : Reserve(k, v, kind)
  \/ \E k \in Tickets : PayFromWallet(k)
  \/ \E q \in QRs, k \in Tickets : AskBank(q, k)
  \/ \E q \in QRs : BankFails(q)
  \/ \E q \in QRs : SaveQr(q)
  \/ \E n \in Notices, q \in QRs : StartNotice(n, q)
  \/ \E n \in Notices : EndNotice(n)
  \/ \E k \in Tickets : ConfirmCash(k)
  \/ \E k \in Tickets : CancelInApp(k)
  \/ \E k \in Tickets : CancelInOffice(k)
  \/ \E r \in Requests, v \in Travels, overdue \in SUBSET Tickets :
       StartExpiry(r, v, overdue)
  \/ \E r \in Requests : EndExpiry(r)
  \/ \E r \in Requests, v \in Travels : StartClose(r, v)
  \/ \E r \in Requests : EndClose(r)
  \/ \E r \in Requests, v \in Travels : StartCancelTravel(r, v)
  \/ \E r \in Requests : EndCancelTravel(r)
  \/ \E r \in Requests, v \in Travels : StartAssignStaff(r, v)
  \/ \E r \in Requests : EndAssignStaff(r)
  \/ \E r \in Requests : RollBack(r)
  \/ \E r \in Runs : StartRun(r)
  \/ \E r \in Runs, v \in Travels : SaveCommission(r, v)

Spec == Init /\ [][Next]_vars

-----------------------------------------------------------------------------
(* Properties.                                                             *)

\* Every app payment that came in time, and that no stale save has hit, is
\* settled: while the travel is on sale the ticket is either sold or
\* refunded, at the close it is either in the totals the owner is paid from
\* or refunded, and a cancelled travel refunds it.
AppPaymentsSettled ==
  \A k \in paid \ stray : App(k) =>
    LET v == travel[ticket[k].travel]
    IN  CASE v.status = "active" ->
               (k \in refunded) # (ticket[k].status = "sold")
          [] v.status = "closed" -> (k \in refunded) # (k \in v.counted)
          [] v.status = "cancelled" -> k \in refunded

\* The totals of a closed travel stay what its SOLD tickets add up to, but
\* for stray tickets and cancellations in the office.
TotalsMatchTickets ==
  \A v \in Travels : travel[v].status = "closed" =>
    \A k \in Of(v) \ stray :
      /\ ticket[k].status = "sold" => k \in travel[v].counted
      /\ k \in travel[v].counted =>
           \/ ticket[k].status = "sold"
           \/ ~App(k) /\ ticket[k].status = "cancelled"

\* A commission is charged for the app tickets that were paid in time, the
\* cancelled ones included (commissions.service.ts:48).
CommissionsMatchPayments ==
  \A v \in Travels \ revived :
    commission[v].made /\ travel[v].status = "closed" =>
      \A k \in Of(v) \ stray : App(k) =>
        (k \in paid <=> k \in commission[v].counted \cup commission[v].cancelled)

\* No ticket is charged for twice, as counted at the close and as cancelled,
\* whatever overlaps.
TicketsChargedOnce ==
  \A v \in Travels : commission[v].counted \cap commission[v].cancelled = {}

-----------------------------------------------------------------------------
(* The inductive invariant.                                                *)

\* Where the money of a ticket that was paid in time is.
Settled(k) ==
  LET v == travel[ticket[k].travel]
      sold == ticket[k].status = "sold"
      cancelled == ticket[k].status = "cancelled"
  IN  /\ sold \/ cancelled
      /\ ~ticket[k].deleted
      /\ sold => k \notin refunded
      /\ App(k) /\ cancelled => k \in refunded
      /\ v.status = "closed" => /\ sold => k \in v.counted
                                /\ App(k) /\ cancelled => k \notin v.counted
      /\ v.status = "cancelled" => cancelled

\* What is not paid is neither sold nor refunded.
PaymentInv ==
  \A k \in Tickets :
    /\ ticket[k].status = "none" <=> ticket[k].travel = Null
    /\ ticket[k].status = "none" => k \notin paid
    /\ k \notin paid => /\ ticket[k].status # "sold"
                        /\ ticket[k].status = "cancelled" => ticket[k].deleted
                        /\ k \notin refunded
    /\ k \in paid \ stray => Settled(k)

\* A QR is asked for a ticket that is to be paid by one.
QrInv ==
  /\ \A q \in QRs :
       IF paymentQr[q].status = "none" THEN paymentQr[q].ticket = Null
       ELSE /\ paymentQr[q].ticket \in Tickets
            /\ ticket[paymentQr[q].ticket].status # "none"
  /\ \A n \in Notices :
       IF notice[n].qr = Null THEN notice[n].ticket = Null
       ELSE /\ paymentQr[notice[n].qr].status \in {"pending", "paid", "cancelled"}
            /\ notice[n].ticket \in {Null, paymentQr[notice[n].qr].ticket}
  /\ \A k \in Tickets, q \in QRs : ticket[k].qr = q =>
       /\ paymentQr[q].status \in {"pending", "paid", "cancelled"}
       /\ paymentQr[q].ticket = k

\* While close holds the travel, what it has read as SOLD or CANCELLED stays
\* so, and whatever is paid was among what it has read.
CloseInv ==
  \A r \in Requests : request[r].op = "close" =>
    LET v == request[r].travel
        R == request[r]
    IN  /\ travel[v].status = "active"
        /\ \A s \in Requests : request[s].op = "close" /\ request[s].travel = v
             => s = r
        /\ R.sold \subseteq Found(v, "sold") \cup stray
        /\ R.cancelled \subseteq Found(v, "cancelled") \cup stray
        /\ Found(v, "unpaid") \cup Found(v, "ended")
             \subseteq R.ended \cup R.overdue \cup stray
        /\ (Of(v) \cap paid) \ stray
             \subseteq R.sold \cup R.cancelled \cup R.ended \cup R.overdue

\* What requests have read of their travel.
ReadingInv ==
  \A r \in Requests :
    LET R == request[r]
        read == R.overdue \cup R.sold \cup R.ended \cup R.cancelled
    IN  /\ R.op = "none" => R = Idle
        /\ R.op # "none" => R.travel \in Travels /\ read \subseteq Of(R.travel)
        /\ R.sold \cup R.cancelled \subseteq paid

\* The totals of a closed travel.
TotalsInv ==
  \A v \in Travels :
    /\ travel[v].counted \subseteq Of(v) \cap paid
    /\ travel[v].status = "closed" =>
         \A k \in travel[v].counted : App(k) => ticket[k].status # "cancelled"

\* Sets counted and cancelled of tickets are what a commission of travel v
\* adds up, as long as the travel is closed.
Charged(v, counted, cancelled) ==
  /\ v \notin revived => travel[v].status # "active"
  /\ \A k \in Of(v) :
       /\ k \in counted \cup cancelled => App(k) /\ k \in paid
       /\ ~(k \in counted /\ k \in cancelled)
       /\ travel[v].status = "closed" /\ v \notin revived
          /\ App(k) /\ k \notin stray =>
            /\ k \in counted <=> k \in travel[v].counted
            /\ k \in cancelled <=> k \in Found(v, "cancelled")

RunInv ==
  \A r \in Runs :
    /\ run[r].counted \cup run[r].cancelled \subseteq paid
    /\ \A v \in run[r].todo : Charged(v, run[r].counted, run[r].cancelled)

CommissionInv ==
  \A v \in Travels :
    /\ commission[v].counted \cup commission[v].cancelled \subseteq Of(v)
    /\ commission[v].made =>
         Charged(v, commission[v].counted, commission[v].cancelled)
    /\ ~commission[v].made =>
         commission[v].counted = {} /\ commission[v].cancelled = {}

SettlementInv ==
  /\ TypeOK /\ PaymentInv /\ QrInv /\ CloseInv /\ ReadingInv /\ TotalsInv
  /\ RunInv /\ CommissionInv
=============================================================================
