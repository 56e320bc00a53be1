------------------------- MODULE SeatSalesInvariants -------------------------
(***************************************************************************)
(* The inductive invariant behind the properties of SeatSales: what the    *)
(* rows say of each other, and what a request under way has read.          *)
(***************************************************************************)
EXTENDS SeatSales

\* A seat is linked only to a ticket that was sold that seat.
LinksNamed ==
  \A s \in Seats, t \in Tickets :
    seat[s].ticket = t => /\ s \in ticket[t].seats
                          /\ ticket[t].status # "unused"

\* A seat on offer, or left over at the close, is linked to no ticket.
FreeSeatsUnlinked ==
  \A s \in Seats :
    seat[s].status \in {"available", "unsold"} => seat[s].ticket = Null

UnusedTicketsClean ==
  \A t \in Tickets : ticket[t].status = "unused" =>
    ticket[t].qr = Null /\ t \notin astray

-----------------------------------------------------------------------------
(* What requests have read.                                                *)

\* The seats of an entity are among those the ticket was sold; if nothing
\* has gone astray they are all of them, or none.
EntityOK(e) ==
  /\ ticket[e.ticket].status # "unused" /\ e.status # "unused"
  /\ e.seats \subseteq ticket[e.ticket].seats
  /\ e.ticket \notin astray =>
       e.seats = IF e.status \in Active THEN ticket[e.ticket].seats ELSE {}

\* A reading holds each ticket, and each seat, once.
ReadingOK(E) ==
  /\ \A e \in E : EntityOK(e)
  /\ \A e, f \in E :
       e.ticket = f.ticket \/ e.seats \cap f.seats # {} => e = f

\* Which of the seats a close has read as SOLD are those of SOLD tickets.
SoldSeatsRead(R) ==
  /\ \A e \in R.overdue : e.seats \cap R.sold = {}
  /\ \A e \in R.rows : e.ticket \notin astray =>
       IF e.status = "sold" THEN e.seats \subseteq R.sold
                            ELSE e.seats \cap R.sold = {}

RequestOK(R) ==
  /\ ReadingOK(R.overdue \cup R.rows)
  /\ \A e \in R.overdue : e.status \in Unpaid /\ e \notin R.rows
  /\ R.op \in {"listing", "sale"} => R.rows = {}
  /\ R.op = "notice" => /\ R.overdue = {}
                        /\ R.qr \in QRs /\ paymentQr[R.qr].status # "none"
                        /\ \A e \in R.rows : paymentQr[R.qr].ticket = e.ticket
  /\ R.op = "cancel" => \A e \in R.rows : e.status \in Active
  /\ R.op = "close" =>
       /\ SoldSeatsRead(R)
       /\ \A e \in R.rows :
            e.status = "sold" /\ ticket[e.ticket].kind \in BankKinds =>
              PaidByBank(e.ticket)

RequestsOK == \A r \in Requests : RequestOK(request[r])

-----------------------------------------------------------------------------
(* What the bank has been asked.                                           *)

CallsOK ==
  \A q \in QRs : call[q] # Null => /\ EntityOK(call[q])
                                  /\ call[q].status = "reserved"
                                  /\ paymentQr[q].status = "none"

QrsOK ==
  \A t \in Tickets, q \in QRs : ticket[t].qr = q =>
    paymentQr[q].status # "none" /\ paymentQr[q].ticket = t

SaleInv ==
  /\ LinksNamed /\ FreeSeatsUnlinked /\ UnusedTicketsClean
  /\ RequestsOK /\ CallsOK /\ QrsOK
  /\ SeatsFollowTickets /\ SoldWasPaid
=============================================================================
