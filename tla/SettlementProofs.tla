--------------------------- MODULE SettlementProofs ---------------------------
(***************************************************************************)
(* The settlement's invariant, for any number of travels, tickets, QRs and *)
(* overlapping requests, and what follows from it.                         *)
(***************************************************************************)
EXTENDS Settlement, TLAPS

-----------------------------------------------------------------------------
(* Types.                                                                  *)

\* The rows that the handlers write are rows.
LEMMA RowTypes ==
  /\ NoTicket \in TicketRow /\ NoQr \in QrRow /\ Idle \in RequestRecord
  /\ NoNotice \in NoticeRecord /\ NoRun \in RunRecord
  /\ NoCommission \in CommissionRow
BY DEF NoTicket, NoQr, Idle, NoNotice, NoRun, NoCommission, TicketRow, QrRow,
       RequestRecord, NoticeRecord, RunRecord, CommissionRow, Kinds, AppKinds,
       QrKinds

\* Changes of single fields keep a ticket's row a row.
LEMMA TicketFields ==
  ASSUME NEW row \in TicketRow, NEW d \in BOOLEAN, NEW s \in BOOLEAN
  PROVE  /\ \A x \in {"none", "unpaid", "sold", "cancelled", "ended"} :
              /\ [row EXCEPT !.status = x] \in TicketRow
              /\ [row EXCEPT !.status = x, !.seats = s] \in TicketRow
              /\ [row EXCEPT !.status = x, !.seats = s, !.deleted = d]
                   \in TicketRow
              /\ [row EXCEPT !.status = x, !.deleted = d, !.seats = s]
                   \in TicketRow
         /\ \A q \in QRs :
              [row EXCEPT !.qr = q, !.status = "unpaid"] \in TicketRow
BY DEF TicketRow

\* Expiry keeps the types.
LEMMA ExpiredType ==
  ASSUME TypeOK, NEW overdue
  PROVE  /\ Expired(overdue) \in [Tickets -> TicketRow]
         /\ \A k \in Tickets : Expired(overdue)[k] \in TicketRow
BY TicketFields DEF TypeOK, Expired

\* A step that changes only what a request remembers keeps the types.
LEMMA RequestType ==
  ASSUME TypeOK, NEW r \in Requests, NEW R \in RequestRecord, Requested(r, R),
         UNCHANGED <<travel, ticket, paymentQr, refunded, notice, run,
                     commission, paid, stray, revived>>
  PROVE  TypeOK'
BY DEF TypeOK, Requested

\* Every handler keeps every row of its type.
LEMMA TypesKept ==
  ASSUME TypeOK, QrInv, ReadingInv, [Next]_vars
  PROVE  TypeOK'
<1>1. ASSUME NEW k \in Tickets, NEW v \in Travels, NEW kind \in Kinds,
             Reserve(k, v, kind)
      PROVE TypeOK'
  <2>1. [NoTicket EXCEPT !.status = "unpaid", !.seats = TRUE, !.kind = kind,
                         !.travel = v] \in TicketRow
    BY RowTypes DEF TicketRow
  <2> QED
    BY <1>1, <2>1 DEF TypeOK, Reserve, Sets
<1>2. ASSUME NEW k \in Tickets, PayFromWallet(k) \/ ConfirmCash(k)
      PROVE TypeOK'
  <2>1. [ticket[k] EXCEPT !.status = "sold"] \in TicketRow
    BY TicketFields DEF TypeOK
  <2> QED
    BY <1>2, <2>1 DEF TypeOK, PayFromWallet, ConfirmCash, Sets, PaysFor
<1>3. ASSUME NEW q \in QRs, NEW k \in Tickets, AskBank(q, k)  PROVE TypeOK'
  <2>1. [status |-> "asked", ticket |-> k] \in QrRow
    BY DEF QrRow
  <2> QED
    BY <1>3, <2>1 DEF TypeOK, AskBank
<1>4. ASSUME NEW q \in QRs, BankFails(q)  PROVE TypeOK'
  BY <1>4, RowTypes DEF TypeOK, BankFails
<1>5. ASSUME NEW q \in QRs, SaveQr(q)  PROVE TypeOK'
  <2>1. paymentQr[q] \in QrRow /\ paymentQr[q].ticket \in Tickets
    BY <1>5 DEF TypeOK, QrInv, SaveQr
  <2>2. [paymentQr[q] EXCEPT !.status = "pending"] \in QrRow
    BY <2>1 DEF QrRow
  <2>3. [ticket[paymentQr[q].ticket] EXCEPT !.qr = q, !.status = "unpaid"]
          \in TicketRow
    BY <2>1, TicketFields DEF TypeOK
  <2>4. paymentQr' \in [QRs -> QrRow] /\ ticket' \in [Tickets -> TicketRow]
    BY <1>5, <2>2, <2>3 DEF TypeOK, SaveQr, Sets
  <2> QED
    BY <1>5, <2>4 DEF TypeOK, SaveQr, GoStray
<1>6. ASSUME NEW n \in Notices, NEW q \in QRs, StartNotice(n, q)  PROVE TypeOK'
  <2>1. PICK k \in Tickets \cup {Null} :
          notice' = [notice EXCEPT ![n] =
            [qr |-> q, ticket |-> k,
             seats |-> IF k = Null THEN FALSE ELSE ticket[k].seats]]
    BY <1>6 DEF StartNotice
  <2>2. (IF k = Null THEN FALSE ELSE ticket[k].seats) \in BOOLEAN
    BY DEF TypeOK, TicketRow
  <2>3. [qr |-> q, ticket |-> k,
         seats |-> IF k = Null THEN FALSE ELSE ticket[k].seats] \in NoticeRecord
    BY <2>2 DEF NoticeRecord
  <2> QED
    BY <1>6, <2>1, <2>3 DEF TypeOK, StartNotice
<1>7. ASSUME NEW n \in Notices, EndNotice(n)  PROVE TypeOK'
  <2>1. notice[n] \in NoticeRecord /\ notice[n].qr \in QRs
    BY <1>7 DEF TypeOK, EndNotice, NoticeRecord
  <2>2. paymentQr[notice[n].qr] \in QrRow
        /\ paymentQr[notice[n].qr].ticket \in Tickets
    BY <1>7, <2>1 DEF TypeOK, QrInv, EndNotice
  <2> DEFINE k == paymentQr[notice[n].qr].ticket
             row == [ticket[k] EXCEPT !.status = "sold",
                                      !.seats = notice[n].seats]
  <2>3. row \in TicketRow
    BY <2>1, <2>2, TicketFields DEF TypeOK, NoticeRecord
  <2>4. [paymentQr[notice[n].qr] EXCEPT !.status = "paid"] \in QrRow
    BY <2>2 DEF QrRow
  <2>5. ticket' \in [Tickets -> TicketRow]
    BY <1>7, <2>3 DEF EndNotice, Sets, TypeOK
  <2>6. paymentQr' \in [QRs -> QrRow]
    BY <1>7, <2>4 DEF EndNotice, TypeOK
  <2> QED
    BY <1>7, <2>2, <2>5, <2>6, RowTypes DEF TypeOK, EndNotice, PaysFor
<1>8. ASSUME NEW k \in Tickets, CancelInApp(k) \/ CancelInOffice(k)
      PROVE TypeOK'
  <2>1. Cancelled(k) \in TicketRow
    BY TicketFields DEF Cancelled, TypeOK
  <2>2. ASSUME NEW q \in QRs
        PROVE [paymentQr[q] EXCEPT !.status = "cancelled"] \in QrRow
    BY DEF TypeOK, QrRow
  <2>3. paymentQr' \in [QRs -> QrRow]
    BY <1>8, <2>2 DEF CancelInApp, CancelInOffice, TypeOK
  <2> QED
    BY <1>8, <2>1, <2>3 DEF CancelInApp, CancelInOffice, TypeOK, Sets
<1>9. ASSUME NEW r \in Requests, NEW v \in Travels,
             NEW overdue \in SUBSET Tickets, StartExpiry(r, v, overdue)
      PROVE TypeOK'
  <2>1. [Idle EXCEPT !.op = "expiry", !.travel = v, !.overdue = overdue]
          \in RequestRecord
    BY DEF Idle, RequestRecord
  <2> QED
    BY <1>9, <2>1, RequestType DEF StartExpiry
<1>10. ASSUME NEW r \in Requests, EndExpiry(r)  PROVE TypeOK'
  BY <1>10, ExpiredType, RowTypes DEF TypeOK, EndExpiry, GoStray, Requested
<1>11. ASSUME NEW r \in Requests, NEW v \in Travels,
              StartClose(r, v) \/ StartCancelTravel(r, v)
       PROVE TypeOK'
  <2>1. request[r].overdue \subseteq Tickets
    BY DEF TypeOK, RequestRecord
  <2>2. \A x : Found(v, x) \subseteq Tickets
    BY DEF Found, Of
  <2>3. PICK R \in RequestRecord : Requested(r, R)
    BY <1>11, <2>1, <2>2 DEF StartClose, StartCancelTravel, RequestRecord
  <2> QED
    BY <1>11, <2>3, RequestType DEF StartClose, StartCancelTravel
<1>12. ASSUME NEW r \in Requests, EndClose(r)  PROVE TypeOK'
  <2>1. /\ request[r].sold \subseteq Tickets /\ request[r].ended \subseteq Tickets
        /\ request[r].travel \in Travels
    BY <1>12 DEF TypeOK, RequestRecord, ReadingInv, EndClose
  <2>2. [status |-> "closed", counted |-> request[r].sold] \in TravelRow
    BY <2>1 DEF TravelRow
  <2>3. ticket' \in [Tickets -> TicketRow]
    BY <1>12, TicketFields, ExpiredType DEF EndClose, TypeOK
  <2> QED
    BY <1>12, <2>1, <2>2, <2>3, RowTypes
       DEF EndClose, TypeOK, GoStray, Requested
<1>13. ASSUME NEW r \in Requests, EndCancelTravel(r)  PROVE TypeOK'
  <2>1. [status |-> "cancelled", counted |-> {}] \in TravelRow
    BY DEF TravelRow
  <2>2. ASSUME NEW k \in Tickets
        PROVE [ticket[k] EXCEPT !.status = "cancelled", !.seats = FALSE,
                                !.deleted = @ \/ k \in request[r].ended]
                \in TicketRow
    <3>1. ticket[k] \in TicketRow
      BY DEF TypeOK
    <3>2. (ticket[k].deleted \/ k \in request[r].ended) \in BOOLEAN
      OBVIOUS
    <3> QED
      BY <3>1, <3>2, TicketFields
  <2>3. ticket' \in [Tickets -> TicketRow]
    BY <1>13, <2>2, ExpiredType DEF EndCancelTravel
  <2>4. /\ request[r].sold \subseteq Tickets
        /\ stray' \subseteq Tickets
    BY <1>13 DEF EndCancelTravel, Of, TypeOK, RequestRecord
  <2> QED
    BY <1>13, <2>1, <2>3, <2>4, RowTypes DEF EndCancelTravel, TypeOK, Requested
<1>14. ASSUME NEW r \in Requests, NEW v \in Travels, StartAssignStaff(r, v)
       PROVE TypeOK'
  <2>1. [Idle EXCEPT !.op = "staff", !.travel = v] \in RequestRecord
    BY DEF Idle, RequestRecord
  <2> QED
    BY <1>14, <2>1, RequestType DEF StartAssignStaff
<1>15. ASSUME NEW r \in Requests, EndAssignStaff(r)  PROVE TypeOK'
  <2>1. [status |-> "active", counted |-> {}] \in TravelRow
    BY DEF TravelRow
  <2>2. request[r].travel \in Travels
    BY <1>15 DEF ReadingInv, EndAssignStaff
  <2> QED
    BY <1>15, <2>1, <2>2, RowTypes DEF EndAssignStaff, TypeOK, Requested
<1>16. ASSUME NEW r \in Requests, RollBack(r)  PROVE TypeOK'
  BY <1>16, RowTypes, RequestType DEF RollBack
<1>17. ASSUME NEW r \in Runs, StartRun(r)  PROVE TypeOK'
  <2>1. run'[r] \in RunRecord
    BY <1>17 DEF StartRun, TypeOK, RunRecord
  <2> QED
    BY <1>17, <2>1 DEF StartRun, TypeOK
<1>18. ASSUME NEW r \in Runs, NEW v \in Travels, SaveCommission(r, v)
       PROVE TypeOK'
  <2>1. run[r] \in RunRecord
    BY DEF TypeOK
  <2>2. [run[r] EXCEPT !.todo = @ \ {v}] \in RunRecord
    BY <2>1 DEF RunRecord
  <2>3. [made |-> TRUE, counted |-> run[r].counted \cap Of(v),
         cancelled |-> run[r].cancelled \cap Of(v)] \in CommissionRow
    BY DEF CommissionRow, Of
  <2> QED
    BY <1>18, <2>2, <2>3, RowTypes DEF SaveCommission, TypeOK
<1>19. CASE UNCHANGED vars
  BY <1>19 DEF vars, TypeOK
<1> QED
  BY <1>1, <1>2, <1>3, <1>4, <1>5, <1>6, <1>7, <1>8, <1>9, <1>10, <1>11, <1>12,
     <1>13, <1>14, <1>15, <1>16, <1>17, <1>18, <1>19 DEF Next

-----------------------------------------------------------------------------
(* The invariant, ticket by ticket.                                        *)

Pay(k) ==
  /\ ticket[k].status = "none" <=> ticket[k].travel = Null
  /\ ticket[k].status = "none" => k \notin paid
  /\ k \notin paid => /\ ticket[k].status # "sold"
                      /\ ticket[k].status = "cancelled" => ticket[k].deleted
                      /\ k \notin refunded
  /\ k \in paid /\ k \notin stray => Settled(k)

Reads(r, k) ==
  /\ k \in request[r].overdue \cup request[r].sold \cup request[r].ended
            \cup request[r].cancelled =>
       ticket[k].travel = request[r].travel
  /\ k \in request[r].sold \/ k \in request[r].cancelled => k \in paid

Closes(r, k) ==
  request[r].op = "close" =>
    /\ k \in request[r].sold =>
         \/ k \in stray
         \/ /\ ticket[k].travel = request[r].travel
            /\ ~ticket[k].deleted /\ ticket[k].status = "sold"
    /\ k \in request[r].cancelled =>
         \/ k \in stray
         \/ /\ ticket[k].travel = request[r].travel
            /\ ~ticket[k].deleted /\ ticket[k].status = "cancelled"
    /\ ticket[k].travel = request[r].travel /\ ~ticket[k].deleted
         /\ ticket[k].status \in {"unpaid", "ended"} =>
         k \in request[r].ended \/ k \in request[r].overdue \/ k \in stray
    /\ ticket[k].travel = request[r].travel /\ k \in paid /\ k \notin stray =>
         \/ k \in request[r].sold \/ k \in request[r].cancelled
         \/ k \in request[r].ended \/ k \in request[r].overdue

Totals(v, k) ==
  k \in travel[v].counted =>
    /\ ticket[k].travel = v /\ k \in paid
    /\ travel[v].status = "closed" /\ App(k) => ticket[k].status # "cancelled"

Charges(v, counted, cancelled, k) ==
  ticket[k].travel = v =>
    /\ k \in counted \/ k \in cancelled => App(k) /\ k \in paid
    /\ ~(k \in counted /\ k \in cancelled)
    /\ travel[v].status = "closed" /\ v \notin revived
       /\ App(k) /\ k \notin stray =>
         /\ k \in counted <=> k \in travel[v].counted
         /\ k \in cancelled <=> /\ ~ticket[k].deleted
                                /\ ticket[k].status = "cancelled"

Commissioned(v, k) ==
  /\ k \in commission[v].counted \/ k \in commission[v].cancelled
       => ticket[k].travel = v
  /\ commission[v].made =>
       Charges(v, commission[v].counted, commission[v].cancelled, k)

Listed(k) ==
  \A r \in Runs : k \in run[r].counted \/ k \in run[r].cancelled => k \in paid

Reported(v, k) ==
  \A r \in Runs : v \in run[r].todo =>
    Charges(v, run[r].counted, run[r].cancelled, k)

TicketInv(k) ==
  /\ Pay(k) /\ Listed(k)
  /\ \A r \in Requests : Reads(r, k) /\ Closes(r, k)
  /\ \A v \in Travels : Totals(v, k) /\ Commissioned(v, k) /\ Reported(v, k)

\* What does not depend on the tickets.
RequestInv(r) ==
  /\ request[r].op = "none" => request[r] = Idle
  /\ request[r].op # "none" => request[r].travel \in Travels
  /\ request[r].op = "close" =>
       /\ travel[request[r].travel].status = "active"
       /\ \A s \in Requests : request[s].op = "close"
            /\ request[s].travel = request[r].travel => s = r

TravelInv(v) ==
  /\ commission[v].made /\ v \notin revived => travel[v].status # "active"
  /\ ~commission[v].made =>
       commission[v].counted = {} /\ commission[v].cancelled = {}
  /\ \A r \in Runs : v \in run[r].todo /\ v \notin revived =>
       travel[v].status # "active"

ByTickets == /\ QrInv
             /\ \A r \in Requests : RequestInv(r)
             /\ \A v \in Travels : TravelInv(v)
             /\ \A k \in Tickets : TicketInv(k)

\* The two forms agree.
LEMMA ByTicket == TypeOK => (SettlementInv <=> ByTickets)
<1> SUFFICES ASSUME TypeOK  PROVE SettlementInv <=> ByTickets
  OBVIOUS
<1>1. /\ stray \subseteq Tickets /\ paid \subseteq Tickets
      /\ \A r \in Requests : /\ request[r].overdue \subseteq Tickets
                             /\ request[r].sold \subseteq Tickets
                             /\ request[r].ended \subseteq Tickets
                             /\ request[r].cancelled \subseteq Tickets
      /\ \A v \in Travels : /\ travel[v].counted \subseteq Tickets
                            /\ commission[v].counted \subseteq Tickets
                            /\ commission[v].cancelled \subseteq Tickets
  BY DEF TypeOK, RequestRecord, TravelRow, CommissionRow
<1>2. PaymentInv <=> \A k \in Tickets : Pay(k)
  BY <1>1 DEF PaymentInv, Pay
<1>3. CloseInv <=> \A r \in Requests :
        /\ request[r].op = "close" =>
             /\ travel[request[r].travel].status = "active"
             /\ \A s \in Requests : request[s].op = "close"
                  /\ request[s].travel = request[r].travel => s = r
        /\ \A k \in Tickets : Closes(r, k)
  <2>1. ASSUME NEW r \in Requests
        PROVE  /\ request[r].sold \subseteq Found(request[r].travel, "sold")
                                            \cup stray
                 <=> \A k \in Tickets : k \in request[r].sold =>
                       \/ k \in stray
                       \/ /\ ticket[k].travel = request[r].travel
                          /\ ~ticket[k].deleted /\ ticket[k].status = "sold"
               /\ request[r].cancelled
                   \subseteq Found(request[r].travel, "cancelled") \cup stray
                 <=> \A k \in Tickets : k \in request[r].cancelled =>
                       \/ k \in stray
                       \/ /\ ticket[k].travel = request[r].travel
                          /\ ~ticket[k].deleted
                          /\ ticket[k].status = "cancelled"
    BY <1>1, <2>1 DEF Found, Of
  <2>2. ASSUME NEW r \in Requests, NEW v
        PROVE  /\ Found(v, "unpaid") \cup Found(v, "ended")
                   \subseteq request[r].ended \cup request[r].overdue \cup stray
                 <=> \A k \in Tickets :
                       ticket[k].travel = v /\ ~ticket[k].deleted
                         /\ ticket[k].status \in {"unpaid", "ended"} =>
                       \/ k \in request[r].ended \/ k \in request[r].overdue
                       \/ k \in stray
               /\ (Of(v) \cap paid) \ stray
                   \subseteq request[r].sold \cup request[r].cancelled
                       \cup request[r].ended \cup request[r].overdue
                 <=> \A k \in Tickets :
                       ticket[k].travel = v /\ k \in paid /\ k \notin stray =>
                       \/ k \in request[r].sold \/ k \in request[r].cancelled
                       \/ k \in request[r].ended \/ k \in request[r].overdue
    BY <1>1, <2>2 DEF Found, Of
  <2> QED
    BY <2>1, <2>2 DEF CloseInv, Closes
<1>4. ReadingInv <=> \A r \in Requests :
        /\ request[r].op = "none" => request[r] = Idle
        /\ request[r].op # "none" => request[r].travel \in Travels
        /\ \A k \in Tickets : Reads(r, k)
  <2>1. \A r \in Requests : request[r] = Idle =>
          /\ request[r].overdue = {} /\ request[r].sold = {}
          /\ request[r].ended = {} /\ request[r].cancelled = {}
    BY DEF Idle
  <2> QED
    BY <1>1, <2>1 DEF ReadingInv, Reads, Of
<1>5. TotalsInv <=> \A v \in Travels : \A k \in Tickets : Totals(v, k)
  BY <1>1 DEF TotalsInv, Totals, Of
<1>6. \A v \in Travels : \A c, d :
        Charged(v, c, d) <=> /\ v \notin revived => travel[v].status # "active"
                             /\ \A k \in Tickets : Charges(v, c, d, k)
  BY DEF Charged, Charges, Of, Found
<1>7. RunInv <=>
        /\ \A k \in Tickets : Listed(k)
        /\ \A v \in Travels :
             /\ \A r \in Runs : v \in run[r].todo /\ v \notin revived =>
                  travel[v].status # "active"
             /\ \A k \in Tickets : Reported(v, k)
  <2>1. \A r \in Runs : /\ run[r].todo \subseteq Travels
                        /\ run[r].counted \subseteq Tickets
                        /\ run[r].cancelled \subseteq Tickets
    BY DEF TypeOK, RunRecord
  <2>2. (\A r \in Runs : run[r].counted \cup run[r].cancelled \subseteq paid)
          <=> \A k \in Tickets : Listed(k)
    BY <2>1 DEF Listed
  <2>3. (\A r \in Runs : \A v \in run[r].todo :
           Charged(v, run[r].counted, run[r].cancelled))
          <=> \A v \in Travels :
                /\ \A r \in Runs : v \in run[r].todo /\ v \notin revived =>
                     travel[v].status # "active"
                /\ \A k \in Tickets : Reported(v, k)
    BY <2>1, <1>6 DEF Reported
  <2> QED
    BY <2>2, <2>3 DEF RunInv
<1>8. CommissionInv <=> \A v \in Travels :
        /\ commission[v].made /\ v \notin revived => travel[v].status # "active"
        /\ ~commission[v].made =>
             commission[v].counted = {} /\ commission[v].cancelled = {}
        /\ \A k \in Tickets : Commissioned(v, k)
  BY <1>1, <1>6 DEF CommissionInv, Commissioned, Of
<1> QED
  BY <1>2, <1>3, <1>4, <1>5, <1>7, <1>8
     DEF SettlementInv, ByTickets, TravelInv, RequestInv, TicketInv

\* The same of the next state.
LEMMA ByTicketNext == TypeOK' => (SettlementInv' <=> ByTickets')
BY ByTicket, PTL

\* What every step starts from.
LEMMA Before ==
  ASSUME SettlementInv
  PROVE  /\ TypeOK /\ QrInv
         /\ \A r \in Requests : RequestInv(r)
         /\ \A v \in Travels : TravelInv(v)
         /\ \A k \in Tickets : ticket[k] \in TicketRow /\ TicketInv(k)
BY ByTicket DEF SettlementInv, ByTickets, TypeOK

\* What every step has to establish.
LEMMA After ==
  ASSUME TypeOK', QrInv', \A r \in Requests : RequestInv(r)',
         \A v \in Travels : TravelInv(v)', \A k \in Tickets : TicketInv(k)'
  PROVE  SettlementInv'
BY ByTicketNext DEF ByTickets

\* What a commission has charged for ticket k stays right if the ticket does
\* not change, or does not count.
LEMMA ChargesKept ==
  ASSUME NEW v, NEW k, NEW c, NEW d, Charges(v, c, d, k),
         ticket'[k].travel = ticket[k].travel,
         ticket'[k].kind = ticket[k].kind,
         k \in paid => k \in paid',
         ticket[k].travel = v /\ travel'[v].status = "closed"
           /\ v \notin revived' /\ App(k) /\ k \notin stray' =>
           /\ travel[v].status = "closed" /\ v \notin revived
           /\ k \notin stray
           /\ k \in travel'[v].counted <=> k \in travel[v].counted
           /\ (~ticket'[k].deleted /\ ticket'[k].status = "cancelled")
                <=> (~ticket[k].deleted /\ ticket[k].status = "cancelled")
  PROVE  Charges(v, c, d, k)'
BY DEF Charges, App

-----------------------------------------------------------------------------
(* Steps on one ticket.                                                    *)

\* A step that writes one ticket leaves what holds of the others alone.
LEMMA OneTicket ==
  ASSUME SettlementInv, TypeOK', QrInv', NEW k \in Tickets, NEW row,
         ticket' = [ticket EXCEPT ![k] = row],
         \A j \in Tickets \ {k} : /\ j \in refunded' <=> j \in refunded
                                  /\ j \in paid' <=> j \in paid
                                  /\ j \in stray' <=> j \in stray,
         UNCHANGED <<travel, request, run, commission, revived>>,
         TicketInv(k)'
  PROVE  SettlementInv'
<1>1. /\ TypeOK
      /\ \A r \in Requests : RequestInv(r)
      /\ \A v \in Travels : TravelInv(v)
      /\ \A j \in Tickets : TicketInv(j)
  BY Before
<1>2. \A r \in Requests : RequestInv(r)'
  BY <1>1 DEF RequestInv
<1>3. \A v \in Travels : TravelInv(v)'
  BY <1>1 DEF TravelInv
<1>4. ASSUME NEW j \in Tickets \ {k}  PROVE TicketInv(j)'
  <2>1. ticket'[j] = ticket[j] /\ TicketInv(j)
    BY <1>1 DEF TypeOK
  <2>2. Pay(j)' /\ Listed(j)'
    BY <2>1 DEF TicketInv, Pay, Settled, App, Listed
  <2>3. ASSUME NEW r \in Requests  PROVE Reads(r, j)' /\ Closes(r, j)'
    BY <2>1 DEF TicketInv, Reads, Closes
  <2>4. ASSUME NEW v \in Travels
        PROVE  Totals(v, j)' /\ Commissioned(v, j)' /\ Reported(v, j)'
    <3>1. Totals(v, j)'
      BY <2>1 DEF TicketInv, Totals, App
    <3>2. ASSUME NEW c, NEW d, Charges(v, c, d, j)  PROVE Charges(v, c, d, j)'
      BY <2>1, <3>2, ChargesKept
    <3>3. Commissioned(v, j)' /\ Reported(v, j)'
      BY <2>1, <3>2 DEF TicketInv, Commissioned, Reported
    <3> QED
      BY <3>1, <3>3
  <2> QED
    BY <2>2, <2>3, <2>4 DEF TicketInv
<1> QED
  BY <1>2, <1>3, <1>4, After

\* A payment that makes the ticket SOLD or leaves its status: unless it goes
\* astray it finds the ticket SOLD already, or unpaid and on sale.
LEMMA Payment ==
  ASSUME SettlementInv, TypeOK', QrInv', NEW k \in Tickets, NEW row,
         ticket' = [ticket EXCEPT ![k] = row],
         paid' = paid \cup {k}, stray' \in {stray, stray \cup {k}},
         row.deleted = ticket[k].deleted, row.travel = ticket[k].travel,
         row.kind = ticket[k].kind, ticket[k].status # "none",
         row.status \in {"sold", ticket[k].status},
         k \notin stray' => /\ row.status = "sold" /\ ~ticket[k].deleted
                            /\ \/ ticket[k].status = "sold"
                               \/ ticket[k].status = "unpaid" /\ OnSale(k),
         UNCHANGED <<travel, refunded, request, run, commission, revived>>
  PROVE  SettlementInv'
<1>1. ticket'[k] = row /\ TicketInv(k) /\ TypeOK
  BY Before DEF TypeOK
<1>2. /\ k \in paid' /\ (k \in stray => k \in stray')
      /\ \A j \in Tickets \ {k} : (j \in paid' <=> j \in paid)
                                 /\ (j \in stray' <=> j \in stray)
  OBVIOUS
<1>3. k \notin stray' =>
        \/ ticket[k].status = "sold" /\ k \in paid /\ Settled(k)
        \/ /\ ticket[k].status = "unpaid" /\ OnSale(k)
           /\ k \notin paid /\ k \notin refunded
  BY <1>1, <1>2 DEF TicketInv, Pay, Settled
<1>4. Pay(k)' /\ Listed(k)'
  <2>1. k \notin stray' => Settled(k)'
    BY <1>1, <1>2, <1>3 DEF Settled, OnSale, App
  <2> QED
    BY <1>1, <1>2, <2>1 DEF TicketInv, Pay, Listed
<1>5. ASSUME NEW r \in Requests  PROVE Reads(r, k)' /\ Closes(r, k)'
  <2>1. Reads(r, k) /\ Closes(r, k)
    BY <1>1 DEF TicketInv
  <2> QED
    BY <1>1, <1>2, <1>3, <2>1 DEF Reads, Closes
<1>6. ASSUME NEW v \in Travels
      PROVE  Totals(v, k)' /\ Commissioned(v, k)' /\ Reported(v, k)'
  <2>1. Totals(v, k)'
    BY <1>1, <1>2 DEF TicketInv, Totals, App
  <2>2. ASSUME NEW c, NEW d, Charges(v, c, d, k)  PROVE Charges(v, c, d, k)'
    BY <1>1, <1>2, <2>2, ChargesKept DEF OnSale
  <2>3. Commissioned(v, k)' /\ Reported(v, k)'
    BY <1>1, <2>2 DEF TicketInv, Commissioned, Reported
  <2> QED
    BY <2>1, <2>3
<1>7. TicketInv(k)'
  BY <1>4, <1>5, <1>6 DEF TicketInv
<1> QED
  BY <1>2, <1>7, OneTicket

\* PayFromWallet, ConfirmCash.
LEMMA CounterPayments ==
  ASSUME SettlementInv, TypeOK', QrInv', NEW k \in Tickets,
         PayFromWallet(k) \/ ConfirmCash(k)
  PROVE  SettlementInv'
<1> DEFINE row == [ticket[k] EXCEPT !.status = "sold"]
<1>1. /\ ticket' = [ticket EXCEPT ![k] = row]
      /\ paid' = paid \cup {k} /\ stray' \in {stray, stray \cup {k}}
      /\ k \notin stray' => OnSale(k)
      /\ ticket[k].status = "unpaid" /\ ~ticket[k].deleted
  BY DEF PayFromWallet, ConfirmCash, PaysFor, Reserved, Sets
<1>2. ticket[k] \in TicketRow
  BY Before
<1>3. /\ row.status = "sold" /\ row.deleted = ticket[k].deleted
      /\ row.travel = ticket[k].travel /\ row.kind = ticket[k].kind
  BY <1>2 DEF TicketRow
<1> HIDE DEF row
<1>4. UNCHANGED <<travel, refunded, request, run, commission, revived>>
  BY DEF PayFromWallet, ConfirmCash
<1> QED
  BY <1>1, <1>3, <1>4, Payment

\* The bank's notification, duplicated and late ones included.
LEMMA NoticeSteps ==
  ASSUME SettlementInv, TypeOK', QrInv', NEW n \in Notices, EndNotice(n)
  PROVE  SettlementInv'
<1> DEFINE q == notice[n].qr
           k == paymentQr[q].ticket
           soldRow == [ticket[k] EXCEPT !.status = "sold",
                                        !.seats = notice[n].seats]
           row == IF notice[n].ticket = k THEN soldRow ELSE ticket[k]
<1>1. /\ TypeOK /\ QrInv /\ q \in QRs
      /\ k \in Tickets /\ ticket[k].status # "none"
  <2>1. TypeOK /\ QrInv
    BY Before
  <2>2. q \in QRs
    BY <2>1 DEF EndNotice, TypeOK, NoticeRecord
  <2>3. paymentQr[q].status # "none"
    BY <2>1, <2>2 DEF EndNotice, QrInv
  <2> QED
    BY <2>1, <2>2, <2>3 DEF QrInv
<1>2. /\ ticket[k] \in TicketRow
      /\ soldRow.status = "sold" /\ soldRow.deleted = ticket[k].deleted
      /\ soldRow.travel = ticket[k].travel /\ soldRow.kind = ticket[k].kind
  BY <1>1 DEF TypeOK, TicketRow
<1>3. ticket' = [ticket EXCEPT ![k] = row]
  <2>1. CASE notice[n].ticket = k
    BY <2>1 DEF EndNotice, Sets
  <2>2. CASE notice[n].ticket # k
    BY <1>1, <2>2 DEF EndNotice, TypeOK
  <2> QED
    BY <2>1, <2>2
<1>4. /\ paid' = paid \cup {k} /\ stray' \in {stray, stray \cup {k}}
      /\ k \notin stray' => /\ notice[n].ticket = k /\ ~ticket[k].deleted
                            /\ \/ ticket[k].status = "sold"
                               \/ ticket[k].status = "unpaid" /\ OnSale(k)
  BY DEF EndNotice, PaysFor
<1>5. /\ notice[n].ticket = k => row = soldRow
      /\ row \in {soldRow, ticket[k]}
  BY Zenon
<1>6. UNCHANGED <<travel, refunded, request, run, commission, revived>>
  BY DEF EndNotice
<1> HIDE DEF q, k, soldRow, row
<1>7. /\ row.deleted = ticket[k].deleted /\ row.travel = ticket[k].travel
      /\ row.kind = ticket[k].kind
      /\ row.status \in {"sold", ticket[k].status}
      /\ k \notin stray' => row.status = "sold"
  BY <1>2, <1>4, <1>5
<1> QED
  BY <1>1, <1>3, <1>4, <1>6, <1>7, Payment

\* SaveQr revives at most what nobody has paid for or refunded, or else the
\* ticket goes astray.
LEMMA SaveQrStep ==
  ASSUME SettlementInv, TypeOK', QrInv', NEW q \in QRs, SaveQr(q)
  PROVE  SettlementInv'
<1>0. PICK k \in Tickets : k = paymentQr[q].ticket
  BY Before DEF SaveQr, QrInv
<1> DEFINE row == [ticket[k] EXCEPT !.qr = q, !.status = "unpaid"]
<1>1. /\ TypeOK /\ ticket[k].status # "none"
      /\ ticket' = [ticket EXCEPT ![k] = row]
      /\ stray' = stray \cup ({k} \cap paid)
      /\ UNCHANGED <<travel, refunded, request, run, commission, paid, revived>>
  BY <1>0, Before DEF SaveQr, QrInv, Sets, GoStray
<1>2. /\ ticket[k] \in TicketRow /\ TicketInv(k)
      /\ row.status = "unpaid" /\ row.deleted = ticket[k].deleted
      /\ row.travel = ticket[k].travel /\ row.kind = ticket[k].kind
  BY <1>1, Before DEF TicketRow
<1> HIDE DEF row
<1>3. ticket'[k] = row /\ (k \in paid => k \in stray')
  BY <1>1 DEF TypeOK
<1>4. k \notin stray' =>
        /\ k \notin paid /\ k \notin stray
        /\ ticket[k].status # "sold"
        /\ ticket[k].status = "cancelled" => ticket[k].deleted
  BY <1>1, <1>2, <1>3 DEF TicketInv, Pay
<1>5. Pay(k)' /\ Listed(k)'
  BY <1>1, <1>2, <1>3 DEF TicketInv, Pay, Listed
<1>6. ASSUME NEW r \in Requests  PROVE Reads(r, k)' /\ Closes(r, k)'
  <2>1. Reads(r, k) /\ Closes(r, k)
    BY <1>2 DEF TicketInv
  <2>2. ticket[k].status \in {"unpaid", "sold", "cancelled", "ended"}
    BY <1>1, <1>2 DEF TicketRow
  <2> QED
    BY <1>1, <1>2, <1>3, <1>4, <2>1, <2>2 DEF Reads, Closes
<1>7. ASSUME NEW v \in Travels
      PROVE  Totals(v, k)' /\ Commissioned(v, k)' /\ Reported(v, k)'
  <2>1. Totals(v, k)'
    BY <1>1, <1>2, <1>3 DEF TicketInv, Totals, App
  <2>2. ASSUME NEW c, NEW d, Charges(v, c, d, k)  PROVE Charges(v, c, d, k)'
    BY <1>1, <1>2, <1>3, <1>4, <2>2, ChargesKept
  <2>3. Commissioned(v, k)' /\ Reported(v, k)'
    BY <1>1, <1>2, <1>3, <2>2 DEF TicketInv, Commissioned, Reported
  <2> QED
    BY <2>1, <2>3
<1>8. TicketInv(k)'
  BY <1>5, <1>6, <1>7 DEF TicketInv
<1>9. \A j \in Tickets \ {k} : j \in stray' <=> j \in stray
  BY <1>1
<1> QED
  BY <1>1, <1>8, <1>9, OneTicket

\* A cancellation of one ticket: no close is under way, and an app ticket
\* that was paid is refunded while its travel is on sale.
LEMMA CancelSteps ==
  ASSUME SettlementInv, TypeOK', QrInv', NEW k \in Tickets,
         CancelInApp(k) \/ CancelInOffice(k)
  PROVE  SettlementInv'
<1> DEFINE row == Cancelled(k)
<1>1. ticket[k] \in TicketRow /\ TicketInv(k) /\ TypeOK
  BY Before
<1>2. /\ row.status = "cancelled"
      /\ row.deleted <=> ticket[k].status = "unpaid"
      /\ row.travel = ticket[k].travel /\ row.kind = ticket[k].kind
  BY <1>1 DEF Cancelled, TicketRow
<1> HIDE DEF row
<1>3. /\ ticket' = [ticket EXCEPT ![k] = row]
      /\ UNCHANGED <<travel, request, run, commission, paid, stray, revived>>
      /\ ticket[k].status \in {"unpaid", "sold"} /\ ~ticket[k].deleted
      /\ Unlocked(ticket[k].travel)
      /\ App(k) => OnSale(k)
      /\ App(k) /\ ticket[k].status = "sold" => k \in refunded'
      /\ ticket[k].status = "unpaid" => (k \in refunded' <=> k \in refunded)
      /\ \A j \in Tickets \ {k} : j \in refunded' <=> j \in refunded
  BY DEF CancelInApp, CancelInOffice, Cancelable, Sets, row
<1>4. /\ ticket'[k] = row
      /\ ticket[k].status = "sold" => k \in paid
      /\ k \in paid /\ k \notin stray =>
           ticket[k].status = "sold" /\ Settled(k)
  BY <1>1, <1>3 DEF TypeOK, TicketInv, Pay, Settled
<1>5. Pay(k)' /\ Listed(k)'
  <2>1. k \in paid /\ k \notin stray => Settled(k)'
    BY <1>2, <1>3, <1>4 DEF Settled, OnSale, App
  <2> QED
    BY <1>1, <1>2, <1>3, <1>4, <2>1 DEF TicketInv, Pay, Listed
<1>6. ASSUME NEW r \in Requests  PROVE Reads(r, k)' /\ Closes(r, k)'
  <2>1. Reads(r, k) /\ Closes(r, k)
    BY <1>1 DEF TicketInv
  <2>2. request[r].op = "close" => request[r].travel # ticket[k].travel
    BY <1>3 DEF Unlocked
  <2> QED
    BY <1>2, <1>3, <1>4, <2>1, <2>2 DEF Reads, Closes
<1>7. ASSUME NEW v \in Travels
      PROVE  Totals(v, k)' /\ Commissioned(v, k)' /\ Reported(v, k)'
  <2>1. Totals(v, k)'
    BY <1>1, <1>2, <1>3, <1>4 DEF TicketInv, Totals, App, OnSale
  <2>2. ASSUME NEW c, NEW d, Charges(v, c, d, k)  PROVE Charges(v, c, d, k)'
    BY <1>1, <1>2, <1>3, <1>4, <2>2, ChargesKept DEF OnSale
  <2>3. Commissioned(v, k)' /\ Reported(v, k)'
    BY <1>1, <1>2, <1>3, <1>4, <2>2 DEF TicketInv, Commissioned, Reported
  <2> QED
    BY <2>1, <2>3
<1>8. TicketInv(k)'
  BY <1>5, <1>6, <1>7 DEF TicketInv
<1> QED
  BY <1>3, <1>8, OneTicket

\* A new ticket of a travel that nobody closes.
LEMMA ReserveStep ==
  ASSUME SettlementInv, TypeOK', QrInv', NEW k \in Tickets, NEW v \in Travels,
         NEW kind \in Kinds, Reserve(k, v, kind)
  PROVE  SettlementInv'
<1> DEFINE row == [NoTicket EXCEPT !.status = "unpaid", !.seats = TRUE,
                                   !.kind = kind, !.travel = v]
<1>1. /\ ticket' = [ticket EXCEPT ![k] = row]
      /\ ticket[k].status = "none"
      /\ travel[v].status = "active" /\ Unlocked(v)
      /\ UNCHANGED <<travel, paymentQr, refunded, request, notice, run,
                     commission, paid, stray, revived>>
  BY DEF Reserve, Sets
<1>2. /\ row.status = "unpaid" /\ row.travel = v /\ ~row.deleted
  BY DEF NoTicket
<1> HIDE DEF row
<1>3. /\ ticket'[k] = row /\ TicketInv(k) /\ TypeOK
      /\ \A r \in Requests : RequestInv(r)
      /\ \A u \in Travels : TravelInv(u)
  BY <1>1, Before DEF TypeOK
<1>4. /\ ticket[k].travel = Null /\ Null \notin Travels
      /\ k \notin paid /\ k \notin refunded
  BY <1>1, <1>3, NullAssumption DEF TicketInv, Pay
<1>5. Pay(k)' /\ Listed(k)'
  BY <1>1, <1>2, <1>3, <1>4 DEF TicketInv, Pay, Listed
<1>6. ASSUME NEW r \in Requests  PROVE Reads(r, k)' /\ Closes(r, k)'
  <2>1. Reads(r, k) /\ RequestInv(r)
    BY <1>3 DEF TicketInv
  <2>2. k \notin request[r].overdue \cup request[r].sold \cup request[r].ended
               \cup request[r].cancelled
    BY <1>4, <2>1 DEF Reads, RequestInv, Idle
  <2>3. request[r].op = "close" => request[r].travel # v
    BY <1>1 DEF Unlocked
  <2> QED
    BY <1>1, <1>2, <1>3, <1>4, <2>2, <2>3 DEF Reads, Closes
<1>7. ASSUME NEW u \in Travels
      PROVE  Totals(u, k)' /\ Commissioned(u, k)' /\ Reported(u, k)'
  <2>1. Totals(u, k)'
    BY <1>1, <1>2, <1>3, <1>4 DEF TicketInv, Totals
  <2>2. ASSUME NEW c, NEW d, k \notin c, k \notin d  PROVE Charges(u, c, d, k)'
    BY <1>1, <1>2, <1>3, <1>4, <2>1, <2>2 DEF Charges, Totals
  <2>3. Commissioned(u, k)' /\ Reported(u, k)'
    BY <1>1, <1>3, <1>4, <2>2
       DEF TicketInv, Commissioned, Reported, Listed
  <2> QED
    BY <2>1, <2>3
<1>8. TicketInv(k)'
  BY <1>5, <1>6, <1>7 DEF TicketInv
<1> QED
  BY <1>1, <1>8, OneTicket

-----------------------------------------------------------------------------
(* Steps that write no ticket.                                             *)

\* AskBank, BankFails, StartNotice and stuttering.
LEMMA QuietSteps ==
  ASSUME SettlementInv, TypeOK', QrInv',
         UNCHANGED <<travel, ticket, refunded, request, run, commission, paid,
                     stray, revived>>
  PROVE  SettlementInv'
<1>1. /\ \A r \in Requests : RequestInv(r)
      /\ \A v \in Travels : TravelInv(v)
      /\ \A k \in Tickets : TicketInv(k)
  BY Before
<1>2. \A r \in Requests : RequestInv(r)'
  BY <1>1 DEF RequestInv
<1>3. \A v \in Travels : TravelInv(v)'
  BY <1>1 DEF TravelInv
<1>4. ASSUME NEW k \in Tickets  PROVE TicketInv(k)'
  <2>1. TicketInv(k)
    BY <1>1
  <2>2. Pay(k)' /\ Listed(k)'
    BY <2>1 DEF TicketInv, Pay, Settled, App, Listed
  <2>3. \A r \in Requests : Reads(r, k)' /\ Closes(r, k)'
    BY <2>1 DEF TicketInv, Reads, Closes
  <2>4. \A v \in Travels :
          Totals(v, k)' /\ Commissioned(v, k)' /\ Reported(v, k)'
    BY <2>1 DEF TicketInv, Totals, App, Commissioned, Reported, Charges
  <2> QED
    BY <2>2, <2>3, <2>4 DEF TicketInv
<1> QED
  BY <1>2, <1>3, <1>4, After

\* A step that changes only what request r remembers.
LEMMA RequestStep ==
  ASSUME SettlementInv, TypeOK', QrInv', NEW r \in Requests, NEW R,
         Requested(r, R),
         UNCHANGED <<travel, ticket, refunded, run, commission, paid, stray,
                     revived>>,
         \A s \in Requests : RequestInv(s)',
         \A k \in Tickets : Reads(r, k)' /\ Closes(r, k)'
  PROVE  SettlementInv'
<1>1. /\ TypeOK
      /\ \A v \in Travels : TravelInv(v)
      /\ \A k \in Tickets : TicketInv(k)
  BY Before
<1>2. \A v \in Travels : TravelInv(v)'
  BY <1>1 DEF TravelInv
<1>3. ASSUME NEW k \in Tickets  PROVE TicketInv(k)'
  <2>1. TicketInv(k)
    BY <1>1
  <2>2. Pay(k)' /\ Listed(k)'
    BY <2>1 DEF TicketInv, Pay, Settled, App, Listed
  <2>3. ASSUME NEW s \in Requests, s # r  PROVE Reads(s, k)' /\ Closes(s, k)'
    <3>1. request'[s] = request[s]
      BY <1>1, <2>3 DEF TypeOK, Requested
    <3> QED
      BY <2>1, <3>1 DEF TicketInv, Reads, Closes
  <2>4. \A v \in Travels :
          Totals(v, k)' /\ Commissioned(v, k)' /\ Reported(v, k)'
    BY <2>1 DEF TicketInv, Totals, App, Commissioned, Reported, Charges
  <2> QED
    BY <2>2, <2>3, <2>4 DEF TicketInv
<1> QED
  BY <1>2, <1>3, After

\* Whoever is not a close disturbs no other request.
LEMMA NotAClose ==
  ASSUME SettlementInv, NEW r \in Requests, NEW R, Requested(r, R),
         travel' = travel, R.op # "close", R.op = "none" => R = Idle,
         R.op # "none" => R.travel \in Travels
  PROVE  \A s \in Requests : RequestInv(s)'
<1>1. TypeOK /\ \A s \in Requests : RequestInv(s)
  BY Before
<1>2. \A s \in Requests : request'[s] = IF s = r THEN R ELSE request[s]
  BY <1>1 DEF TypeOK, Requested
<1> QED
  BY <1>1, <1>2 DEF RequestInv

\* A request that remembers no more than overdue tickets of its travel.
LEMMA SmallRequest ==
  ASSUME SettlementInv, TypeOK', QrInv', NEW r \in Requests, NEW R,
         Requested(r, R),
         UNCHANGED <<travel, ticket, refunded, run, commission, paid, stray,
                     revived>>,
         R.op # "close", R.op = "none" => R = Idle,
         R.op # "none" => R.travel \in Travels,
         R.sold = {}, R.cancelled = {}, R.ended = {},
         \A k \in R.overdue : ticket[k].travel = R.travel
  PROVE  SettlementInv'
<1>1. \A s \in Requests : RequestInv(s)'
  BY NotAClose
<1>2. request'[r] = R
  BY Before DEF TypeOK, Requested
<1>3. \A k \in Tickets : Reads(r, k)' /\ Closes(r, k)'
  BY <1>2 DEF Reads, Closes
<1> QED
  BY <1>1, <1>3, RequestStep

\* StartExpiry, StartAssignStaff and RollBack.
LEMMA SmallRequests ==
  ASSUME SettlementInv, TypeOK', QrInv', NEW r \in Requests,
         \/ RollBack(r)
         \/ \E v \in Travels : StartAssignStaff(r, v)
         \/ \E v \in Travels, overdue \in SUBSET Tickets :
              StartExpiry(r, v, overdue)
  PROVE  SettlementInv'
<1>1. CASE RollBack(r)
  <2>1. /\ Idle.op = "none" /\ Idle.overdue = {}
        /\ Idle.sold = {} /\ Idle.cancelled = {} /\ Idle.ended = {}
    BY DEF Idle
  <2> QED
    BY <1>1, <2>1, SmallRequest DEF RollBack
<1>2. ASSUME NEW v \in Travels, StartAssignStaff(r, v)  PROVE SettlementInv'
  <2> DEFINE R == [Idle EXCEPT !.op = "staff", !.travel = v]
  <2>1. /\ R.op = "staff" /\ R.travel = v /\ R.overdue = {}
        /\ R.sold = {} /\ R.cancelled = {} /\ R.ended = {}
    BY DEF Idle
  <2>2. Requested(r, R)
    BY <1>2 DEF StartAssignStaff
  <2> HIDE DEF R
  <2> QED
    BY <1>2, <2>1, <2>2, SmallRequest DEF StartAssignStaff
<1>3. ASSUME NEW v \in Travels, NEW overdue \in SUBSET Tickets,
             StartExpiry(r, v, overdue)
      PROVE  SettlementInv'
  <2> DEFINE R == [Idle EXCEPT !.op = "expiry", !.travel = v,
                               !.overdue = overdue]
  <2>1. /\ R.op = "expiry" /\ R.travel = v /\ R.overdue = overdue
        /\ R.sold = {} /\ R.cancelled = {} /\ R.ended = {}
    BY DEF Idle
  <2>2. Requested(r, R) /\ \A k \in overdue : ticket[k].travel = v
    BY <1>3 DEF StartExpiry, Found, Of
  <2> HIDE DEF R
  <2> QED
    BY <1>3, <2>1, <2>2, SmallRequest DEF StartExpiry
<1> QED
  BY <1>1, <1>2, <1>3

\* The close and the cancellation read what is there.
LEMMA Readings ==
  ASSUME SettlementInv, TypeOK', QrInv', NEW r \in Requests, NEW v \in Travels,
         StartClose(r, v) \/ StartCancelTravel(r, v)
  PROVE  SettlementInv'
<1>1. /\ TypeOK
      /\ \A s \in Requests : RequestInv(s)
      /\ \A k \in Tickets : TicketInv(k)
  BY Before
<1>2. PICK R :
        /\ Requested(r, R)
        /\ UNCHANGED <<travel, ticket, refunded, run, commission, paid, stray,
                       revived>>
        /\ R.op \in {"close", "cancel"} /\ R.travel = v
        /\ R.overdue = request[r].overdue
        /\ R.sold = Found(v, "sold") \ R.overdue
        /\ R.cancelled \subseteq Found(v, "cancelled")
        /\ R.ended \subseteq Found(v, "unpaid") \cup Found(v, "ended")
        /\ R.op = "close" =>
             /\ R.cancelled = Found(v, "cancelled") \ R.overdue
             /\ R.ended = (Found(v, "unpaid") \cup Found(v, "ended")) \ R.overdue
             /\ travel[v].status = "active" /\ Unlocked(v)
        /\ PastExpiry(r, v)
  BY DEF StartClose, StartCancelTravel
<1>3. \A s \in Requests : request'[s] = IF s = r THEN R ELSE request[s]
  BY <1>1, <1>2 DEF TypeOK, Requested
<1>4. request[r].op # "close"
  BY <1>2 DEF PastExpiry, Idle
<1>5. \A s \in Requests : RequestInv(s)'
  BY <1>1, <1>2, <1>3, <1>4 DEF RequestInv, Unlocked
<1>6. ASSUME NEW k \in Tickets  PROVE Reads(r, k)' /\ Closes(r, k)'
  <2>1. Pay(k) /\ Reads(r, k)
    BY <1>1 DEF TicketInv
  <2>2. k \in R.overdue => ticket[k].travel = v
    BY <1>2, <2>1 DEF PastExpiry, Idle, Reads
  <2>3. \A x : k \in Found(v, x) <=> /\ ticket[k].travel = v
                                     /\ ~ticket[k].deleted
                                     /\ ticket[k].status = x
    BY DEF Found, Of
  <2>4. Reads(r, k)'
    BY <1>2, <1>3, <2>1, <2>2, <2>3 DEF Reads, Pay
  <2>5. Closes(r, k)'
    BY <1>2, <1>3, <2>1, <2>3 DEF Closes, Pay, Settled
  <2> QED
    BY <2>4, <2>5
<1> QED
  BY <1>2, <1>5, <1>6, RequestStep

-----------------------------------------------------------------------------
(* The commits of requests.                                                *)

\* What the other requests, and the one that is done, have read of a ticket
\* stays right if the ticket does not change, or has ended.
LEMMA Done ==
  ASSUME SettlementInv, NEW r \in Requests, Requested(r, Idle),
         NEW k \in Tickets, ticket'[k].travel = ticket[k].travel,
         paid' = paid, k \in stray => k \in stray',
         \/ /\ ticket'[k].status = ticket[k].status
            /\ ticket'[k].deleted = ticket[k].deleted
         \/ /\ k \in paid => k \in stray'
            /\ ticket'[k].deleted
         \/ \A s \in Requests \ {r} :
              request[s].op = "close" => request[s].travel # ticket[k].travel
  PROVE  \A s \in Requests : Reads(s, k)' /\ Closes(s, k)'
<1>1. TypeOK /\ TicketInv(k)
  BY Before
<1>2. request'[r] = Idle /\ \A s \in Requests \ {r} : request'[s] = request[s]
  BY <1>1 DEF TypeOK, Requested
<1>3. Reads(r, k)' /\ Closes(r, k)'
  BY <1>2 DEF Reads, Closes, Idle
<1>4. ASSUME NEW s \in Requests \ {r}  PROVE Reads(s, k)' /\ Closes(s, k)'
  <2>1. Reads(s, k) /\ Closes(s, k) /\ request'[s] = request[s]
    BY <1>1, <1>2 DEF TicketInv
  <2>2. Reads(s, k)'
    BY <2>1 DEF Reads
  <2>3. Closes(s, k)'
    BY <2>1 DEF Reads, Closes
  <2> QED
    BY <2>2, <2>3
<1> QED
  BY <1>3, <1>4

\* The request that is done was not in the way of another.
LEMMA DoneRequests ==
  ASSUME SettlementInv, NEW r \in Requests, Requested(r, Idle),
         \A s \in Requests \ {r} : request[s].op = "close" =>
           travel'[request[s].travel] = travel[request[s].travel]
  PROVE  \A s \in Requests : RequestInv(s)'
<1>1. TypeOK /\ \A s \in Requests : RequestInv(s)
  BY Before
<1>2. request'[r] = Idle /\ \A s \in Requests \ {r} : request'[s] = request[s]
  BY <1>1 DEF TypeOK, Requested
<1>3. RequestInv(r)'
  BY <1>2 DEF RequestInv, Idle
<1>4. ASSUME NEW s \in Requests \ {r}  PROVE RequestInv(s)'
  <2>1. request'[s] = request[s] /\ RequestInv(s)
    BY <1>1, <1>2
  <2>2. \A o \in Requests : request'[o].op = "close" => request'[o] = request[o]
    BY <1>2 DEF Idle
  <2> QED
    BY <2>1, <2>2 DEF RequestInv
<1> QED
  BY <1>3, <1>4

\* A commit moves no money and touches no commission.
Commit == UNCHANGED <<run, commission, paid>>

\* A ticket that was not paid, or that goes astray, is in nobody's books.
LEMMA Astray ==
  ASSUME SettlementInv, Commit, NEW k \in Tickets,
         ticket'[k].travel = ticket[k].travel,
         ticket'[k].kind = ticket[k].kind,
         ticket[k].status # "none", ticket'[k].status # "none",
         k \in paid => k \in stray',
         k \notin paid => /\ ticket'[k].status # "sold"
                          /\ ticket'[k].status = "cancelled"
                               => ticket'[k].deleted
                          /\ k \in refunded' <=> k \in refunded,
         \A v \in Travels : Totals(v, k)'
  PROVE  TicketInv(k)' <=> \A s \in Requests : Reads(s, k)' /\ Closes(s, k)'
<1>1. TicketInv(k)
  BY Before
<1>2. Pay(k)' /\ Listed(k)'
  BY <1>1 DEF TicketInv, Pay, Listed, Commit
<1>3. ASSUME NEW v \in Travels  PROVE Commissioned(v, k)' /\ Reported(v, k)'
  <2>1. Totals(v, k)'
    OBVIOUS
  <2>2. ASSUME NEW c, NEW d, Charges(v, c, d, k)  PROVE Charges(v, c, d, k)'
    BY <2>1, <2>2 DEF Charges, Totals, App, Commit
  <2> QED
    BY <1>1, <2>2 DEF TicketInv, Commissioned, Reported, Commit
<1> QED
  BY <1>2, <1>3 DEF TicketInv

\* A ticket that a commit does not write, of a travel that it does not write.
LEMMA Untouched ==
  ASSUME SettlementInv, Commit, NEW k \in Tickets,
         ticket'[k] = ticket[k], k \in refunded' <=> k \in refunded,
         k \in stray' <=> k \in stray,
         travel' \in [Travels -> TravelRow],
         ticket[k].travel \in Travels =>
           /\ travel'[ticket[k].travel] = travel[ticket[k].travel]
           /\ ticket[k].travel \in revived' <=> ticket[k].travel \in revived,
         \A v \in Travels \ {ticket[k].travel} : k \notin travel'[v].counted
  PROVE  TicketInv(k)' <=> \A s \in Requests : Reads(s, k)' /\ Closes(s, k)'
<1>1. TicketInv(k) /\ TypeOK
  BY Before
<1>2. Pay(k)' /\ Listed(k)'
  <2>1. k \in paid /\ k \notin stray => Settled(k)'
    <3>1. k \in paid => ticket[k].travel \in Travels
      BY <1>1 DEF TicketInv, Pay, TypeOK, TicketRow
    <3> QED
      BY <1>1, <3>1 DEF TicketInv, Pay, Settled, App
  <2> QED
    BY <1>1, <2>1 DEF TicketInv, Pay, Listed, Commit
<1>3. ASSUME NEW v \in Travels
      PROVE  Totals(v, k)' /\ Commissioned(v, k)' /\ Reported(v, k)'
  <2>1. Totals(v, k)'
    BY <1>1 DEF TicketInv, Totals, App, Commit
  <2>2. ASSUME NEW c, NEW d, Charges(v, c, d, k)  PROVE Charges(v, c, d, k)'
    BY <2>2 DEF Charges, App, Commit
  <2>3. Commissioned(v, k)' /\ Reported(v, k)'
    BY <1>1, <2>2 DEF TicketInv, Commissioned, Reported, Commit
  <2> QED
    BY <2>1, <2>3
<1> QED
  BY <1>2, <1>3 DEF TicketInv

\* A listing ends what it has found overdue, paid or not.
LEMMA EndExpiryStep ==
  ASSUME SettlementInv, TypeOK', QrInv', NEW r \in Requests, EndExpiry(r)
  PROVE  SettlementInv'
<1>1. /\ TypeOK /\ TypeOK'
      /\ RequestInv(r)
      /\ \A v \in Travels : TravelInv(v)
      /\ \A k \in Tickets : ticket[k] \in TicketRow /\ TicketInv(k)
  BY Before
<1>2. /\ Requested(r, Idle) /\ Commit
      /\ UNCHANGED <<travel, refunded, revived>>
      /\ request[r].travel \in Travels
      /\ stray' = stray \cup (request[r].overdue \cap paid)
      /\ \A k \in Tickets :
           ticket'[k] = IF k \in request[r].overdue
                        THEN [ticket[k] EXCEPT !.status = "ended",
                                               !.deleted = TRUE, !.seats = FALSE]
                        ELSE ticket[k]
  BY <1>1 DEF EndExpiry, GoStray, Expired, Commit, RequestInv
<1>3. \A s \in Requests : RequestInv(s)'
  BY <1>2, DoneRequests
<1>4. \A v \in Travels : TravelInv(v)'
  BY <1>1, <1>2 DEF TravelInv, Commit
<1>5. ASSUME NEW k \in Tickets  PROVE TicketInv(k)'
  <2>1. CASE k \in request[r].overdue
    <3>1. /\ ticket'[k].status = "ended" /\ ticket'[k].deleted
          /\ ticket'[k].travel = ticket[k].travel
          /\ ticket'[k].kind = ticket[k].kind
      BY <1>1, <1>2, <2>1 DEF TicketRow
    <3>2. ticket[k].status # "none"
      BY <1>1, <1>2, <2>1, NullAssumption DEF TicketInv, Pay, Reads
    <3>3. \A v \in Travels : Totals(v, k)'
      BY <1>1, <1>2, <3>1 DEF TicketInv, Totals, App, Commit
    <3>4. (k \in paid => k \in stray') /\ (k \in stray => k \in stray')
      BY <1>2, <2>1
    <3>5. TicketInv(k)' <=> \A s \in Requests : Reads(s, k)' /\ Closes(s, k)'
      BY <1>2, <3>1, <3>2, <3>3, <3>4, Astray
    <3>6. \A s \in Requests : Reads(s, k)' /\ Closes(s, k)'
      BY <1>2, <3>1, <3>4, Done DEF Commit
    <3> QED
      BY <3>5, <3>6
  <2>2. CASE k \notin request[r].overdue
    <3>1. ticket'[k] = ticket[k] /\ (k \in stray' <=> k \in stray)
      BY <1>2, <2>2
    <3>2. \A v \in Travels \ {ticket[k].travel} : k \notin travel'[v].counted
      BY <1>1, <1>2 DEF TicketInv, Totals
    <3>3. TicketInv(k)' <=> \A s \in Requests : Reads(s, k)' /\ Closes(s, k)'
      BY <1>1, <1>2, <3>1, <3>2, Untouched DEF TypeOK
    <3>4. \A s \in Requests : Reads(s, k)' /\ Closes(s, k)'
      BY <1>2, <3>1, Done DEF Commit
    <3> QED
      BY <3>3, <3>4
  <2> QED
    BY <2>1, <2>2
<1> QED
  BY <1>3, <1>4, <1>5, After
\* The close writes what it has read: of what was paid and does not go astray
\* it has counted the SOLD tickets, and leaves the CANCELLED ones.
LEMMA EndCloseStep ==
  ASSUME SettlementInv, TypeOK', QrInv', NEW r \in Requests, EndClose(r)
  PROVE  SettlementInv'
<1>0. PICK v : v = request[r].travel
  OBVIOUS
<1>1. /\ TypeOK /\ TypeOK'
      /\ \A s \in Requests : RequestInv(s)
      /\ \A u \in Travels : TravelInv(u)
      /\ \A k \in Tickets : ticket[k] \in TicketRow /\ TicketInv(k)
  BY Before
<1>2. /\ Requested(r, Idle) /\ Commit /\ UNCHANGED <<refunded, revived>>
      /\ v \in Travels /\ request[r].op = "close"
      /\ travel[v].status = "active"
      /\ \A s \in Requests \ {r} :
           request[s].op = "close" => request[s].travel # v
      /\ travel'[v].status = "closed" /\ travel'[v].counted = request[r].sold
      /\ \A u \in Travels \ {v} : travel'[u] = travel[u]
      /\ stray' = stray \cup ((request[r].ended \cup request[r].overdue)
                                \cap paid)
  BY <1>0, <1>1 DEF EndClose, GoStray, Commit, RequestInv, TypeOK
<1>3. \A k \in Tickets :
        ticket'[k] = IF k \in request[r].sold
                     THEN [ticket[k] EXCEPT !.status = "sold"]
                     ELSE IF k \in request[r].ended
                     THEN [ticket[k] EXCEPT !.status = "ended", !.seats = FALSE]
                     ELSE IF k \in request[r].cancelled
                     THEN [ticket[k] EXCEPT !.status = "cancelled",
                                            !.seats = FALSE]
                     ELSE IF k \in request[r].overdue
                     THEN [ticket[k] EXCEPT !.status = "ended",
                                            !.deleted = TRUE, !.seats = FALSE]
                     ELSE ticket[k]
  BY DEF EndClose, Expired
<1>4. \A s \in Requests : RequestInv(s)'
  <2>1. \A s \in Requests \ {r} : request[s].op = "close" =>
           travel'[request[s].travel] = travel[request[s].travel]
    BY <1>1, <1>2 DEF RequestInv
  <2> QED
    BY <1>2, <2>1, DoneRequests
<1>5. \A u \in Travels : TravelInv(u)'
  BY <1>1, <1>2 DEF TravelInv, Commit
<1>6. ASSUME NEW k \in Tickets, ticket[k].travel = v  PROVE TicketInv(k)'
  <2>1. /\ Pay(k) /\ Reads(r, k) /\ Closes(r, k) /\ ticket[k] \in TicketRow
        /\ TicketInv(k)
        /\ \A u \in Travels : Commissioned(u, k) /\ Reported(u, k) /\ TravelInv(u)
    BY <1>1 DEF TicketInv
  <2>2. /\ ticket'[k].travel = v /\ ticket'[k].kind = ticket[k].kind
        /\ (k \in stray => k \in stray') /\ ticket[k].status # "none"
    BY <1>2, <1>3, <1>6, <2>1, NullAssumption DEF TicketRow, Pay
  <2>3. \A s \in Requests : Reads(s, k)' /\ Closes(s, k)'
    BY <1>2, <1>6, <2>2, Done DEF Commit
  <2>4. CASE k \in paid /\ k \notin stray'
    <3>1. /\ k \notin stray
          /\ k \notin request[r].ended /\ k \notin request[r].overdue
      BY <1>2, <2>4
    <3>2. /\ Settled(k) /\ ~ticket[k].deleted
          /\ \/ k \in request[r].sold /\ ticket[k].status = "sold"
             \/ k \notin request[r].sold /\ ticket[k].status = "cancelled"
      BY <1>0, <1>2, <1>6, <2>1, <2>4, <3>1 DEF Pay, Closes, Settled
    <3>3. ticket'[k].status = ticket[k].status /\ ~ticket'[k].deleted
      BY <1>3, <2>1, <3>1, <3>2 DEF TicketRow
    <3>4. Settled(k)'
      <4>1. /\ travel'[v].status = "closed" /\ refunded' = refunded
            /\ travel'[v].counted = request[r].sold
        BY <1>2
      <4> QED
        BY <2>2, <3>2, <3>3, <4>1 DEF Settled, App
    <3>5. Pay(k)' /\ Listed(k)'
      BY <1>2, <2>1, <2>2, <2>4, <3>3, <3>4, NullAssumption
         DEF Pay, Listed, Commit, TicketInv
    <3>6. ASSUME NEW u \in Travels
          PROVE  Totals(u, k)' /\ Commissioned(u, k)' /\ Reported(u, k)'
      <4>1. Totals(u, k)'
        BY <1>1, <1>2, <1>6, <2>2, <2>4, <3>2, <3>3
           DEF TicketInv, Totals, App, Commit
      <4>2. ASSUME NEW c, NEW d, Charges(u, c, d, k), u = v => u \in revived
            PROVE  Charges(u, c, d, k)'
        BY <1>2, <1>6, <2>2, <4>2 DEF Charges, App, Commit
      <4>3. Commissioned(u, k)' /\ Reported(u, k)'
        BY <1>2, <1>6, <2>1, <2>2, <4>2
           DEF Commissioned, Reported, TravelInv, Commit
      <4> QED
        BY <4>1, <4>3
    <3> QED
      BY <2>3, <3>5, <3>6 DEF TicketInv
  <2>5. CASE k \in paid => k \in stray'
    <3>1. /\ ticket'[k].status # "none"
          /\ k \notin paid => /\ ticket'[k].status # "sold"
                              /\ ticket'[k].status = "cancelled"
                                   => ticket'[k].deleted
      BY <1>3, <2>1, <2>2 DEF Reads, Pay, TicketRow
    <3>2. ASSUME k \in request[r].sold  PROVE ticket'[k].status = "sold"
      BY <1>3, <2>1, <3>2 DEF TicketRow
    <3>3. \A u \in Travels : Totals(u, k)'
      BY <1>1, <1>2, <1>6, <2>1, <2>2, <3>2 DEF TicketInv, Totals, Reads, Commit
    <3>4. TicketInv(k)' <=> \A s \in Requests : Reads(s, k)' /\ Closes(s, k)'
      BY <1>2, <1>6, <2>2, <2>5, <3>1, <3>3, Astray
    <3> QED
      BY <2>3, <3>4
  <2> QED
    BY <2>4, <2>5
<1>7. ASSUME NEW k \in Tickets, ticket[k].travel # v  PROVE TicketInv(k)'
  <2>1. TicketInv(k) /\ ticket[k] \in TicketRow /\ Reads(r, k)
    BY <1>1 DEF TicketInv
  <2>2. /\ k \notin request[r].sold /\ k \notin request[r].ended
        /\ k \notin request[r].cancelled /\ k \notin request[r].overdue
    BY <1>0, <1>7, <2>1 DEF Reads
  <2>3. /\ ticket'[k] = ticket[k] /\ (k \in stray' <=> k \in stray)
        /\ \A u \in Travels \ {ticket[k].travel} : k \notin travel'[u].counted
    BY <1>2, <1>3, <2>1, <2>2 DEF TicketInv, Totals
  <2>4. ticket[k].travel \in Travels =>
          travel'[ticket[k].travel] = travel[ticket[k].travel]
    BY <1>2, <1>7
  <2>5. TicketInv(k)' <=> \A s \in Requests : Reads(s, k)' /\ Closes(s, k)'
    BY <1>1, <1>2, <2>3, <2>4, Untouched DEF TypeOK
  <2>6. \A s \in Requests : Reads(s, k)' /\ Closes(s, k)'
    BY <1>2, <2>3, Done DEF Commit
  <2> QED
    BY <2>5, <2>6
<1> QED
  BY <1>4, <1>5, <1>6, <1>7, After

\* The cancellation of a travel refunds what it has read as SOLD: whatever
\* else is paid was cancelled before, or goes astray.
LEMMA EndCancelTravelStep ==
  ASSUME SettlementInv, TypeOK', QrInv', NEW r \in Requests, EndCancelTravel(r)
  PROVE  SettlementInv'
<1>0. PICK v : v = request[r].travel
  OBVIOUS
<1>1. /\ TypeOK /\ TypeOK'
      /\ \A s \in Requests : RequestInv(s)
      /\ \A u \in Travels : TravelInv(u)
      /\ \A k \in Tickets : ticket[k] \in TicketRow /\ TicketInv(k)
  BY Before
<1>2. /\ Requested(r, Idle) /\ Commit /\ revived' = revived
      /\ v \in Travels
      /\ \A s \in Requests \ {r} :
           request[s].op = "close" => request[s].travel # v
      /\ travel'[v].status = "cancelled" /\ travel'[v].counted = {}
      /\ \A u \in Travels \ {v} : travel'[u] = travel[u]
      /\ \A k \in Tickets :
           /\ k \in refunded' <=> \/ k \in refunded
                                  \/ k \in request[r].sold /\ App(k)
           /\ k \in stray' <=>
                \/ k \in stray
                \/ k \in paid
                   /\ (k \in request[r].ended \/ k \in request[r].overdue)
                \/ /\ ticket[k].travel = v /\ ticket[k].status = "sold"
                   /\ k \notin request[r].sold
  <2>1. /\ Requested(r, Idle) /\ Commit /\ revived' = revived
        /\ v \in Travels /\ Unlocked(v)
        /\ travel' = [travel EXCEPT ![v] = [status |-> "cancelled",
                                            counted |-> {}]]
    BY <1>0, <1>1 DEF EndCancelTravel, Commit, RequestInv
  <2>2. /\ travel'[v].status = "cancelled" /\ travel'[v].counted = {}
        /\ \A u \in Travels \ {v} : travel'[u] = travel[u]
    BY <1>1, <2>1 DEF TypeOK
  <2>3. ASSUME NEW k \in Tickets
        PROVE  /\ k \in refunded' <=> \/ k \in refunded
                                      \/ k \in request[r].sold /\ App(k)
               /\ k \in stray' <=>
                    \/ k \in stray
                    \/ k \in paid
                       /\ (k \in request[r].ended \/ k \in request[r].overdue)
                    \/ /\ ticket[k].travel = v /\ ticket[k].status = "sold"
                       /\ k \notin request[r].sold
    <3>1. /\ refunded' = refunded \cup {j \in request[r].sold : App(j)}
          /\ stray' = stray
               \cup ((request[r].ended \cup request[r].overdue) \cap paid)
               \cup {j \in Of(v) \ request[r].sold : ticket[j].status = "sold"}
      BY <1>0 DEF EndCancelTravel
    <3>2. k \in Of(v) <=> ticket[k].travel = v
      BY DEF Of
    <3> QED
      BY <3>1, <3>2
  <2> QED
    BY <2>1, <2>2, <2>3 DEF Unlocked
<1>3. ASSUME NEW k \in Tickets
      PROVE  /\ ticket'[k].travel = ticket[k].travel
             /\ ticket'[k].kind = ticket[k].kind
             /\ k \in request[r].sold \/ k \in request[r].ended =>
                  /\ ticket'[k].status = "cancelled"
                  /\ ticket'[k].deleted <=> \/ ticket[k].deleted
                                            \/ k \in request[r].ended
             /\ k \notin request[r].sold /\ k \notin request[r].ended =>
                  IF k \in request[r].overdue
                  THEN ticket'[k].status = "ended" /\ ticket'[k].deleted
                  ELSE ticket'[k] = ticket[k]
  <2>1. ticket[k] \in TicketRow
    BY <1>1
  <2>2. CASE k \in request[r].sold \/ k \in request[r].ended
    <3>1. ticket'[k] = [ticket[k] EXCEPT !.status = "cancelled", !.seats = FALSE,
                                         !.deleted = @ \/ k \in request[r].ended]
      BY <2>2 DEF EndCancelTravel
    <3> QED
      BY <2>1, <2>2, <3>1 DEF TicketRow
  <2>3. CASE k \notin request[r].sold /\ k \notin request[r].ended
    <3>1. ticket'[k] = IF k \in request[r].overdue
                       THEN [ticket[k] EXCEPT !.status = "ended",
                                              !.deleted = TRUE, !.seats = FALSE]
                       ELSE ticket[k]
      BY <2>3 DEF EndCancelTravel, Expired
    <3> QED
      BY <2>1, <2>3, <3>1 DEF TicketRow
  <2> QED
    BY <2>2, <2>3
<1>4. \A s \in Requests : RequestInv(s)'
  <2>1. \A s \in Requests \ {r} : request[s].op = "close" =>
           travel'[request[s].travel] = travel[request[s].travel]
    BY <1>1, <1>2 DEF RequestInv
  <2> QED
    BY <1>2, <2>1, DoneRequests
<1>5. \A u \in Travels : TravelInv(u)'
  BY <1>1, <1>2 DEF TravelInv, Commit
<1>6. ASSUME NEW k \in Tickets, ticket[k].travel = v  PROVE TicketInv(k)'
  <2>1. Pay(k) /\ Reads(r, k) /\ ticket[k] \in TicketRow /\ TicketInv(k)
    BY <1>1 DEF TicketInv
  <2>2. /\ ticket'[k].travel = v /\ ticket'[k].kind = ticket[k].kind
        /\ (k \in stray => k \in stray') /\ ticket[k].status # "none"
    BY <1>2, <1>3, <1>6, <2>1, NullAssumption DEF TicketRow, Pay
  <2>3. \A s \in Requests : Reads(s, k)' /\ Closes(s, k)'
    BY <1>2, <1>6, <2>2, Done DEF Commit
  <2>4. \A u \in Travels : Totals(u, k)'
    BY <1>2, <1>6, <2>1, <2>2 DEF TicketInv, Totals
  <2>5. CASE k \in paid /\ k \notin stray'
    <3>1. /\ k \notin stray
          /\ k \notin request[r].ended /\ k \notin request[r].overdue
          /\ ticket[k].status = "sold" => k \in request[r].sold
          /\ Settled(k) /\ ~ticket[k].deleted
      BY <1>2, <1>6, <2>1, <2>5 DEF Pay, Settled
    <3>2. ticket'[k].status = "cancelled" /\ ~ticket'[k].deleted
      BY <1>3, <2>1, <3>1 DEF TicketRow, Settled
    <3>3. App(k) => k \in refunded'
      BY <1>2, <3>1 DEF Settled
    <3>4. Settled(k)'
      BY <1>2, <2>2, <3>2, <3>3 DEF Settled, App
    <3>5. Pay(k)' /\ Listed(k)'
      BY <1>2, <2>1, <2>2, <2>5, <3>2, <3>4, NullAssumption
         DEF Pay, Listed, TicketInv, Commit
    <3>6. ASSUME NEW u \in Travels  PROVE Commissioned(u, k)' /\ Reported(u, k)'
      <4>1. ASSUME NEW c, NEW d, Charges(u, c, d, k)  PROVE Charges(u, c, d, k)'
        BY <1>2, <1>6, <2>2, <4>1 DEF Charges, App, Commit
      <4> QED
        BY <1>2, <1>6, <2>1, <2>2, <4>1
           DEF TicketInv, Commissioned, Reported, Commit
    <3> QED
      BY <2>3, <2>4, <3>5, <3>6 DEF TicketInv
  <2>6. CASE k \in paid => k \in stray'
    <3>1. /\ ticket'[k].status # "none"
          /\ k \notin paid => /\ ticket'[k].status # "sold"
                              /\ ticket'[k].status = "cancelled"
                                   => ticket'[k].deleted
                              /\ k \in refunded' <=> k \in refunded
      BY <1>2, <1>3, <2>1, <2>2 DEF Reads, Pay, TicketRow
    <3>2. TicketInv(k)' <=> \A s \in Requests : Reads(s, k)' /\ Closes(s, k)'
      BY <1>2, <1>6, <2>2, <2>4, <2>6, <3>1, Astray
    <3> QED
      BY <2>3, <3>2
  <2> QED
    BY <2>5, <2>6
<1>7. ASSUME NEW k \in Tickets, ticket[k].travel # v  PROVE TicketInv(k)'
  <2>1. TicketInv(k) /\ ticket[k] \in TicketRow /\ Reads(r, k)
    BY <1>1 DEF TicketInv
  <2>2. /\ k \notin request[r].sold /\ k \notin request[r].ended
        /\ k \notin request[r].overdue
    BY <1>0, <1>7, <2>1 DEF Reads
  <2>3. /\ ticket'[k] = ticket[k] /\ (k \in stray' <=> k \in stray)
        /\ k \in refunded' <=> k \in refunded
        /\ \A u \in Travels \ {ticket[k].travel} : k \notin travel'[u].counted
    <3>1. ticket'[k] = ticket[k]
      BY <1>3, <2>2
    <3>2. (k \in stray' <=> k \in stray) /\ (k \in refunded' <=> k \in refunded)
      BY <1>2, <1>7, <2>2
    <3>3. \A u \in Travels \ {ticket[k].travel} : k \notin travel'[u].counted
      <4>1. \A u \in Travels \ {ticket[k].travel} : k \notin travel[u].counted
        BY <2>1 DEF TicketInv, Totals
      <4> QED
        BY <1>2, <4>1
    <3> QED
      BY <3>1, <3>2, <3>3
  <2>4. ticket[k].travel \in Travels =>
          travel'[ticket[k].travel] = travel[ticket[k].travel]
    BY <1>2, <1>7
  <2>5. TicketInv(k)' <=> \A s \in Requests : Reads(s, k)' /\ Closes(s, k)'
    BY <1>1, <1>2, <2>3, <2>4, Untouched DEF TypeOK
  <2>6. \A s \in Requests : Reads(s, k)' /\ Closes(s, k)'
    BY <1>2, <2>3, Done DEF Commit
  <2> QED
    BY <2>5, <2>6
<1> QED
  BY <1>4, <1>5, <1>6, <1>7, After

\* An assignment of staff can revive a travel, with its totals forgotten.
LEMMA EndAssignStaffStep ==
  ASSUME SettlementInv, TypeOK', QrInv', NEW r \in Requests, EndAssignStaff(r)
  PROVE  SettlementInv'
<1>0. PICK v : v = request[r].travel
  OBVIOUS
<1>1. /\ TypeOK /\ TypeOK'
      /\ \A s \in Requests : RequestInv(s)
      /\ \A u \in Travels : TravelInv(u)
      /\ \A k \in Tickets : ticket[k] \in TicketRow /\ TicketInv(k)
  BY Before
<1>2. /\ Requested(r, Idle) /\ Commit /\ UNCHANGED <<ticket, refunded, stray>>
      /\ v \in Travels
      /\ \A s \in Requests :
           request[s].op = "close" => request[s].travel # v
      /\ travel'[v].status = "active" /\ travel'[v].counted = {}
      /\ \A u \in Travels \ {v} : /\ travel'[u] = travel[u]
                                  /\ u \in revived' <=> u \in revived
      /\ v \notin revived' => travel[v].status = "active" /\ v \notin revived
  BY <1>0, <1>1 DEF EndAssignStaff, Commit, RequestInv, TypeOK, Unlocked
<1>3. \A s \in Requests : RequestInv(s)'
  <2>1. \A s \in Requests \ {r} : request[s].op = "close" =>
           travel'[request[s].travel] = travel[request[s].travel]
    BY <1>1, <1>2 DEF RequestInv
  <2> QED
    BY <1>2, <2>1, DoneRequests
<1>4. \A u \in Travels : TravelInv(u)'
  BY <1>1, <1>2 DEF TravelInv, Commit
<1>5. ASSUME NEW k \in Tickets  PROVE TicketInv(k)'
  <2>1. TicketInv(k)
    BY <1>1
  <2>2. \A s \in Requests : Reads(s, k)' /\ Closes(s, k)'
    BY <1>2, Done DEF Commit
  <2>3. k \in paid /\ k \notin stray => Settled(k)'
    <3>1. CASE ticket[k].travel = v
      BY <1>2, <2>1, <3>1 DEF TicketInv, Pay, Settled, App
    <3>2. CASE ticket[k].travel # v
      <4>1. travel'[ticket[k].travel] = travel[ticket[k].travel]
        BY <1>0, <1>1, <3>2 DEF EndAssignStaff, TypeOK
      <4> QED
        BY <1>2, <2>1, <4>1 DEF TicketInv, Pay, Settled, App
    <3> QED
      BY <3>1, <3>2
  <2>4. Pay(k)' /\ Listed(k)'
    BY <1>2, <2>1, <2>3 DEF TicketInv, Pay, Listed, Commit
  <2>5. ASSUME NEW u \in Travels
        PROVE  Totals(u, k)' /\ Commissioned(u, k)' /\ Reported(u, k)'
    <3>1. Totals(u, k)'
      BY <1>2, <2>1 DEF TicketInv, Totals, App, Commit
    <3>2. ASSUME NEW c, NEW d, Charges(u, c, d, k)  PROVE Charges(u, c, d, k)'
      BY <1>2, <3>2 DEF Charges, App, Commit
    <3>3. Commissioned(u, k)' /\ Reported(u, k)'
      BY <1>2, <2>1, <3>2 DEF TicketInv, Commissioned, Reported, Commit
    <3> QED
      BY <3>1, <3>3
  <2> QED
    BY <2>2, <2>4, <2>5 DEF TicketInv
<1> QED
  BY <1>3, <1>4, <1>5, After
-----------------------------------------------------------------------------
(* The QRs.                                                                *)

Given == {"pending", "paid", "cancelled"}

\* Steps that keep the ticket of every QR, and every QR that the bank has
\* given.
LEMMA QrKept ==
  ASSUME TypeOK, QrInv,
         \A k \in Tickets :
           /\ ticket'[k].qr \in {ticket[k].qr, Null}
           /\ ticket[k].status # "none" => ticket'[k].status # "none",
         \A q \in QRs :
           /\ paymentQr'[q].ticket = paymentQr[q].ticket
           /\ \/ paymentQr'[q].status = paymentQr[q].status
              \/ paymentQr[q].status \in Given /\ paymentQr'[q].status \in Given,
         \A n \in Notices : notice'[n] \in {notice[n], NoNotice}
  PROVE  QrInv'
<1>1. ASSUME NEW q \in QRs
      PROVE  IF paymentQr'[q].status = "none" THEN paymentQr'[q].ticket = Null
             ELSE /\ paymentQr'[q].ticket \in Tickets
                  /\ ticket'[paymentQr'[q].ticket].status # "none"
  BY DEF QrInv, Given
<1>2. ASSUME NEW n \in Notices
      PROVE  IF notice'[n].qr = Null THEN notice'[n].ticket = Null
             ELSE /\ paymentQr'[notice'[n].qr].status \in Given
                  /\ notice'[n].ticket \in {Null, paymentQr'[notice'[n].qr].ticket}
  <2>1. notice[n].qr # Null => notice[n].qr \in QRs
    BY DEF TypeOK, NoticeRecord
  <2>2. NoNotice.qr = Null /\ NoNotice.ticket = Null
    BY DEF NoNotice
  <2> QED
    BY <2>1, <2>2 DEF QrInv, Given
<1>3. ASSUME NEW k \in Tickets, NEW q \in QRs, ticket'[k].qr = q
      PROVE  paymentQr'[q].status \in Given /\ paymentQr'[q].ticket = k
  <2>1. ticket[k].qr = q
    BY <1>3, NullAssumption
  <2> QED
    BY <2>1 DEF QrInv, Given
<1> QED
  BY <1>1, <1>2, <1>3 DEF QrInv, Given

\* A QR stays a QR of its ticket.
LEMMA QrsKept ==
  ASSUME TypeOK, TypeOK', QrInv, ReadingInv, [Next]_vars
  PROVE  QrInv'
<1>0. /\ \A k \in Tickets : ticket[k] \in TicketRow
      /\ \A q \in QRs : paymentQr[q] \in QrRow
  BY DEF TypeOK
<1>1. ASSUME NEW k \in Tickets, NEW v \in Travels, NEW kind \in Kinds,
             Reserve(k, v, kind)
      PROVE QrInv'
  <2>1. \A j \in Tickets : /\ ticket'[j].qr \in {ticket[j].qr, Null}
                           /\ ticket[j].status # "none"
                                => ticket'[j].status # "none"
    BY <1>1 DEF Reserve, Sets, NoTicket, TypeOK
  <2> QED
    BY <1>1, <2>1, QrKept DEF Reserve
<1>2. ASSUME NEW k \in Tickets,
             \/ PayFromWallet(k) \/ ConfirmCash(k) \/ CancelInOffice(k)
             \/ CancelInApp(k)
      PROVE QrInv'
  <2>1. \A j \in Tickets : /\ ticket'[j].qr \in {ticket[j].qr, Null}
                           /\ ticket[j].status # "none"
                                => ticket'[j].status # "none"
    <3>1. ASSUME NEW j \in Tickets, j # k  PROVE ticket'[j] = ticket[j]
      BY <1>2, <3>1 DEF PayFromWallet, ConfirmCash, CancelInOffice, CancelInApp,
         Sets, TypeOK
    <3>2. ticket'[k].qr = ticket[k].qr /\ ticket'[k].status # "none"
      <4>1. CASE PayFromWallet(k) \/ ConfirmCash(k)
        <5>1. ticket'[k] = [ticket[k] EXCEPT !.status = "sold"]
          BY <4>1 DEF PayFromWallet, ConfirmCash, Sets, TypeOK
        <5> QED
          BY <1>0, <5>1 DEF TicketRow
      <4>2. CASE CancelInOffice(k) \/ CancelInApp(k)
        <5>1. ticket'[k] = Cancelled(k)
          BY <4>2 DEF CancelInOffice, CancelInApp, Sets, TypeOK
        <5> QED
          BY <1>0, <5>1 DEF Cancelled, TicketRow
      <4> QED
        BY <1>2, <4>1, <4>2
    <3> QED
      BY <3>1, <3>2
  <2>2. \A q \in QRs :
           /\ paymentQr'[q].ticket = paymentQr[q].ticket
           /\ \/ paymentQr'[q].status = paymentQr[q].status
              \/ paymentQr[q].status \in Given /\ paymentQr'[q].status \in Given
    BY <1>0, <1>2 DEF PayFromWallet, ConfirmCash, CancelInOffice, CancelInApp,
       QrRow, Given
  <2>3. notice' = notice
    BY <1>2 DEF PayFromWallet, ConfirmCash, CancelInOffice, CancelInApp
  <2> QED
    BY <2>1, <2>2, <2>3, QrKept
<1>3. ASSUME NEW q \in QRs,
             \/ \E k \in Tickets : AskBank(q, k)
             \/ BankFails(q)
      PROVE QrInv'
  <2>1. /\ UNCHANGED <<ticket, notice>>
        /\ paymentQr[q].status \notin Given
        /\ \A p \in QRs \ {q} : paymentQr'[p] = paymentQr[p]
        /\ \/ paymentQr'[q].status = "none" /\ paymentQr'[q].ticket = Null
           \/ \E k \in Tickets : /\ paymentQr'[q].status = "asked"
                                 /\ paymentQr'[q].ticket = k
                                 /\ ticket[k].status # "none"
    <3>1. CASE BankFails(q)
      BY <3>1 DEF BankFails, NoQr, TypeOK, Given
    <3>2. ASSUME NEW k \in Tickets, AskBank(q, k)
          PROVE  /\ UNCHANGED <<ticket, notice>>
                 /\ paymentQr[q].status \notin Given
                 /\ \A p \in QRs \ {q} : paymentQr'[p] = paymentQr[p]
                 /\ paymentQr'[q].status = "asked" /\ paymentQr'[q].ticket = k
                 /\ ticket[k].status # "none"
      BY <3>2 DEF AskBank, Reserved, TypeOK, Given
    <3> QED
      BY <1>3, <3>1, <3>2
  <2>2. \A n \in Notices : notice[n].qr # q /\ (notice[n].qr = Null
                                                  \/ notice[n].qr \in QRs)
    BY <2>1, NullAssumption DEF QrInv, TypeOK, NoticeRecord, Given
  <2> QED
    BY <2>1, <2>2 DEF QrInv, Given
<1>4. ASSUME NEW q \in QRs, SaveQr(q)  PROVE QrInv'
  <2>0. PICK k \in Tickets : k = paymentQr[q].ticket
    BY <1>4 DEF SaveQr, QrInv
  <2>1. /\ notice' = notice /\ paymentQr[q].status \notin Given
        /\ \A p \in QRs \ {q} : paymentQr'[p] = paymentQr[p]
        /\ paymentQr'[q].status = "pending" /\ paymentQr'[q].ticket = k
        /\ \A j \in Tickets \ {k} : ticket'[j] = ticket[j]
        /\ ticket'[k].qr = q /\ ticket'[k].status = "unpaid"
    BY <1>0, <1>4, <2>0 DEF SaveQr, Sets, QrRow, TicketRow, TypeOK, Given
  <2>2. \A n \in Notices : notice[n].qr # q /\ (notice[n].qr = Null
                                                  \/ notice[n].qr \in QRs)
    BY <2>1, NullAssumption DEF QrInv, TypeOK, NoticeRecord, Given
  <2>3. ASSUME NEW p \in QRs
        PROVE  IF paymentQr'[p].status = "none" THEN paymentQr'[p].ticket = Null
               ELSE /\ paymentQr'[p].ticket \in Tickets
                    /\ ticket'[paymentQr'[p].ticket].status # "none"
    BY <2>1 DEF QrInv
  <2>4. ASSUME NEW j \in Tickets, NEW p \in QRs, ticket'[j].qr = p
        PROVE  paymentQr'[p].status \in Given /\ paymentQr'[p].ticket = j
    BY <2>1, <2>4 DEF QrInv, Given
  <2> QED
    BY <2>1, <2>2, <2>3, <2>4 DEF QrInv, Given
<1>5. ASSUME NEW n \in Notices, NEW q \in QRs, StartNotice(n, q)  PROVE QrInv'
  <2>1. PICK k \in Tickets \cup {Null} :
          /\ k # Null => ticket[k].qr = q
          /\ notice' = [notice EXCEPT ![n] =
               [qr |-> q, ticket |-> k,
                seats |-> IF k = Null THEN FALSE ELSE ticket[k].seats]]
    BY <1>5 DEF StartNotice
  <2>2. /\ notice'[n].qr = q /\ notice'[n].ticket = k
        /\ \A m \in Notices \ {n} : notice'[m] = notice[m]
        /\ paymentQr[q].status \in Given /\ k \in {Null, paymentQr[q].ticket}
    BY <1>5, <2>1 DEF StartNotice, TypeOK, QrInv, Given
  <2>3. UNCHANGED <<ticket, paymentQr>>
    BY <1>5 DEF StartNotice
  <2> QED
    BY <2>2, <2>3, NullAssumption DEF QrInv, Given
<1>6. ASSUME NEW n \in Notices, EndNotice(n)  PROVE QrInv'
  <2>0. PICK q \in QRs : q = notice[n].qr
    BY <1>6 DEF EndNotice, TypeOK, NoticeRecord
  <2>1. paymentQr[q].status \in Given
    BY <1>6, <2>0, NullAssumption DEF QrInv, Given
  <2>2. ASSUME NEW j \in Tickets
        PROVE  /\ ticket'[j].qr = ticket[j].qr
               /\ ticket[j].status # "none" => ticket'[j].status # "none"
    <3>1. \/ ticket'[j] = ticket[j]
          \/ ticket'[j] = [ticket[j] EXCEPT !.status = "sold",
                                            !.seats = notice[n].seats]
      BY <1>6 DEF EndNotice, Sets, TypeOK
    <3> QED
      BY <1>0, <3>1 DEF TicketRow
  <2>3. /\ \A p \in QRs \ {q} : paymentQr'[p] = paymentQr[p]
        /\ paymentQr'[q].status = "paid"
        /\ paymentQr'[q].ticket = paymentQr[q].ticket
    BY <1>0, <1>6, <2>0 DEF EndNotice, QrRow, TypeOK
  <2>4. \A m \in Notices : notice'[m] \in {notice[m], NoNotice}
    BY <1>6 DEF EndNotice, TypeOK
  <2> QED
    BY <2>1, <2>2, <2>3, <2>4, QrKept DEF Given
<1>7. ASSUME NEW r \in Requests,
             EndExpiry(r) \/ EndClose(r) \/ EndCancelTravel(r)
      PROVE QrInv'
  <2>1. ASSUME NEW j \in Tickets
        PROVE  /\ ticket'[j].qr = ticket[j].qr
               /\ ticket[j].status # "none" => ticket'[j].status # "none"
    <3>1. CASE EndExpiry(r)
      BY <1>0, <3>1 DEF EndExpiry, Expired, TicketRow
    <3>2. CASE EndClose(r)
      BY <1>0, <3>2 DEF EndClose, Expired, TicketRow
    <3>3. CASE EndCancelTravel(r)
      <4>1. \/ ticket'[j] = [ticket[j] EXCEPT !.status = "cancelled",
                               !.seats = FALSE,
                               !.deleted = @ \/ j \in request[r].ended]
            \/ ticket'[j] = Expired(request[r].overdue)[j]
        BY <3>3 DEF EndCancelTravel
      <4> QED
        BY <1>0, <4>1 DEF Expired, TicketRow
    <3> QED
      BY <1>7, <3>1, <3>2, <3>3
  <2>2. UNCHANGED <<paymentQr, notice>>
    BY <1>7 DEF EndExpiry, EndClose, EndCancelTravel
  <2> QED
    BY <2>1, <2>2, QrKept
<1>8. CASE UNCHANGED <<ticket, paymentQr, notice>>
  BY <1>8 DEF QrInv
<1> QED
  <2>1. ASSUME NEW r \in Requests, \/ EndAssignStaff(r) \/ RollBack(r)
                                   \/ \E v \in Travels : StartClose(r, v)
                                   \/ \E v \in Travels : StartCancelTravel(r, v)
                                   \/ \E v \in Travels : StartAssignStaff(r, v)
                                   \/ \E v \in Travels,
                                         overdue \in SUBSET Tickets :
                                        StartExpiry(r, v, overdue)
        PROVE  UNCHANGED <<ticket, paymentQr, notice>>
    BY <2>1 DEF StartExpiry, StartClose, StartCancelTravel, StartAssignStaff,
       EndAssignStaff, RollBack
  <2>2. ASSUME NEW r \in Runs, \/ StartRun(r)
                               \/ \E v \in Travels : SaveCommission(r, v)
        PROVE  UNCHANGED <<ticket, paymentQr, notice>>
    BY <2>2 DEF StartRun, SaveCommission
  <2> QED
    BY <1>1, <1>2, <1>3, <1>4, <1>5, <1>6, <1>7, <1>8, <2>1, <2>2 DEF Next, vars

-----------------------------------------------------------------------------
(* Commissions.                                                            *)

\* What commissions.create reads of the closed travels is what they have to
\* be charged for.
LEMMA StartRunStep ==
  ASSUME SettlementInv, TypeOK', QrInv', NEW r \in Runs, StartRun(r)
  PROVE  SettlementInv'
<1>1. /\ TypeOK
      /\ \A s \in Requests : RequestInv(s)
      /\ \A u \in Travels : TravelInv(u)
      /\ \A k \in Tickets : TicketInv(k)
  BY Before
<1>2. /\ UNCHANGED <<travel, ticket, refunded, request, commission, paid, stray,
                     revived>>
      /\ \A q \in Runs \ {r} : run'[q] = run[q]
      /\ \A v \in run'[r].todo : v \in Travels /\ travel[v].status = "closed"
      /\ \A k \in Tickets :
           /\ k \in run'[r].counted <=>
                \E v \in run'[r].todo : App(k) /\ k \in travel[v].counted
           /\ k \in run'[r].cancelled <=>
                \E v \in run'[r].todo : App(k) /\ k \in Found(v, "cancelled")
  BY <1>1 DEF StartRun, TypeOK
<1>3. \A s \in Requests : RequestInv(s)'
  BY <1>1, <1>2 DEF RequestInv
<1>4. \A u \in Travels : TravelInv(u)'
  BY <1>1, <1>2 DEF TravelInv
<1>5. ASSUME NEW k \in Tickets  PROVE TicketInv(k)'
  <2>1. TicketInv(k)
    BY <1>1
  <2>2. Pay(k)'
    BY <1>2, <2>1 DEF TicketInv, Pay, Settled, App
  <2>3. \A s \in Requests : Reads(s, k)' /\ Closes(s, k)'
    BY <1>2, <2>1 DEF TicketInv, Reads, Closes
  <2>4. /\ k \in run'[r].counted =>
             /\ k \in paid /\ App(k) /\ ticket[k].status # "cancelled"
             /\ k \in travel[ticket[k].travel].counted
        /\ k \in run'[r].cancelled =>
             /\ k \in paid /\ App(k) /\ ticket[k].status = "cancelled"
             /\ ~ticket[k].deleted
    BY <1>2, <2>1 DEF TicketInv, Totals, Pay, Found, Of
  <2>5. Listed(k)'
    BY <1>2, <2>1, <2>4 DEF TicketInv, Listed
  <2>6. ASSUME NEW u \in Travels
        PROVE  Totals(u, k)' /\ Commissioned(u, k)' /\ Reported(u, k)'
    <3>1. Totals(u, k)'
      BY <1>2, <2>1 DEF TicketInv, Totals, App
    <3>2. ASSUME NEW c, NEW d, Charges(u, c, d, k)  PROVE Charges(u, c, d, k)'
      BY <1>2, <3>2 DEF Charges, App
    <3>3. Commissioned(u, k)'
      BY <1>2, <2>1, <3>2 DEF TicketInv, Commissioned
    <3>4. ASSUME NEW c, NEW d, c = run'[r].counted, d = run'[r].cancelled,
                 u \in run'[r].todo
          PROVE  Charges(u, c, d, k)'
      <4>1. ticket[k].travel = u =>
              /\ k \in c <=> App(k) /\ k \in travel[u].counted
              /\ k \in d <=> /\ App(k) /\ ~ticket[k].deleted
                             /\ ticket[k].status = "cancelled"
        BY <1>2, <2>1, <3>4 DEF TicketInv, Totals, Found, Of
      <4> QED
        BY <1>2, <2>4, <3>4, <4>1 DEF Charges, App
    <3>5. Reported(u, k)'
      BY <1>2, <2>1, <3>2, <3>4 DEF TicketInv, Reported
    <3> QED
      BY <3>1, <3>3, <3>5
  <2> QED
    BY <2>2, <2>3, <2>5, <2>6 DEF TicketInv
<1> QED
  BY <1>3, <1>4, <1>5, After

\* One commission is written as it was read, or none.
LEMMA SaveCommissionStep ==
  ASSUME SettlementInv, TypeOK', QrInv', NEW r \in Runs, NEW v \in Travels,
         SaveCommission(r, v)
  PROVE  SettlementInv'
<1>1. /\ TypeOK
      /\ \A s \in Requests : RequestInv(s)
      /\ \A u \in Travels : TravelInv(u)
      /\ \A k \in Tickets : TicketInv(k)
  BY Before
<1>2. /\ UNCHANGED <<travel, ticket, refunded, request, paid, stray, revived>>
      /\ v \in run[r].todo
  BY DEF SaveCommission
<1>3. ASSUME NEW q \in Runs
      PROVE  /\ run'[q].todo \subseteq run[q].todo
             /\ \/ /\ run'[q].counted = run[q].counted
                   /\ run'[q].cancelled = run[q].cancelled
                \/ /\ run'[q].todo = {}
                   /\ run'[q].counted = {} /\ run'[q].cancelled = {}
  <2>1. run'[q] \in {run[q], NoRun, [run[q] EXCEPT !.todo = @ \ {v}]}
    BY <1>1 DEF SaveCommission, TypeOK
  <2>2. run[q] \in RunRecord
    BY <1>1 DEF TypeOK
  <2> QED
    BY <2>1, <2>2 DEF NoRun, RunRecord
<1>4. ASSUME NEW u \in Travels
      PROVE  \/ commission'[u] = commission[u]
             \/ /\ u = v /\ commission'[u].made
                /\ commission'[u].counted = run[r].counted \cap Of(v)
                /\ commission'[u].cancelled = run[r].cancelled \cap Of(v)
  BY <1>1 DEF SaveCommission, TypeOK
<1>5. \A s \in Requests : RequestInv(s)'
  BY <1>1, <1>2 DEF RequestInv
<1>6. ASSUME NEW u \in Travels  PROVE TravelInv(u)'
  <2>1. /\ TravelInv(u)
        /\ u = v /\ v \notin revived => travel[v].status # "active"
    BY <1>1, <1>2 DEF TravelInv
  <2> QED
    BY <1>2, <1>3, <1>4, <2>1 DEF TravelInv
<1>7. ASSUME NEW k \in Tickets  PROVE TicketInv(k)'
  <2>1. TicketInv(k)
    BY <1>1
  <2>2. Pay(k)' /\ Listed(k)'
    BY <1>2, <1>3, <2>1 DEF TicketInv, Pay, Settled, App, Listed
  <2>3. \A s \in Requests : Reads(s, k)' /\ Closes(s, k)'
    BY <1>2, <2>1 DEF TicketInv, Reads, Closes
  <2>4. ASSUME NEW u \in Travels
        PROVE  Totals(u, k)' /\ Commissioned(u, k)' /\ Reported(u, k)'
    <3>1. Totals(u, k)'
      BY <1>2, <2>1 DEF TicketInv, Totals, App
    <3>2. ASSUME NEW c, NEW d, Charges(u, c, d, k)  PROVE Charges(u, c, d, k)'
      BY <1>2, <3>2 DEF Charges, App
    <3>3. Reported(u, k)'
      BY <1>2, <1>3, <2>1, <3>2 DEF TicketInv, Reported
    <3>4. Commissioned(u, k)'
      <4>1. CASE commission'[u] = commission[u]
        BY <1>2, <2>1, <3>2, <4>1 DEF TicketInv, Commissioned
      <4>2. CASE /\ u = v /\ commission'[u].made
                 /\ commission'[u].counted = run[r].counted \cap Of(v)
                 /\ commission'[u].cancelled = run[r].cancelled \cap Of(v)
        <5>1. Charges(u, run[r].counted, run[r].cancelled, k)
          BY <1>2, <2>1, <4>2 DEF TicketInv, Reported
        <5>2. Charges(u, commission'[u].counted, commission'[u].cancelled, k)
          BY <4>2, <5>1 DEF Charges, Of
        <5>3. k \in commission'[u].counted \/ k \in commission'[u].cancelled
                => ticket[k].travel = u
          BY <4>2 DEF Of
        <5> QED
          BY <1>2, <5>2, <5>3 DEF Commissioned, Charges, App
      <4> QED
        BY <1>4, <4>1, <4>2
    <3> QED
      BY <3>1, <3>3, <3>4
  <2> QED
    BY <2>2, <2>3, <2>4 DEF TicketInv
<1> QED
  BY <1>5, <1>6, <1>7, After

-----------------------------------------------------------------------------
(* The theorems.                                                           *)

\* Nothing has been sold yet.
LEMMA Initially == Init => SettlementInv
<1> SUFFICES ASSUME Init  PROVE SettlementInv
  OBVIOUS
<1>1. /\ \A k \in Tickets : ticket[k] = NoTicket
      /\ \A v \in Travels : /\ travel[v] = [status |-> "active", counted |-> {}]
                            /\ ~commission[v].made
                            /\ commission[v].counted = {}
                            /\ commission[v].cancelled = {}
      /\ \A q \in QRs : paymentQr[q] = NoQr
      /\ \A n \in Notices : notice[n] = NoNotice
      /\ \A r \in Requests : request[r] = Idle
      /\ \A r \in Runs : run[r] = NoRun
      /\ paid = {} /\ stray = {} /\ refunded = {}
  BY DEF Init, NoCommission
<1>2. TypeOK
  BY RowTypes DEF Init, TypeOK, TravelRow
<1>3. PaymentInv
  BY <1>1 DEF PaymentInv, NoTicket
<1>4. QrInv
  <2>1. /\ NoNotice.qr = Null /\ NoNotice.ticket = Null
        /\ NoQr.status = "none" /\ NoQr.ticket = Null
        /\ NoTicket.qr = Null
    BY DEF NoNotice, NoQr, NoTicket
  <2>2. \A q \in QRs : paymentQr[q].status = "none" /\ paymentQr[q].ticket = Null
    BY <1>1, <2>1
  <2>3. \A n \in Notices : notice[n].qr = Null /\ notice[n].ticket = Null
    BY <1>1, <2>1
  <2>4. \A k \in Tickets, q \in QRs : ticket[k].qr # q
    BY <1>1, <2>1, NullAssumption
  <2> QED
    BY <2>2, <2>3, <2>4 DEF QrInv
<1>5. CloseInv /\ ReadingInv /\ TotalsInv
  <2>1. \A r \in Requests :
          /\ request[r] = Idle /\ request[r].op = "none"
          /\ request[r].sold = {} /\ request[r].cancelled = {}
    BY <1>1 DEF Idle
  <2>2. \A v \in Travels : \A k : k \notin travel[v].counted
    BY <1>1
  <2> QED
    BY <2>1, <2>2 DEF CloseInv, ReadingInv, TotalsInv
<1>6. RunInv /\ CommissionInv
  BY <1>1 DEF RunInv, CommissionInv, NoRun
<1> QED
  BY <1>2, <1>3, <1>4, <1>5, <1>6 DEF SettlementInv

\* Every handler keeps the invariant.
LEMMA InvariantKept == SettlementInv /\ [Next]_vars => SettlementInv'
<1> SUFFICES ASSUME SettlementInv, [Next]_vars  PROVE SettlementInv'
  OBVIOUS
<1>1. TypeOK' /\ QrInv'
  BY TypesKept, QrsKept DEF SettlementInv
<1>2. ASSUME NEW k \in Tickets, NEW v \in Travels, NEW kind \in Kinds,
             Reserve(k, v, kind)
      PROVE  SettlementInv'
  BY <1>1, <1>2, ReserveStep
<1>3. ASSUME NEW k \in Tickets, \/ PayFromWallet(k) \/ ConfirmCash(k)
                                \/ CancelInApp(k) \/ CancelInOffice(k)
      PROVE  SettlementInv'
  BY <1>1, <1>3, CounterPayments, CancelSteps
<1>4. ASSUME NEW q \in QRs, SaveQr(q)  PROVE SettlementInv'
  BY <1>1, <1>4, SaveQrStep
<1>5. ASSUME NEW n \in Notices, EndNotice(n)  PROVE SettlementInv'
  BY <1>1, <1>5, NoticeSteps
<1>6. ASSUME \/ \E q \in QRs, k \in Tickets : AskBank(q, k)
             \/ \E q \in QRs : BankFails(q)
             \/ \E n \in Notices, q \in QRs : StartNotice(n, q)
             \/ UNCHANGED vars
      PROVE  SettlementInv'
  <2>1. UNCHANGED <<travel, ticket, refunded, request, run, commission, paid,
                    stray, revived>>
    BY <1>6 DEF AskBank, BankFails, StartNotice, vars
  <2> QED
    BY <1>1, <2>1, QuietSteps
<1>7. ASSUME NEW r \in Requests,
             \/ RollBack(r)
             \/ \E v \in Travels : StartAssignStaff(r, v)
             \/ \E v \in Travels, overdue \in SUBSET Tickets :
                  StartExpiry(r, v, overdue)
      PROVE  SettlementInv'
  BY <1>1, <1>7, SmallRequests
<1>8. ASSUME NEW r \in Requests, NEW v \in Travels,
             StartClose(r, v) \/ StartCancelTravel(r, v)
      PROVE  SettlementInv'
  BY <1>1, <1>8, Readings
<1>9. ASSUME NEW r \in Requests, \/ EndExpiry(r) \/ EndClose(r)
                                 \/ EndCancelTravel(r) \/ EndAssignStaff(r)
      PROVE  SettlementInv'
  BY <1>1, <1>9, EndExpiryStep, EndCloseStep, EndCancelTravelStep,
     EndAssignStaffStep
<1>10. ASSUME NEW r \in Runs, \/ StartRun(r)
                              \/ \E v \in Travels : SaveCommission(r, v)
       PROVE  SettlementInv'
  BY <1>1, <1>10, StartRunStep, SaveCommissionStep
<1> QED
  BY <1>2, <1>3, <1>4, <1>5, <1>6, <1>7, <1>8, <1>9, <1>10 DEF Next

\* The books of the settlement: payments, readings, totals and commissions
\* agree in every state, for any number of overlapping requests.
THEOREM SettlementInvariant == Spec => []SettlementInv
BY Initially, InvariantKept, PTL DEF Spec

\* Every app payment that came in time, and that no stale save has hit, is
\* sold or refunded, and in the totals or refunded once the travel is closed.
THEOREM AppPaymentsAreSettled == Spec => []AppPaymentsSettled
<1>1. SettlementInv => AppPaymentsSettled
  <2> SUFFICES ASSUME SettlementInv, NEW k \in paid \ stray, App(k)
               PROVE  LET v == travel[ticket[k].travel]
                      IN  CASE v.status = "active" ->
                                 (k \in refunded) # (ticket[k].status = "sold")
                            [] v.status = "closed" ->
                                 (k \in refunded) # (k \in v.counted)
                            [] v.status = "cancelled" -> k \in refunded
    BY DEF AppPaymentsSettled
  <2>1. k \in Tickets /\ Settled(k)
    BY DEF SettlementInv, TypeOK, PaymentInv
  <2>2. ticket[k].travel \in Travels
    BY <2>1 DEF SettlementInv, TypeOK, PaymentInv, TicketRow, Settled
  <2>3. travel[ticket[k].travel].status \in {"active", "closed", "cancelled"}
    BY <2>2 DEF SettlementInv, TypeOK, TravelRow
  <2>4. ticket[k].status \in {"sold", "cancelled"}
    BY <2>1 DEF Settled
  <2> QED
    BY <2>1, <2>3, <2>4 DEF Settled
<1> QED
  BY <1>1, SettlementInvariant, PTL

\* The totals of a closed travel stay what its SOLD tickets add up to.
THEOREM TotalsMatchTheTickets == Spec => []TotalsMatchTickets
<1>1. SettlementInv => TotalsMatchTickets
  <2> SUFFICES ASSUME SettlementInv, NEW v \in Travels,
                      travel[v].status = "closed", NEW k \in Of(v) \ stray
               PROVE  /\ ticket[k].status = "sold" => k \in travel[v].counted
                      /\ k \in travel[v].counted =>
                           \/ ticket[k].status = "sold"
                           \/ ~App(k) /\ ticket[k].status = "cancelled"
    BY DEF TotalsMatchTickets
  <2>1. k \in Tickets /\ ticket[k].travel = v
    BY DEF Of
  <2>2. /\ ticket[k].status = "sold" => k \in paid
        /\ k \in paid => Settled(k)
    BY <2>1 DEF SettlementInv, PaymentInv
  <2>3. k \in travel[v].counted =>
          k \in paid /\ (App(k) => ticket[k].status # "cancelled")
    BY <2>1 DEF SettlementInv, TotalsInv
  <2> QED
    BY <2>1, <2>2, <2>3 DEF Settled
<1> QED
  BY <1>1, SettlementInvariant, PTL

\* A commission is charged for the app tickets that were paid in time, unless
\* the travel was made active again.
THEOREM CommissionsMatchThePayments == Spec => []CommissionsMatchPayments
<1>1. SettlementInv => CommissionsMatchPayments
  <2> SUFFICES ASSUME SettlementInv, NEW v \in Travels \ revived,
                      commission[v].made, travel[v].status = "closed",
                      NEW k \in Of(v) \ stray, App(k)
               PROVE  k \in paid <=>
                        k \in commission[v].counted \cup commission[v].cancelled
    BY DEF CommissionsMatchPayments
  <2>1. k \in Tickets /\ ticket[k].travel = v
    BY DEF Of
  <2>2. Charged(v, commission[v].counted, commission[v].cancelled)
    BY DEF SettlementInv, CommissionInv
  <2>3. k \in paid => Settled(k)
    BY <2>1 DEF SettlementInv, PaymentInv
  <2> QED
    BY <2>1, <2>2, <2>3 DEF Charged, Settled, Found
<1> QED
  BY <1>1, SettlementInvariant, PTL

\* No ticket is charged for twice, whatever overlaps.
THEOREM NobodyIsChargedTwice == Spec => []TicketsChargedOnce
<1>1. SettlementInv => TicketsChargedOnce
  BY DEF SettlementInv, CommissionInv, TicketsChargedOnce, Charged
<1> QED
  BY <1>1, SettlementInvariant, PTL
=============================================================================
