----------------------------- MODULE WalletLedger -----------------------------
(***************************************************************************)
(* The customers' wallets: credits that expire, debits that spend the      *)
(* oldest credits first, restored debits, refunds and bank recharges.      *)
(*                                                                         *)
(* Every WalletService operation reads the wallet row with no lock before  *)
(* it takes any lock, so an operation is two steps: Start... reads, ...Ends *)
(* locks, writes and commits.  Between the two other transactions commit.  *)
(***************************************************************************)
EXTENDS Integers, Sequences, FiniteSets, Functions

CONSTANTS
  Customers,   \* customers, each with a wallet
  Tickets,     \* app tickets
  QRs,         \* correlation ids of recharge QRs
  Txs,         \* database transactions that can be open at the same time
  Null,
  Price,       \* what a ticket costs, commission included
  Commission,  \* what is withheld when the customer cancels a paid ticket
  MaxDebits    \* bound: debits a ticket may have

ASSUME PriceAssumption == Price \in Nat \ {0} /\ Commission \in 0 .. Price
ASSUME BoundAssumption == MaxDebits \in Nat
\* The rows that exist are finitely many, and of different tables.
ASSUME RowsAssumption ==
  /\ IsFiniteSet(Customers) /\ IsFiniteSet(Tickets) /\ IsFiniteSet(QRs)
  /\ QRs \cap Tickets = {} /\ Null \notin Customers \cup QRs \cup Tickets

VARIABLES
  credit,    \* CREDIT rows of each wallet, the soonest to expire first
  expired,   \* how many credits of each wallet have passed their expiresAt
  balance,   \* wallets.balance
  debit,     \* DEBIT rows of each ticket
  ticket,    \* tickets: buyer, wallet_amount, how far the sale has come
  recharge,  \* payment_qr rows of recharges
  gone,      \* customers whose accountDeletedAt is set
  tx,        \* open transactions and what they have read
  overlapped \* history: wallets that two open transactions have had to do with

vars == <<credit, expired, balance, debit, ticket, recharge, gone, tx,
          overlapped>>

-----------------------------------------------------------------------------
(* Rows.                                                                   *)

Amount == 1 .. Price
CreditRow == [amount : Amount, remaining : 0 .. Price,
              source : QRs \cup Tickets]
\* usedCredits: what was taken from each of the first credits.
DebitRow == [used : Seq(0 .. Price), reversed : BOOLEAN]
TicketStatus == {"none", "open", "sold", "ended"}
TicketRow == [status : TicketStatus, buyer : Customers \cup {Null},
              part : 0 .. Price]
RechargeRow == [status : {"none", "pending", "paid"},
                customers : SUBSET Customers, amount : Amount]
Op == {"none", "recharge", "refund_app", "refund_travel", "consume",
       "restore"}
\* found: the credit that creditFromTicketCancel looks for exists already;
\* payees: whose wallet is credited or debited; answer: how the last one ended.
TxRow == [op : Op, subject : QRs \cup Tickets \cup {Null},
          payees : SUBSET Customers, balance : Int, found : BOOLEAN,
          answer : {"none", "ok", "error"}]

TypeOK ==
  /\ credit \in [Customers -> Seq(CreditRow)]
  /\ expired \in [Customers -> Nat]
  /\ \A c \in Customers : expired[c] <= Len(credit[c])
  /\ balance \in [Customers -> Int]
  /\ debit \in [Tickets -> Seq(DebitRow)]
  /\ ticket \in [Tickets -> TicketRow]
  /\ recharge \in [QRs -> RechargeRow]
  /\ gone \subseteq Customers
  /\ tx \in [Txs -> TxRow]
  /\ overlapped \subseteq Customers

Idle(answer) == [op |-> "none", subject |-> Null, payees |-> {},
                 balance |-> 0, found |-> FALSE, answer |-> answer]

Init ==
  /\ credit = [c \in Customers |-> << >>]
  /\ expired = [c \in Customers |-> 0]
  /\ balance = [c \in Customers |-> 0]
  /\ debit = [t \in Tickets |-> << >>]
  /\ ticket = [t \in Tickets |-> [status |-> "none", buyer |-> Null,
                                  part |-> 0]]
  /\ recharge = [q \in QRs |-> [status |-> "none", customers |-> {},
                                amount |-> 1]]
  /\ gone = {}
  /\ tx = [p \in Txs |-> Idle("none")]
  /\ overlapped = {}

-----------------------------------------------------------------------------
(* Helpers.                                                                *)

Min2(a, b) == IF a <= b THEN a ELSE b
Total(s) == SumFunction(s)

\* What getAvailableBalance adds up.
Spendable(c) == [i \in DOMAIN credit[c] |->
                   IF i <= expired[c] THEN 0 ELSE credit[c][i].remaining]
Available(c) == Total(Spendable(c))

\* Mutant: the newest credits first.
NewestFirst(c, amount) ==
  LET can == Spendable(c)
  IN  [i \in DOMAIN can |->
         Min2(can[i], IF amount > Total(SubSeq(can, i + 1, Len(can)))
                      THEN amount - Total(SubSeq(can, i + 1, Len(can)))
                      ELSE 0)]

\* The loop of consumeForTicket: each credit gives what it has, up to what
\* is still missing.
OldestFirst(c, amount) ==
  LET can == Spendable(c)
      missing[i \in 0 .. Len(credit[c])] ==
        IF i = 0 THEN amount ELSE missing[i - 1] - Min2(can[i], missing[i - 1])
  IN  [i \in DOMAIN can |-> Min2(can[i], missing[i - 1])]

\* Credits c with what used took from them put back (sign 1) or out (-1).
Moved(c, used, sign) ==
  [credit EXCEPT ![c] =
     [i \in DOMAIN @ |->
        IF i \in DOMAIN used
        THEN [credit[c][i] EXCEPT !.remaining = @ + sign * used[i]]
        ELSE credit[c][i]]]

NewCredit(c, amount, source) ==
  [credit EXCEPT ![c] = Append(@, [amount |-> amount, remaining |-> amount,
                                   source |-> source])]

Sources(c) == {credit[c][i].source : i \in DOMAIN credit[c]}

\* Nobody has the row lock on ticket t, or the transaction p has it.  The
\* cancellation in the app and generateQr lock the ticket before the wallet
\* is read.
TicketLocked(t) == \E p \in Txs : /\ tx[p].subject = t
                                  /\ tx[p].op \in {"refund_app", "consume"}

\* The balance read matters only when there is one payee.
Opens(p, op, subject, C, found) ==
  /\ tx[p].op = "none"
  /\ tx' = [tx EXCEPT ![p] =
              [op |-> op, subject |-> subject, payees |-> C,
               balance |-> IF C = {} THEN 0 ELSE balance[CHOOSE c \in C : TRUE],
               found |-> found, answer |-> "none"]]
  /\ overlapped' = overlapped \cup (C \cap UNION {tx[r].payees : r \in Txs})
Ends(p, answer) == /\ tx' = [tx EXCEPT ![p] = Idle(answer)]
                   /\ UNCHANGED overlapped

-----------------------------------------------------------------------------
(* Recharges.                                                              *)

\* generateQrForRecharge, when the bank has answered.
CreateRecharge(q, C, amount) ==
  /\ recharge[q].status = "none"
  /\ C # {} /\ C \cap gone = {}
  /\ recharge' = [recharge EXCEPT ![q] = [status |-> "pending",
                                          customers |-> C,
                                          amount |-> amount]]
  /\ UNCHANGED <<credit, expired, balance, debit, ticket, gone, tx,
                 overlapped>>

\* The bank's notification: QR, customers and wallets are read unlocked.
StartRecharge(p, q) ==
  /\ recharge[q].status = "pending"
  /\ Opens(p, "recharge", q, recharge[q].customers \ gone, FALSE)
  /\ UNCHANGED <<credit, expired, balance, debit, ticket, recharge, gone>>

\* Mutant: nothing stops a second CREDIT row of the same QR.
Unstopped(q) == TRUE

\* paymentQrId is UNIQUE in wallet_transactions: no CREDIT row has it yet.
NotCredited(q) == \A c \in Customers : q \notin Sources(c)

\* callback for a recharge: the CREDIT rows of all its customers need the
\* same paymentQrId.  The second insert fails, and with it the transaction,
\* although the loop goes on after the error.
EndRecharge(p) ==
  LET q == tx[p].subject
      amount == recharge[q].amount
      credited == [recharge EXCEPT ![q].status = "paid"]
  IN  /\ tx[p].op = "recharge"
      /\ \/ /\ tx[p].payees = {}
            /\ recharge' = credited
            /\ UNCHANGED <<credit, balance>>
            /\ Ends(p, "ok")
         \/ \E c \in Customers :
              /\ tx[p].payees = {c} /\ NotCredited(q)
              /\ recharge' = credited
              /\ credit' = NewCredit(c, amount, q)
              /\ balance' = [balance EXCEPT ![c] = tx[p].balance + amount]
              /\ Ends(p, "ok")
         \/ /\ tx[p].payees # {}
            /\ Cardinality(tx[p].payees) > 1 \/ ~NotCredited(q)
            /\ UNCHANGED <<credit, balance, recharge>>
            /\ Ends(p, "error")
      /\ UNCHANGED <<expired, debit, ticket, gone>>

-----------------------------------------------------------------------------
(* Tickets.                                                                *)

\* createTicketBase: the wallet pays what it can at that moment.
Reserve(t, c) ==
  /\ ticket[t].status = "none"
  /\ c \notin gone
  /\ ticket' = [ticket EXCEPT ![t] = [status |-> "open", buyer |-> c,
                                      part |-> Min2(Available(c), Price)]]
  /\ UNCHANGED <<credit, expired, balance, debit, recharge, gone, tx,
                 overlapped>>

\* generateQr: the ticket is locked, then its buyer's wallet is read.
StartConsume(p, t) ==
  /\ ticket[t].status = "open" /\ ticket[t].part > 0
  /\ ~TicketLocked(t)
  /\ Len(debit[t]) < MaxDebits
  /\ Opens(p, "consume", t, {ticket[t].buyer}, FALSE)
  /\ UNCHANGED <<credit, expired, balance, debit, ticket, recharge, gone>>

\* consumeForTicket, once it has locked the credits.  When the wallet pays
\* for everything, the ticket is sold in the same transaction.
EndConsume(p) ==
  LET t == tx[p].subject
      c == ticket[t].buyer
      part == ticket[t].part
      used == OldestFirst(c, part)
  IN  /\ tx[p].op = "consume"
      /\ IF Available(c) < part
         THEN /\ Ends(p, "error")
              /\ UNCHANGED <<credit, balance, debit, ticket>>
         ELSE /\ credit' = Moved(c, used, -1)
              /\ balance' = [balance EXCEPT ![c] = tx[p].balance - part]
              /\ debit' = [debit EXCEPT ![t] =
                             Append(@, [used |-> used, reversed |-> FALSE])]
              /\ ticket' = [ticket EXCEPT ![t].status =
                              IF part = Price THEN "sold" ELSE @]
              /\ Ends(p, "ok")
      /\ UNCHANGED <<expired, recharge, gone>>

\* The bank confirms the rest of the price.
Sell(t) ==
  /\ ticket[t].status = "open"
  /\ ticket[t].part < Price
  /\ ticket[t].part > 0 => \E i \in DOMAIN debit[t] : ~debit[t][i].reversed
  /\ ~TicketLocked(t)
  /\ ticket' = [ticket EXCEPT ![t].status = "sold"]
  /\ UNCHANGED <<credit, expired, balance, debit, recharge, gone, tx,
                 overlapped>>

\* A failed QR request, an expiry or the cancellation of an unpaid ticket.
StartRestore(p, t) ==
  /\ ticket[t].status = "open"
  /\ ~TicketLocked(t)
  /\ Opens(p, "restore", t, {ticket[t].buyer}, FALSE)
  /\ UNCHANGED <<credit, expired, balance, debit, ticket, recharge, gone>>

\* Mutant: a debit may be restored again and again.
AlwaysOpen(d) == FALSE

\* reversedAt is set.
IsReversed(d) == d.reversed

\* restoreCreditsFromExpiredTicket: one DEBIT row, whichever is found first.
\* The failed request leaves the ticket open, the other callers end it.
EndRestore(p) ==
  LET t == tx[p].subject
      c == ticket[t].buyer
  IN  /\ tx[p].op = "restore"
      /\ ~TicketLocked(t)
      /\ \/ /\ debit[t] = << >>
            /\ UNCHANGED <<credit, balance, debit>>
         \/ \E i \in DOMAIN debit[t] :
              IF IsReversed(debit[t][i])
              THEN UNCHANGED <<credit, balance, debit>>
              ELSE /\ credit' = Moved(c, debit[t][i].used, 1)
                   /\ balance' = [balance EXCEPT ![c] =
                                    tx[p].balance + Total(debit[t][i].used)]
                   /\ debit' = [debit EXCEPT ![t][i].reversed = TRUE]
      /\ \/ ticket' = ticket
         \/ ticket' = [ticket EXCEPT ![t].status =
                         IF @ = "open" THEN "ended" ELSE @]
      /\ Ends(p, "ok")
      /\ UNCHANGED <<expired, recharge, gone>>

-----------------------------------------------------------------------------
(* Refunds of sold tickets.                                                *)

\* The CREDIT row that creditFromTicketCancel looks for, without a lock.
Refunded(t) == t \in Sources(ticket[t].buyer)

\* TicketsInAppService.cancel has locked the ticket.
StartRefundApp(p, t) ==
  /\ ticket[t].status = "sold" /\ ticket[t].buyer \notin gone
  /\ ~TicketLocked(t)
  /\ Opens(p, "refund_app", t, {ticket[t].buyer}, Refunded(t))
  /\ UNCHANGED <<credit, expired, balance, debit, ticket, recharge, gone>>

\* TravelsService.cancel locks neither the ticket nor the wallet.
StartRefundTravel(p, t) ==
  /\ ticket[t].status = "sold" /\ ticket[t].buyer \notin gone
  /\ Opens(p, "refund_travel", t, {ticket[t].buyer}, Refunded(t))
  /\ UNCHANGED <<credit, expired, balance, debit, ticket, recharge, gone>>

\* creditFromTicketCancel writes, and the caller ends the ticket; the
\* travel's transaction waits for the lock of the app's.
EndRefund(p) ==
  LET t == tx[p].subject
      c == ticket[t].buyer
      amount == IF tx[p].op = "refund_app" THEN Price - Commission ELSE Price
  IN  /\ \/ tx[p].op = "refund_app"
         \/ tx[p].op = "refund_travel" /\ ~TicketLocked(t)
      /\ IF amount = 0 \/ tx[p].found
         THEN UNCHANGED <<credit, balance>>
         ELSE /\ credit' = NewCredit(c, amount, t)
              /\ balance' = [balance EXCEPT ![c] = tx[p].balance + amount]
      /\ ticket' = [ticket EXCEPT ![t].status = "ended"]
      /\ Ends(p, "ok")
      /\ UNCHANGED <<expired, debit, recharge, gone>>

-----------------------------------------------------------------------------
(* Time and accounts.                                                      *)

\* The credits have the same life, so the oldest expires first.
ExpireCredit(c) ==
  /\ expired[c] < Len(credit[c])
  /\ expired' = [expired EXCEPT ![c] = @ + 1]
  /\ UNCHANGED <<credit, balance, debit, ticket, recharge, gone, tx,
                 overlapped>>

\* CustomersService.remove.
DeleteAccount(c) ==
  /\ c \notin gone
  /\ gone' = gone \cup {c}
  /\ UNCHANGED <<credit, expired, balance, debit, ticket, recharge, tx,
                 overlapped>>

-----------------------------------------------------------------------------

Next ==
  \/ \E q \in QRs, C \in SUBSET Customers, a \in Amount :
       CreateRecharge(q, C, a)
  \/ \E p \in Txs, q \in QRs : StartRecharge(p, q)
  \/ \E p \in Txs : EndRecharge(p)
  \/ \E t \in Tickets, c \in Customers : Reserve(t, c)
  \/ \E p \in Txs, t \in Tickets : StartConsume(p, t)
  \/ \E p \in Txs : EndConsume(p)
  \/ \E t \in Tickets : Sell(t)
  \/ \E p \in Txs, t \in Tickets : StartRestore(p, t)
  \/ \E p \in Txs : EndRestore(p)
  \/ \E p \in Txs, t \in Tickets : StartRefundApp(p, t)
  \/ \E p \in Txs, t \in Tickets : StartRefundTravel(p, t)
  \/ \E p \in Txs : EndRefund(p)
  \/ \E c \in Customers : ExpireCredit(c)
  \/ \E c \in Customers : DeleteAccount(c)

Spec == Init /\ [][Next]_vars

-----------------------------------------------------------------------------
(* Properties.                                                             *)

\* The unreversed debits of the tickets customer c bought.
Debits(c) == {d \in Tickets \X (1 .. MaxDebits) :
                /\ ticket[d[1]].buyer = c
                /\ d[2] \in DOMAIN debit[d[1]]
                /\ ~debit[d[1]][d[2]].reversed}

\* What debit d took from the n-th credit.
Taken(d, n) == LET used == debit[d[1]][d[2]].used
               IN  IF n \in DOMAIN used THEN used[n] ELSE 0

\* What is missing from a credit is exactly what the debits that nothing has
\* reversed took from it: no interleaving of payments, failed payments and
\* expiries spends a credit twice or gives back more than was taken.
CreditsConserved ==
  \A c \in Customers : \A n \in DOMAIN credit[c] :
    credit[c][n].amount =
      credit[c][n].remaining + SumFunction([d \in Debits(c) |-> Taken(d, n)])

\* However often and however concurrently the bank notifies a recharge, one
\* CREDIT row results, and only together with the PAID PaymentQR.
RechargeCreditedOnce ==
  \A q \in QRs :
    LET rows == {r \in Customers \X (1 .. 2 * Cardinality(QRs \cup Tickets)) :
                   r[2] \in DOMAIN credit[r[1]]
                     /\ credit[r[1]][r[2]].source = q}
    IN  /\ Cardinality(rows) <= 1
        /\ rows # {} => recharge[q].status = "paid"

\* A sold ticket is refunded at most once, by its buyer's cancellation or by
\* the cancellation of the travel (wallet.service.ts:154, "idempotencia").
RefundedOnce ==
  \A c \in Customers : \A i, j \in DOMAIN credit[c] :
    credit[c][i].source \in Tickets /\ credit[c][i].source = credit[c][j].source
      => i = j

\* wallets.balance, computed from a row read without a lock, is what was
\* credited less what is debited as long as no two transactions on the wallet
\* have overlapped.
BalanceExplained ==
  \A c \in Customers \ overlapped :
    balance[c] =
      SumFunction([n \in DOMAIN credit[c] |-> credit[c][n].amount])
        - SumFunction([d \in Debits(c) |-> Total(debit[d[1]][d[2]].used)])

\* A payment leaves money in a credit only when it has emptied every credit
\* that expires sooner.
OldestSpentFirst ==
  [][\A t \in Tickets : Len(debit'[t]) > Len(debit[t]) =>
       LET c == ticket[t].buyer
           used == debit'[t][Len(debit'[t])].used
       IN  \A i, j \in DOMAIN used :
             i < j /\ i > expired[c] /\ used[j] > 0
               => credit'[c][i].remaining = 0]_vars

-----------------------------------------------------------------------------
(* The inductive invariant.                                                *)

\* A debit belongs to a ticket that has a buyer, and takes from credits that
\* its buyer has.
TicketsInv ==
  \A t \in Tickets :
    /\ ticket[t].status = "none" => debit[t] = << >>
    /\ ticket[t].status # "none" => ticket[t].buyer \in Customers
    /\ Len(debit[t]) <= MaxDebits
    /\ \A i \in DOMAIN debit[t] :
         Len(debit[t][i].used) <= Len(credit[ticket[t].buyer])

\* What an open transaction x has read and may write.
Claims(x) ==
  /\ x.op = "none" => x.payees = {}
  /\ x.op = "recharge" => /\ x.subject \in QRs
                          /\ recharge[x.subject].status # "none"
  /\ x.op \notin {"none", "recharge"} =>
       /\ x.subject \in Tickets
       /\ ticket[x.subject].status # "none"
       /\ x.payees = {ticket[x.subject].buyer}
  /\ x.op = "consume" => Len(debit[x.subject]) < MaxDebits
  /\ \A c \in Customers \ overlapped :
       x.op # "none" /\ x.payees = {c} => x.balance = balance[c]

\* Two open transactions do not have the same ticket locked, and a wallet of
\* both is known to have been overlapped.
Apart(x, y) ==
  /\ x.op \in {"consume", "refund_app"} /\ y.op \in {"consume", "refund_app"}
       => x.subject # y.subject
  /\ x.payees \cap y.payees \subseteq overlapped

TxInv == /\ \A p \in Txs : Claims(tx[p])
         /\ \A p, r \in Txs : p # r => Apart(tx[p], tx[r])

\* At most one CREDIT row per recharge, and only of a PAID one.
RechargesInv ==
  \A c, d \in Customers : \A m \in DOMAIN credit[c], n \in DOMAIN credit[d] :
    credit[c][m].source \in QRs =>
      /\ recharge[credit[c][m].source].status = "paid"
      /\ credit[c][m].source = credit[d][n].source => c = d /\ m = n

LedgerInv == /\ TypeOK /\ TicketsInv /\ TxInv /\ RechargesInv
             /\ CreditsConserved /\ BalanceExplained
=============================================================================
