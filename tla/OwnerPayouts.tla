---------------------------- MODULE OwnerPayouts ----------------------------
(***************************************************************************)
(* Payouts to the owners of closed travels.  processTransaction opens a    *)
(* payout, has the bank load it as a batch, has the batch authorised and   *)
(* marks the travel as paid; verifyTransaction asks what became of it.     *)
(* Each database statement after the first transaction commits by itself,  *)
(* and save() writes every column of the entity that differs from the row: *)
(* an entity read before an await is written back after it.                *)
(***************************************************************************)
EXTENDS Integers, FiniteSets

CONSTANTS
  Travels,
  Payouts,   \* rows of transactions, one per processTransaction request
  Verifies,  \* verifyTransaction requests that can be open at a time
  Null

ASSUME NullAssumption == Null \notin Payouts \cup Travels

VARIABLES
  travel,   \* travels: travel_status, net_to_company > 0, isPaid, transactionId
  payout,   \* transactions: status and the travel of travelsSnapshot
  bank,     \* the bank's batch for each payout (external)
  request,  \* how far the processTransaction request of a payout has come
  verify,   \* verifyTransaction requests and what they have read
  muddled   \* history: travels two requests were about at a time, or whose
            \* money moved, or came back, without the books following

vars == <<travel, payout, bank, request, verify, muddled>>

-----------------------------------------------------------------------------

TravelRow == [closed : BOOLEAN, due : BOOLEAN, isPaid : BOOLEAN,
              payout : Payouts \cup {Null}]
Verifiable == {"AUTHORIZED", "IN_PROGRESS"}
Answer == {"COMPLETED", "IN_PROGRESS", "FAILED"}
TransactionStatus == {"none", "PENDING", "PROCESSED"} \cup Verifiable \cup Answer
PayoutRow == [status : TransactionStatus, travel : Travels \cup {Null}]
\* What the bank does with a batch: "sent" and "asked" are calls that have
\* not arrived.
Acted == {"authorized", "settled", "rejected"}
Batch == {"none", "sent", "loaded", "asked", "refused"} \cup Acted
Stage == {"none", "processing", "processed", "authorizing", "marking"}
\* An idle verification has no payout.
VerifyRecord == [stage : {"none", "read", "asked", "told", "saving"},
                 payout : Payouts \cup {Null},
                 status : Verifiable \cup Answer]

TypeOK ==
  /\ travel \in [Travels -> TravelRow]
  /\ payout \in [Payouts -> PayoutRow]
  /\ bank \in [Payouts -> Batch]
  /\ request \in [Payouts -> Stage]
  /\ verify \in [Verifies -> VerifyRecord]
  /\ muddled \subseteq Travels

IdleVerify == [stage |-> "none", payout |-> Null, status |-> "AUTHORIZED"]

Init ==
  /\ travel = [t \in Travels |-> [closed |-> FALSE, due |-> FALSE,
                                  isPaid |-> FALSE, payout |-> Null]]
  /\ payout = [x \in Payouts |-> [status |-> "none", travel |-> Null]]
  /\ bank = [x \in Payouts |-> "none"]
  /\ request = [x \in Payouts |-> "none"]
  /\ verify = [v \in Verifies |-> IdleVerify]
  /\ muddled = {}

\* A request about travel t is under way.
Open(t) ==
  \/ \E x \in Payouts : request[x] # "none" /\ payout[x].travel = t
  \/ \E v \in Verifies : /\ verify[v].stage # "none"
                         /\ payout[verify[v].payout].travel = t

Muddles(T) == muddled' = muddled \cup T

Stages(x, stage) == request' = [request EXCEPT ![x] = stage]
Saves(x, status) == payout' = [payout EXCEPT ![x].status = status]

-----------------------------------------------------------------------------
(* processTransaction.                                                     *)

\* close: nothing to pay means paid.
CloseTravel(t, due) ==
  /\ ~travel[t].closed
  /\ travel' = [travel EXCEPT ![t].closed = TRUE, ![t].due = due,
                              ![t].isPaid = ~due]
  /\ UNCHANGED <<payout, bank, request, verify, muddled>>

\* Mutant: a paid travel can be paid again.
PayableAgain(t) == travel[t].closed /\ travel[t].due

\* The travel that prepareTransaction looks for, without a lock.
Payable(t) == travel[t].closed /\ ~travel[t].isPaid /\ travel[t].due

\* prepareTransaction commits the PENDING row, then the bank is called.
Prepare(x, t) ==
  /\ payout[x].status = "none"
  /\ Payable(t)
  /\ payout' = [payout EXCEPT ![x] = [status |-> "PENDING", travel |-> t]]
  /\ bank' = [bank EXCEPT ![x] = "sent"]
  /\ Stages(x, "processing")
  /\ Muddles({t} \cap {u \in Travels : Open(u)})
  /\ UNCHANGED <<travel, verify>>

\* The bank's answer carries the batch id.
ProcessAnswered(x) ==
  /\ request[x] = "processing" /\ bank[x] = "loaded"
  /\ Saves(x, "PROCESSED")
  /\ Stages(x, "processed")
  /\ UNCHANGED <<travel, bank, verify, muddled>>

\* The bank says no, or its answer does not come.
ProcessFails(x) ==
  /\ request[x] = "processing"
  /\ Saves(x, "FAILED")
  /\ Stages(x, "none")
  /\ UNCHANGED <<travel, bank, verify, muddled>>

\* authorizeTransaction finds the PROCESSED row and calls the bank.
AskAuthorization(x) ==
  /\ request[x] = "processed" /\ payout[x].status = "PROCESSED"
  /\ bank' = [bank EXCEPT ![x] = "asked"]
  /\ Stages(x, "authorizing")
  /\ UNCHANGED <<travel, payout, verify, muddled>>

\* Mutant: response.Code is not looked at.
AnyAnswer(x) == bank[x] \in Acted \cup {"refused"}

\* response.Code is SUCCESS.
Accepted(x) == bank[x] \in Acted

AuthorizeAnswered(x) ==
  /\ request[x] = "authorizing" /\ Accepted(x)
  /\ Saves(x, "AUTHORIZED")
  /\ Stages(x, "marking")
  /\ UNCHANGED <<travel, bank, verify, muddled>>

\* Mutant: with "return await" the catch of processTransaction would run.
AwaitedCatch(x) == "FAILED"

\* processTransaction returns the promise of authorizeTransaction without
\* awaiting it: its catch does not see this failure.
AfterFailedAuthorize(x) == payout[x].status

AuthorizeFails(x) ==
  /\ request[x] = "authorizing"
  /\ Saves(x, AfterFailedAuthorize(x))
  /\ Stages(x, "none")
  /\ Muddles(IF bank[x] = "refused" THEN {} ELSE {payout[x].travel})
  /\ UNCHANGED <<travel, bank, verify>>

MarkTravel(x) ==
  /\ request[x] = "marking"
  /\ travel' = [travel EXCEPT ![payout[x].travel].isPaid = TRUE,
                              ![payout[x].travel].payout = x]
  /\ Stages(x, "none")
  /\ UNCHANGED <<payout, bank, verify, muddled>>

\* The UPDATE of the travel fails, or the save before it did: the catch
\* saves the entity, AUTHORIZED by now, whatever the row has become.
MarkFails(x) ==
  /\ request[x] = "marking"
  /\ Saves(x, "AUTHORIZED")
  /\ Stages(x, "none")
  /\ Muddles({payout[x].travel})
  /\ UNCHANGED <<travel, bank, verify>>

-----------------------------------------------------------------------------
(* verifyTransaction.                                                      *)

StartVerify(v, x) ==
  /\ verify[v].stage = "none"
  /\ payout[x].status \in Verifiable
  /\ verify' = [verify EXCEPT ![v] = [stage |-> "read", payout |-> x,
                                      status |-> payout[x].status]]
  /\ Muddles({payout[x].travel} \cap {t \in Travels : Open(t)})
  /\ UNCHANGED <<travel, payout, bank, request>>

\* The row is saved with the status that was read, and the bank is asked.
AskBank(v) ==
  /\ verify[v].stage = "read"
  /\ Saves(verify[v].payout, verify[v].status)
  /\ verify' = [verify EXCEPT ![v].stage = "asked"]
  /\ UNCHANGED <<travel, bank, request, muddled>>

\* Mutant: what the bank has not refused is complete.
Optimistic(b) == IF b = "rejected" THEN "FAILED" ELSE "COMPLETED"
\* Mutant: a status nothing else knows.
WithPartial(b) == IF b = "rejected" THEN "PARTIAL" ELSE "COMPLETED"

\* The status for the bank's StatusOperation.
Outcome(b) == CASE b = "settled" -> "COMPLETED"
                [] b = "authorized" -> "IN_PROGRESS"
                [] OTHER -> "FAILED"

BankTells(v) ==
  /\ verify[v].stage = "asked"
  /\ verify' = [verify EXCEPT ![v].stage = "told",
                              ![v].status = Outcome(bank[verify[v].payout])]
  /\ UNCHANGED <<travel, payout, bank, request, muddled>>

\* No answer, or one without a result or a payment: an exception.
VerifyFails(v) ==
  /\ verify[v].stage = "asked"
  /\ verify' = [verify EXCEPT ![v] = IdleVerify]
  /\ UNCHANGED <<travel, payout, bank, request, muddled>>

\* Mutant: a rejected payout leaves the travel paid.
StaysPaid(status) == TRUE

PaidAfter(status) == status # "FAILED"

\* The failed branch leaves transactionId alone.
VerifyTravel(v) ==
  LET x == verify[v].payout
      t == payout[x].travel
      paid == PaidAfter(verify[v].status)
  IN  /\ verify[v].stage = "told"
      /\ travel' = [travel EXCEPT
                      ![t].isPaid = paid,
                      ![t].payout = IF paid THEN x ELSE @]
      /\ verify' = [verify EXCEPT ![v].stage = "saving"]
      /\ UNCHANGED <<payout, bank, request, muddled>>

VerifySaves(v) ==
  /\ verify[v].stage = "saving"
  /\ Saves(verify[v].payout, verify[v].status)
  /\ verify' = [verify EXCEPT ![v] = IdleVerify]
  /\ UNCHANGED <<travel, bank, request, muddled>>

-----------------------------------------------------------------------------
(* The bank, and the server's restarts.                                    *)

BankStep(x, from, to) ==
  /\ bank[x] = from
  /\ bank' = [bank EXCEPT ![x] = to]
  /\ UNCHANGED <<travel, payout, request, verify, muddled>>

BankActs(x) ==
  \/ BankStep(x, "sent", "loaded")
  \/ BankStep(x, "sent", "refused")
  \/ BankStep(x, "asked", "authorized")
  \/ BankStep(x, "asked", "refused")
  \/ BankStep(x, "authorized", "settled")
  \/ BankStep(x, "authorized", "rejected")

\* The verification has taken the travel of x back and has yet to say so.
TakenBack(x) == \E v \in Verifies : /\ verify[v].stage = "saving"
                                    /\ verify[v].status = "FAILED"
                                    /\ verify[v].payout = x

Restart ==
  /\ request' = [x \in Payouts |-> "none"]
  /\ verify' = [v \in Verifies |-> IdleVerify]
  /\ Muddles({t \in Travels : \E x \in Payouts :
                /\ payout[x].travel = t
                /\ request[x] \in {"authorizing", "marking"} \/ TakenBack(x)})
  /\ UNCHANGED <<travel, payout, bank>>

-----------------------------------------------------------------------------

Next ==
  \/ \E t \in Travels, due \in BOOLEAN : CloseTravel(t, due)
  \/ \E x \in Payouts, t \in Travels : Prepare(x, t)
  \/ \E x \in Payouts : ProcessAnswered(x)
  \/ \E x \in Payouts : ProcessFails(x)
  \/ \E x \in Payouts : AskAuthorization(x)
  \/ \E x \in Payouts : AuthorizeAnswered(x)
  \/ \E x \in Payouts : AuthorizeFails(x)
  \/ \E x \in Payouts : MarkTravel(x)
  \/ \E x \in Payouts : MarkFails(x)
  \/ \E v \in Verifies, x \in Payouts : StartVerify(v, x)
  \/ \E v \in Verifies : AskBank(v)
  \/ \E v \in Verifies : BankTells(v)
  \/ \E v \in Verifies : VerifyFails(v)
  \/ \E v \in Verifies : VerifyTravel(v)
  \/ \E v \in Verifies : VerifySaves(v)
  \/ \E x \in Payouts : BankActs(x)
  \/ Restart

Spec == Init /\ [][Next]_vars

-----------------------------------------------------------------------------
(* Properties.                                                             *)

\* A travel that names a payout names one of its own, which the bank had
\* authorised, whatever gets lost and however requests overlap.
PaidMeansAuthorised ==
  \A t \in Travels :
    LET x == travel[t].payout
    IN  x # Null => payout[x].travel = t /\ bank[x] \in Acted

\* A payout recorded as FAILED never moved money, so that paying the travel
\* again is right: the payout of a lost authorisation is not FAILED.
FailedMovesNoMoney ==
  \A x \in Payouts :
    payout[x].status = "FAILED" => bank[x] \notin {"authorized", "settled"}

\* COMPLETED is recorded only when the bank has settled, although a late
\* verification may still write an older status over it.
CompletedMeansSettled ==
  \A x \in Payouts : payout[x].status = "COMPLETED" => bank[x] = "settled"

\* The payouts of travel t that have moved or will move money.
Effective(t) == {x \in Payouts : /\ payout[x].travel = t
                                 /\ bank[x] \in {"authorized", "settled"}}

\* An owner is paid once for a travel, through rejections, retries, lost
\* answers and restarts, unless two requests were about the travel at a time,
\* or an authorisation, or a verification that takes it back, was cut short.
PaidOnce == \A t \in Travels \ muddled : Cardinality(Effective(t)) <= 1

\* The statuses of a payout that is under way or complete.
Live == Verifiable \cup {"COMPLETED"}

\* Between requests, a travel that owes money is paid exactly when one of its
\* payouts is under way or complete, and then it names that payout.
BooksAgree ==
  \A t \in Travels \ muddled :
    LET live == {x \in Payouts :
                   payout[x].travel = t /\ payout[x].status \in Live}
    IN  travel[t].due /\ ~Open(t) =>
          IF travel[t].isPaid THEN live = {travel[t].payout} ELSE live = {}

-----------------------------------------------------------------------------
(* The inductive invariant.                                                *)

\* How far a request, its row and the bank may be apart.
RequestInv ==
  \A x \in Payouts :
    /\ payout[x].status = "none" => bank[x] = "none" /\ request[x] = "none"
    /\ payout[x].status # "none" => payout[x].travel \in Travels
    /\ request[x] = "processing" => bank[x] \in {"sent", "loaded", "refused"}
    /\ request[x] = "processed" => bank[x] = "loaded"
    /\ request[x] \in {"processing", "processed"}
         => payout[x].status \in {"PENDING", "PROCESSED"}
    /\ request[x] = "marking" => bank[x] \in Acted

\* The bank acted on what is verifiable or complete, settled what is
\* complete, and was not even asked for, or rejected, what has failed.
StatusInv ==
  \A x \in Payouts :
    /\ payout[x].status \in Verifiable => bank[x] \in Acted
    /\ payout[x].status = "COMPLETED" => bank[x] = "settled"
    /\ payout[x].status = "FAILED"
         => bank[x] \in {"sent", "loaded", "refused", "rejected"}

\* The same for the statuses that verifications are about to write.
VerifyInv ==
  \A v \in Verifies :
    LET x == verify[v].payout
    IN  verify[v].stage # "none" =>
          /\ x \in Payouts
          /\ payout[x].status # "none"
          /\ bank[x] \in Acted
          /\ verify[v].status = "COMPLETED" => bank[x] = "settled"
          /\ verify[v].status = "FAILED" => bank[x] = "rejected"

\* Together with the types this is inductive.
PayoutInv == TypeOK /\ RequestInv /\ StatusInv /\ VerifyInv /\ PaidMeansAuthorised

-----------------------------------------------------------------------------
(* What is inductive besides, for travels that are not muddled: PaidOnce   *)
(* and BooksAgree need it.                                                 *)

Clear(x) == payout[x].status # "none" /\ payout[x].travel \notin muddled

\* A travel has one request at a time.
OneAtATime ==
  /\ \A x, y \in Payouts :
       /\ Clear(x) /\ request[x] # "none"
       /\ Clear(y) /\ request[y] # "none" /\ payout[x].travel = payout[y].travel
       => x = y
  /\ \A v, w \in Verifies :
       /\ verify[v].stage # "none" /\ Clear(verify[v].payout)
       /\ verify[w].stage # "none"
       /\ payout[verify[v].payout].travel = payout[verify[w].payout].travel
       => v = w
  /\ \A x \in Payouts, v \in Verifies :
       /\ Clear(x) /\ request[x] # "none" /\ verify[v].stage # "none"
       => payout[verify[v].payout].travel # payout[x].travel

\* The travel of a payout is paid, and names that payout.
Holds(x) == LET t == payout[x].travel
            IN  travel[t].isPaid /\ travel[t].payout = x

\* Payout x is for a travel that owes money, has its request as long as the
\* bank is asked to act, and holds the travel from then on, unless it fails.
Keeps(x) ==
  /\ travel[payout[x].travel].closed /\ travel[payout[x].travel].due
  /\ bank[x] = "asked" => request[x] = "authorizing"
  /\ request[x] = "authorizing" => /\ payout[x].status = "PROCESSED"
                                   /\ bank[x] \notin {"sent", "loaded"}
  /\ request[x] = "marking" => payout[x].status = "AUTHORIZED"
  /\ request[x] # "none" => ~travel[payout[x].travel].isPaid
  /\ request[x] = "none" =>
       /\ bank[x] \in {"authorized", "settled"} => Holds(x)
       /\ payout[x].status \in Live /\ ~TakenBack(x) => Holds(x)

HoldInv == \A x \in Payouts : Clear(x) => Keeps(x)

\* A verification is of a payout that may be verified, and takes the travel
\* back before it records that the payout failed.
VerifyHoldInv ==
  \A v \in Verifies :
    verify[v].stage # "none" /\ Clear(verify[v].payout) =>
      /\ payout[verify[v].payout].status \in Verifiable
      /\ verify[v].stage \in {"read", "asked"} => verify[v].status \in Verifiable
      /\ verify[v].stage = "saving" /\ verify[v].status = "FAILED"
           => ~travel[payout[verify[v].payout].travel].isPaid

\* What is paid and was owed names the payout that paid it.
PaidInv ==
  \A t \in Travels \ muddled :
    travel[t].due /\ travel[t].isPaid =>
      travel[t].payout # Null /\ payout[travel[t].payout].status \in Live

\* Together with PayoutInv this is inductive.
ClearInv == OneAtATime /\ HoldInv /\ VerifyHoldInv /\ PaidInv
=============================================================================
