------------------------- MODULE OwnerPayoutsProofs -------------------------
(***************************************************************************)
(* Proofs about OwnerPayouts, for any number of travels, payouts and       *)
(* verifications.                                                          *)
(***************************************************************************)
EXTENDS OwnerPayouts, FiniteSetTheorems, TLAPS

\* No payout, no verification: the invariant holds at the start.
LEMMA InitPayoutInv == Init => PayoutInv
BY NullAssumption
   DEF Init, PayoutInv, TypeOK, RequestInv, StatusInv, VerifyInv,
       PaidMeansAuthorised, IdleVerify, TravelRow, PayoutRow, VerifyRecord,
       TransactionStatus, Verifiable, Answer, Batch, Acted, Stage

(***************************************************************************)
(* Rows stay rows.                                                         *)
(***************************************************************************)

\* Saving a status keeps the type of a payout.
LEMMA PayoutRowSaved ==
  ASSUME NEW r \in PayoutRow, NEW s \in TransactionStatus
  PROVE  [r EXCEPT !.status = s] \in PayoutRow
BY DEF PayoutRow

\* Marking a travel keeps its type.
LEMMA TravelRowPaid ==
  ASSUME NEW r \in TravelRow, NEW b \in BOOLEAN, NEW x \in Payouts \cup {Null}
  PROVE  [r EXCEPT !.isPaid = b, !.payout = x] \in TravelRow
BY DEF TravelRow

\* Closing a travel keeps its type.
LEMMA TravelRowClosed ==
  ASSUME NEW r \in TravelRow, NEW due \in BOOLEAN
  PROVE  [r EXCEPT !.closed = TRUE, !.due = due, !.isPaid = ~due] \in TravelRow
BY DEF TravelRow

\* A verification that goes on keeps its type.
LEMMA VerifyStageMoved ==
  ASSUME NEW r \in VerifyRecord,
         NEW g \in {"none", "read", "asked", "told", "saving"}
  PROVE  [r EXCEPT !.stage = g] \in VerifyRecord
BY DEF VerifyRecord

\* So does one that has the bank's answer.
LEMMA VerifyTold ==
  ASSUME NEW r \in VerifyRecord, NEW s \in Verifiable \cup Answer
  PROVE  [r EXCEPT !.stage = "told", !.status = s] \in VerifyRecord
BY DEF VerifyRecord

\* A save changes the status of one row.
LEMMA SavedRow ==
  ASSUME TypeOK, NEW x \in Payouts, NEW s, Saves(x, s)
  PROVE  \A y \in Payouts :
           /\ payout'[y].travel = payout[y].travel
           /\ payout'[y].status = IF y = x THEN s ELSE payout[y].status
<1>1. \A y \in Payouts : y # x => payout'[y] = payout[y]
  BY DEF TypeOK, Saves
<1>2. payout[x] \in PayoutRow /\ payout'[x] = [payout[x] EXCEPT !.status = s]
  BY DEF TypeOK, Saves
<1>3. payout'[x].travel = payout[x].travel /\ payout'[x].status = s
  BY <1>2 DEF PayoutRow
<1> QED
  BY <1>1, <1>3

\* A payout is not the missing one.
LEMMA PayoutIsNotNull == \A x \in Payouts : x # Null
BY NullAssumption

\* What authorizeTransaction writes to the travel of its payout.
LEMMA TravelMarked ==
  ASSUME TypeOK, RequestInv, NEW x \in Payouts, MarkTravel(x)
  PROVE  LET t == payout[x].travel
         IN  /\ t \in Travels
             /\ travel'[t].isPaid /\ travel'[t].payout = x
             /\ travel'[t].closed = travel[t].closed
             /\ travel'[t].due = travel[t].due
             /\ \A u \in Travels : u # t => travel'[u] = travel[u]
<1> DEFINE t == payout[x].travel
<1>1. t \in Travels
  BY DEF MarkTravel, RequestInv
<1>2. travel' = [travel EXCEPT ![t] = [@ EXCEPT !.isPaid = TRUE, !.payout = x]]
  BY DEF MarkTravel
<1> HIDE DEF t
<1>3. /\ travel[t] \in TravelRow
      /\ travel'[t] = [travel[t] EXCEPT !.isPaid = TRUE, !.payout = x]
      /\ \A u \in Travels : u # t => travel'[u] = travel[u]
  BY <1>1, <1>2 DEF TypeOK
<1>4. /\ travel'[t].isPaid /\ travel'[t].payout = x
      /\ travel'[t].closed = travel[t].closed
      /\ travel'[t].due = travel[t].due
  BY <1>3 DEF TravelRow
<1> QED
  BY <1>1, <1>3, <1>4 DEF t

\* What verifyTransaction writes to the travel of its payout.
LEMMA TravelVerified ==
  ASSUME TypeOK, RequestInv, VerifyInv, NEW v \in Verifies, VerifyTravel(v)
  PROVE  LET y == verify[v].payout
             t == payout[y].travel
         IN  /\ y \in Payouts /\ t \in Travels
             /\ travel'[t].isPaid <=> verify[v].status # "FAILED"
             /\ verify[v].status # "FAILED" => travel'[t].payout = y
             /\ verify[v].status = "FAILED"
                  => travel'[t].payout = travel[t].payout
             /\ travel'[t].closed = travel[t].closed
             /\ travel'[t].due = travel[t].due
             /\ \A u \in Travels : u # t => travel'[u] = travel[u]
<1> DEFINE y == verify[v].payout
           t == payout[y].travel
           paid == PaidAfter(verify[v].status)
           z == IF paid THEN y ELSE travel[t].payout
<1>1. y \in Payouts /\ t \in Travels
  BY DEF VerifyTravel, VerifyInv, RequestInv
<1>2. travel' = [travel EXCEPT ![t] = [@ EXCEPT !.isPaid = paid,
                                                !.payout = z]]
  BY DEF VerifyTravel
<1>3. /\ paid <=> verify[v].status # "FAILED"
      /\ verify[v].status # "FAILED" => z = y
      /\ verify[v].status = "FAILED" => z = travel[t].payout
  BY DEF PaidAfter
<1> HIDE DEF y, t, z, paid
<1>4. /\ travel[t] \in TravelRow
      /\ travel'[t] = [travel[t] EXCEPT !.isPaid = paid, !.payout = z]
      /\ \A u \in Travels : u # t => travel'[u] = travel[u]
  BY <1>1, <1>2 DEF TypeOK
<1>5. /\ travel'[t].isPaid = paid /\ travel'[t].payout = z
      /\ travel'[t].closed = travel[t].closed
      /\ travel'[t].due = travel[t].due
  BY <1>4 DEF TravelRow
<1> QED
  BY <1>1, <1>3, <1>4, <1>5 DEF y, t

\* Every handler keeps the rows within the statuses of the entities.
LEMMA NextTypeOK == PayoutInv /\ [Next]_vars => TypeOK'
<1> SUFFICES ASSUME PayoutInv, [Next]_vars PROVE TypeOK'
  OBVIOUS
<1>a. TypeOK /\ RequestInv /\ VerifyInv
  BY DEF PayoutInv
<1>b. IdleVerify \in VerifyRecord
  BY DEF IdleVerify, VerifyRecord, Verifiable
<1>1. ASSUME NEW t \in Travels, NEW due \in BOOLEAN, CloseTravel(t, due)
      PROVE  TypeOK'
  BY <1>a, <1>1, TravelRowClosed DEF TypeOK, CloseTravel
<1>2. ASSUME NEW x \in Payouts, NEW t \in Travels, Prepare(x, t)
      PROVE  TypeOK'
  BY <1>a, <1>2 DEF TypeOK, Prepare, Stages, Muddles, PayoutRow,
     TransactionStatus, Batch, Stage
<1>3. ASSUME NEW x \in Payouts, NEW s \in TransactionStatus, NEW g \in Stage,
             Saves(x, s), Stages(x, g), UNCHANGED <<travel, bank, verify>>,
             muddled' \subseteq Travels
      PROVE  TypeOK'
  BY <1>a, <1>3, PayoutRowSaved DEF TypeOK, Stages, Saves
<1>4. ASSUME NEW x \in Payouts,
             \/ ProcessAnswered(x) \/ ProcessFails(x) \/ AuthorizeAnswered(x)
             \/ AuthorizeFails(x) \/ MarkFails(x)
      PROVE  TypeOK'
  <2>1. /\ {"PROCESSED", "FAILED", "AUTHORIZED", payout[x].status}
              \subseteq TransactionStatus
        /\ {"none", "processed", "marking"} \subseteq Stage
    BY <1>a DEF TypeOK, PayoutRow, TransactionStatus, Verifiable, Answer, Stage
  <2> QED
    <3>1. payout[x].travel \in Travels /\ muddled \subseteq Travels
      BY <1>a, <1>4 DEF TypeOK, RequestInv, ProcessAnswered, ProcessFails,
         AuthorizeAnswered, AuthorizeFails, MarkFails
    <3>2. muddled' \subseteq Travels
      BY <1>4, <3>1 DEF ProcessAnswered, ProcessFails, AuthorizeAnswered,
         AuthorizeFails, MarkFails, Muddles
    <3> QED
      BY <1>3, <1>4, <2>1, <3>2
         DEF ProcessAnswered, ProcessFails, AuthorizeAnswered, AuthorizeFails,
             AfterFailedAuthorize, MarkFails
<1>5. ASSUME NEW x \in Payouts, AskAuthorization(x)  PROVE TypeOK'
  BY <1>a, <1>5 DEF TypeOK, AskAuthorization, Stages, Batch, Stage
<1>6. ASSUME NEW x \in Payouts, MarkTravel(x)  PROVE TypeOK'
  BY <1>a, <1>6, TravelRowPaid DEF TypeOK, MarkTravel, Stages, Stage
<1>7. ASSUME NEW v \in Verifies, NEW x \in Payouts, StartVerify(v, x)
      PROVE  TypeOK'
  BY <1>a, <1>7 DEF TypeOK, StartVerify, VerifyRecord, Muddles
<1>8. ASSUME NEW v \in Verifies, AskBank(v) \/ VerifySaves(v)  PROVE TypeOK'
  <2>1. verify[v].status \in TransactionStatus
    BY <1>a DEF TypeOK, VerifyRecord, TransactionStatus
  <2>2. verify[v].payout \in Payouts
    BY <1>a, <1>8 DEF VerifyInv, AskBank, VerifySaves
  <2>3. payout' \in [Payouts -> PayoutRow]
    BY <1>a, <1>8, <2>1, <2>2, PayoutRowSaved
       DEF TypeOK, AskBank, VerifySaves, Saves
  <2>4. verify' \in [Verifies -> VerifyRecord]
    <3>1. CASE AskBank(v)
      BY <1>a, <3>1, VerifyStageMoved DEF TypeOK, AskBank
    <3>2. CASE VerifySaves(v)
      BY <1>a, <1>b, <3>2 DEF TypeOK, VerifySaves
    <3> QED
      BY <1>8, <3>1, <3>2
  <2> QED
    BY <1>a, <1>8, <2>3, <2>4 DEF TypeOK, AskBank, VerifySaves
<1>9. ASSUME NEW v \in Verifies, BankTells(v) \/ VerifyFails(v)
      PROVE  TypeOK'
  <2>1. \A b : Outcome(b) \in Verifiable \cup Answer
    BY DEF Outcome, Answer
  <2>2. CASE BankTells(v)
    <3> DEFINE s == Outcome(bank[verify[v].payout])
    <3>1. verify' = [verify EXCEPT ![v] = [@ EXCEPT !.stage = "told",
                                                    !.status = s]]
      BY <2>2 DEF BankTells
    <3>2. s \in Verifiable \cup Answer
      BY <2>1
    <3> HIDE DEF s
    <3>3. verify' \in [Verifies -> VerifyRecord]
      BY <1>a, <3>1, <3>2, VerifyTold DEF TypeOK
    <3> QED
      BY <1>a, <2>2, <3>3 DEF TypeOK, BankTells
  <2>3. CASE VerifyFails(v)
    BY <1>a, <1>b, <2>3 DEF TypeOK, VerifyFails
  <2> QED
    BY <1>9, <2>2, <2>3
<1>10. ASSUME NEW v \in Verifies, VerifyTravel(v)  PROVE TypeOK'
  <2> DEFINE x == verify[v].payout
             paid == PaidAfter(verify[v].status)
             t == payout[x].travel
             y == IF paid THEN x ELSE travel[t].payout
  <2>1. x \in Payouts
    BY <1>a, <1>10 DEF VerifyInv, VerifyTravel
  <2>2. travel' = [travel EXCEPT ![t] = [@ EXCEPT !.isPaid = paid,
                                                  !.payout = y]]
    BY <1>10 DEF VerifyTravel
  <2>3. t \in Travels => y \in Payouts \cup {Null}
    BY <1>a, <2>1 DEF TypeOK, TravelRow
  <2>4. paid \in BOOLEAN
    BY DEF PaidAfter
  <2> HIDE DEF x, t, y, paid
  <2>5. travel' \in [Travels -> TravelRow]
    BY <1>a, <2>2, <2>3, <2>4, TravelRowPaid DEF TypeOK
  <2> QED
    BY <1>a, <1>10, <2>5, VerifyStageMoved DEF TypeOK, VerifyTravel
<1>11. ASSUME NEW x \in Payouts, BankActs(x)  PROVE TypeOK'
  BY <1>a, <1>11 DEF TypeOK, BankActs, BankStep, Batch, Acted
<1>12. ASSUME Restart  PROVE TypeOK'
  BY <1>a, <1>b, <1>12 DEF TypeOK, Restart, Stage, Muddles
<1>13. ASSUME UNCHANGED vars  PROVE TypeOK'
  BY <1>a, <1>13 DEF TypeOK, vars
<1> QED
  BY <1>1, <1>2, <1>4, <1>5, <1>6, <1>7, <1>8, <1>9, <1>10, <1>11, <1>12,
     <1>13 DEF Next

\* A request and its row advance together with the bank.
LEMMA NextRequestInv == PayoutInv /\ [Next]_vars => RequestInv'
<1> SUFFICES ASSUME PayoutInv, [Next]_vars PROVE RequestInv'
  OBVIOUS
<1> USE DEF PayoutInv, TypeOK, RequestInv, PayoutRow, VerifyRecord,
            TransactionStatus, Verifiable, Answer, Batch, Acted, Stage
<1>1. ASSUME NEW t \in Travels, NEW due \in BOOLEAN, CloseTravel(t, due)
      PROVE  RequestInv'
  BY <1>1 DEF CloseTravel
<1>2. ASSUME NEW x \in Payouts, NEW t \in Travels, Prepare(x, t)
      PROVE  RequestInv'
  BY <1>2 DEF Prepare, Stages
<1>3. ASSUME NEW x \in Payouts, ProcessAnswered(x) \/ ProcessFails(x)
      PROVE  RequestInv'
  BY <1>3 DEF ProcessAnswered, ProcessFails, Stages, Saves
<1>4. ASSUME NEW x \in Payouts, AskAuthorization(x)
      PROVE  RequestInv'
  BY <1>4 DEF AskAuthorization, Stages
<1>5. ASSUME NEW x \in Payouts, AuthorizeAnswered(x) \/ MarkFails(x)
      PROVE  RequestInv'
  BY <1>5 DEF AuthorizeAnswered, Accepted, MarkFails, Stages, Saves
<1>6. ASSUME NEW x \in Payouts, AuthorizeFails(x)
      PROVE  RequestInv'
  BY <1>6 DEF AuthorizeFails, AfterFailedAuthorize, Stages, Saves
<1>7. ASSUME NEW x \in Payouts, MarkTravel(x)
      PROVE  RequestInv'
  BY <1>7 DEF MarkTravel, Stages
<1>8. ASSUME NEW v \in Verifies, NEW x \in Payouts, StartVerify(v, x)
      PROVE  RequestInv'
  BY <1>8 DEF StartVerify
<1>9. ASSUME NEW v \in Verifies, AskBank(v) \/ VerifySaves(v)
      PROVE  RequestInv'
  <2>1. /\ Saves(verify[v].payout, verify[v].status)
        /\ verify[v].payout \in Payouts
        /\ payout[verify[v].payout].status # "none"
        /\ bank[verify[v].payout] \in Acted
        /\ verify[v].status = "COMPLETED" => bank[verify[v].payout] = "settled"
        /\ verify[v].status = "FAILED" => bank[verify[v].payout] = "rejected"
        /\ UNCHANGED <<bank, request>>
    BY <1>9 DEF AskBank, VerifySaves, VerifyInv
  <2>2. verify[v].status \in Verifiable \cup Answer
    OBVIOUS
  <2> QED
    BY <2>1, <2>2, SavedRow DEF StatusInv
<1>10. ASSUME NEW v \in Verifies, BankTells(v) \/ VerifyFails(v)
      PROVE  RequestInv'
  BY <1>10 DEF BankTells, Outcome, VerifyFails, IdleVerify
<1>11. ASSUME NEW v \in Verifies, VerifyTravel(v)
      PROVE  RequestInv'
  BY <1>11 DEF VerifyTravel, PaidAfter
<1>12. ASSUME NEW x \in Payouts, BankActs(x)
      PROVE  RequestInv'
  BY <1>12 DEF BankActs, BankStep
<1>13. ASSUME Restart
      PROVE  RequestInv'
  BY <1>13 DEF Restart, IdleVerify
<1>14. ASSUME UNCHANGED vars
      PROVE  RequestInv'
  BY <1>14 DEF vars
<1> HIDE DEF PayoutInv, TypeOK, RequestInv
<1> QED
  BY <1>1, <1>2, <1>3, <1>4, <1>5, <1>6, <1>7, <1>8, <1>9, <1>10, <1>11,
     <1>12, <1>13, <1>14 DEF Next

\* No handler writes a status that the bank does not justify.
LEMMA NextStatusInv == PayoutInv /\ [Next]_vars => StatusInv'
<1> SUFFICES ASSUME PayoutInv, [Next]_vars PROVE StatusInv'
  OBVIOUS
<1> USE DEF PayoutInv, TypeOK, StatusInv, PayoutRow, VerifyRecord,
            TransactionStatus, Verifiable, Answer, Batch, Acted, Stage
<1>1. ASSUME NEW t \in Travels, NEW due \in BOOLEAN, CloseTravel(t, due)
      PROVE  StatusInv'
  BY <1>1 DEF CloseTravel
<1>2. ASSUME NEW x \in Payouts, NEW t \in Travels, Prepare(x, t)
      PROVE  StatusInv'
  BY <1>2 DEF Prepare, Stages
<1>3. ASSUME NEW x \in Payouts, ProcessAnswered(x) \/ ProcessFails(x)
      PROVE  StatusInv'
  BY <1>3 DEF ProcessAnswered, ProcessFails, Stages, Saves, RequestInv
<1>4. ASSUME NEW x \in Payouts, AskAuthorization(x)
      PROVE  StatusInv'
  BY <1>4 DEF AskAuthorization, Stages
<1>5. ASSUME NEW x \in Payouts, AuthorizeAnswered(x) \/ MarkFails(x)
      PROVE  StatusInv'
  BY <1>5
     DEF AuthorizeAnswered, Accepted, MarkFails, Stages, Saves, RequestInv
<1>6. ASSUME NEW x \in Payouts, AuthorizeFails(x)
      PROVE  StatusInv'
  BY <1>6 DEF AuthorizeFails, AfterFailedAuthorize, Stages, Saves
<1>7. ASSUME NEW x \in Payouts, MarkTravel(x)
      PROVE  StatusInv'
  BY <1>7 DEF MarkTravel, Stages
<1>8. ASSUME NEW v \in Verifies, NEW x \in Payouts, StartVerify(v, x)
      PROVE  StatusInv'
  BY <1>8 DEF StartVerify
<1>9. ASSUME NEW v \in Verifies, AskBank(v) \/ VerifySaves(v)
      PROVE  StatusInv'
  <2>1. /\ Saves(verify[v].payout, verify[v].status)
        /\ verify[v].payout \in Payouts
        /\ payout[verify[v].payout].status # "none"
        /\ bank[verify[v].payout] \in Acted
        /\ verify[v].status = "COMPLETED" => bank[verify[v].payout] = "settled"
        /\ verify[v].status = "FAILED" => bank[verify[v].payout] = "rejected"
        /\ UNCHANGED <<bank, request>>
    BY <1>9 DEF AskBank, VerifySaves, VerifyInv
  <2>2. verify[v].status \in Verifiable \cup Answer
    OBVIOUS
  <2> QED
    BY <2>1, <2>2, SavedRow DEF RequestInv
<1>10. ASSUME NEW v \in Verifies, BankTells(v) \/ VerifyFails(v)
      PROVE  StatusInv'
  BY <1>10 DEF BankTells, Outcome, VerifyFails, IdleVerify
<1>11. ASSUME NEW v \in Verifies, VerifyTravel(v)
      PROVE  StatusInv'
  BY <1>11 DEF VerifyTravel, PaidAfter
<1>12. ASSUME NEW x \in Payouts, BankActs(x)
      PROVE  StatusInv'
  BY <1>12 DEF BankActs, BankStep
<1>13. ASSUME Restart
      PROVE  StatusInv'
  BY <1>13 DEF Restart, IdleVerify
<1>14. ASSUME UNCHANGED vars
      PROVE  StatusInv'
  BY <1>14 DEF vars
<1> HIDE DEF PayoutInv, TypeOK, StatusInv
<1> QED
  BY <1>1, <1>2, <1>3, <1>4, <1>5, <1>6, <1>7, <1>8, <1>9, <1>10, <1>11,
     <1>12, <1>13, <1>14 DEF Next

\* What a verification is about to write stays justified meanwhile.
LEMMA NextVerifyInv == PayoutInv /\ [Next]_vars => VerifyInv'
<1> SUFFICES ASSUME PayoutInv, [Next]_vars PROVE VerifyInv'
  OBVIOUS
<1> USE DEF PayoutInv, TypeOK, VerifyInv, PayoutRow, VerifyRecord,
            TransactionStatus, Verifiable, Answer, Batch, Acted, Stage
<1>1. ASSUME NEW t \in Travels, NEW due \in BOOLEAN, CloseTravel(t, due)
      PROVE  VerifyInv'
  BY <1>1 DEF CloseTravel
<1>2. ASSUME NEW x \in Payouts, NEW t \in Travels, Prepare(x, t)
      PROVE  VerifyInv'
  BY <1>2 DEF Prepare, Stages
<1>3. ASSUME NEW x \in Payouts, ProcessAnswered(x) \/ ProcessFails(x)
      PROVE  VerifyInv'
  BY <1>3 DEF ProcessAnswered, ProcessFails, Stages, Saves
<1>4. ASSUME NEW x \in Payouts, AskAuthorization(x)
      PROVE  VerifyInv'
  BY <1>4 DEF AskAuthorization, Stages, RequestInv
<1>5. ASSUME NEW x \in Payouts, AuthorizeAnswered(x) \/ MarkFails(x)
      PROVE  VerifyInv'
  <2>1. Saves(x, "AUTHORIZED") /\ UNCHANGED <<bank, verify>>
    BY <1>5 DEF AuthorizeAnswered, MarkFails
  <2> QED
    BY <2>1, SavedRow
<1>6. ASSUME NEW x \in Payouts, AuthorizeFails(x)
      PROVE  VerifyInv'
  BY <1>6 DEF AuthorizeFails, AfterFailedAuthorize, Stages, Saves
<1>7. ASSUME NEW x \in Payouts, MarkTravel(x)
      PROVE  VerifyInv'
  BY <1>7 DEF MarkTravel, Stages
<1>8. ASSUME NEW v \in Verifies, NEW x \in Payouts, StartVerify(v, x)
      PROVE  VerifyInv'
  BY <1>8 DEF StartVerify, StatusInv
<1>9. ASSUME NEW v \in Verifies, AskBank(v) \/ VerifySaves(v)
      PROVE  VerifyInv'
  BY <1>9 DEF AskBank, VerifySaves, Saves, IdleVerify, StatusInv
<1>10. ASSUME NEW v \in Verifies, BankTells(v) \/ VerifyFails(v)
      PROVE  VerifyInv'
  <2>1. CASE BankTells(v)
    BY <2>1 DEF BankTells, Outcome
  <2>2. CASE VerifyFails(v)
    BY <2>2 DEF VerifyFails, IdleVerify
  <2> QED
    BY <1>10, <2>1, <2>2
<1>11. ASSUME NEW v \in Verifies, VerifyTravel(v)
      PROVE  VerifyInv'
  BY <1>11 DEF VerifyTravel, PaidAfter
<1>12. ASSUME NEW x \in Payouts, BankActs(x)
      PROVE  VerifyInv'
  BY <1>12 DEF BankActs, BankStep
<1>13. ASSUME Restart
      PROVE  VerifyInv'
  BY <1>13 DEF Restart, IdleVerify
<1>14. ASSUME UNCHANGED vars
      PROVE  VerifyInv'
  BY <1>14 DEF vars
<1> HIDE DEF PayoutInv, TypeOK, VerifyInv
<1> QED
  BY <1>1, <1>2, <1>3, <1>4, <1>5, <1>6, <1>7, <1>8, <1>9, <1>10, <1>11,
     <1>12, <1>13, <1>14 DEF Next

\* A travel is only ever linked to a payout the bank acted on.
LEMMA NextPaidMeansAuthorised == PayoutInv /\ [Next]_vars => PaidMeansAuthorised'
<1> SUFFICES ASSUME PayoutInv, [Next]_vars PROVE PaidMeansAuthorised'
  OBVIOUS
<1> USE DEF PayoutInv, TypeOK, PaidMeansAuthorised, PayoutRow, VerifyRecord,
            TransactionStatus, Verifiable, Answer, Batch, Acted, Stage
<1>1. ASSUME NEW t \in Travels, NEW due \in BOOLEAN, CloseTravel(t, due)
      PROVE  PaidMeansAuthorised'
  BY <1>1 DEF CloseTravel
<1>2. ASSUME NEW x \in Payouts, NEW t \in Travels, Prepare(x, t)
      PROVE  PaidMeansAuthorised'
  BY <1>2 DEF Prepare, Stages, RequestInv
<1>3. ASSUME NEW x \in Payouts, ProcessAnswered(x) \/ ProcessFails(x)
      PROVE  PaidMeansAuthorised'
  BY <1>3
     DEF ProcessAnswered, ProcessFails, Stages, Saves, RequestInv, TravelRow
<1>4. ASSUME NEW x \in Payouts, AskAuthorization(x)
      PROVE  PaidMeansAuthorised'
  BY <1>4 DEF AskAuthorization, Stages, RequestInv
<1>5. ASSUME NEW x \in Payouts, AuthorizeAnswered(x) \/ MarkFails(x)
      PROVE  PaidMeansAuthorised'
  <2>1. Saves(x, "AUTHORIZED") /\ UNCHANGED <<travel, bank>>
    BY <1>5 DEF AuthorizeAnswered, MarkFails
  <2>2. \A y \in Payouts : payout'[y].travel = payout[y].travel
    BY <2>1, SavedRow
  <2> QED
    BY <2>1, <2>2 DEF TravelRow
<1>6. ASSUME NEW x \in Payouts, AuthorizeFails(x)
      PROVE  PaidMeansAuthorised'
  BY <1>6 DEF AuthorizeFails, AfterFailedAuthorize, Stages, Saves
<1>7. ASSUME NEW x \in Payouts, MarkTravel(x)
      PROVE  PaidMeansAuthorised'
  BY <1>7 DEF MarkTravel, Stages, RequestInv
<1>8. ASSUME NEW v \in Verifies, NEW x \in Payouts, StartVerify(v, x)
      PROVE  PaidMeansAuthorised'
  BY <1>8 DEF StartVerify
<1>9. ASSUME NEW v \in Verifies, AskBank(v) \/ VerifySaves(v)
      PROVE  PaidMeansAuthorised'
  BY <1>9 DEF AskBank, VerifySaves, Saves, IdleVerify, TravelRow
<1>10. ASSUME NEW v \in Verifies, BankTells(v) \/ VerifyFails(v)
      PROVE  PaidMeansAuthorised'
  BY <1>10 DEF BankTells, Outcome, VerifyFails, IdleVerify
<1>11. ASSUME NEW v \in Verifies, VerifyTravel(v)
       PROVE  PaidMeansAuthorised'
  <2> DEFINE x == verify[v].payout
             t == payout[x].travel
  <2>1. x \in Payouts /\ bank[x] \in Acted /\ t \in Travels
    BY <1>11 DEF VerifyTravel, VerifyInv, RequestInv
  <2>2. /\ travel'[t].payout = x \/ travel'[t].payout = travel[t].payout
        /\ \A u \in Travels : u # t => travel'[u] = travel[u]
    <3> HIDE DEF TypeOK, VerifyInv
    <3> QED
      BY <1>11, <2>1, TravelVerified DEF VerifyTravel
  <2>3. UNCHANGED <<payout, bank>>
    BY <1>11 DEF VerifyTravel
  <2> QED
    BY <2>1, <2>2, <2>3
<1>12. ASSUME NEW x \in Payouts, BankActs(x)
      PROVE  PaidMeansAuthorised'
  BY <1>12 DEF BankActs, BankStep, TravelRow
<1>13. ASSUME Restart
      PROVE  PaidMeansAuthorised'
  BY <1>13 DEF Restart, IdleVerify
<1>14. ASSUME UNCHANGED vars
      PROVE  PaidMeansAuthorised'
  BY <1>14 DEF vars
<1> HIDE DEF PayoutInv, TypeOK, PaidMeansAuthorised
<1> QED
  BY <1>1, <1>2, <1>3, <1>4, <1>5, <1>6, <1>7, <1>8, <1>9, <1>10, <1>11,
     <1>12, <1>13, <1>14 DEF Next

-----------------------------------------------------------------------------

\* PayoutInv holds in every behaviour, with or without faults and however
\* many requests are open.
THEOREM PayoutsInvariant == Spec => []PayoutInv
<1>1. PayoutInv /\ [Next]_vars => PayoutInv'
  BY NextTypeOK, NextRequestInv, NextStatusInv, NextVerifyInv,
     NextPaidMeansAuthorised DEF PayoutInv
<1> QED
  BY InitPayoutInv, <1>1, PTL DEF Spec

\* The payout a travel names is its own and was authorised by the bank:
\* authorizeTransaction marks nothing before the bank has answered.
THEOREM PaidTravelsAreAuthorised == Spec => []PaidMeansAuthorised
<1>1. PayoutInv => PaidMeansAuthorised
  BY DEF PayoutInv
<1> QED
  BY <1>1, PayoutsInvariant, PTL

\* A FAILED payout has moved no money: neither the catch of
\* processTransaction nor a late verification can say so wrongly.
THEOREM FailedPayoutsMoveNothing == Spec => []FailedMovesNoMoney
<1>1. PayoutInv => FailedMovesNoMoney
  BY DEF PayoutInv, StatusInv, FailedMovesNoMoney
<1> QED
  BY <1>1, PayoutsInvariant, PTL

\* COMPLETED is written only for what the bank has settled.
THEOREM CompletedPayoutsAreSettled == Spec => []CompletedMeansSettled
<1>1. PayoutInv => CompletedMeansSettled
  BY DEF PayoutInv, StatusInv, CompletedMeansSettled
<1> QED
  BY <1>1, PayoutsInvariant, PTL

-----------------------------------------------------------------------------

\* A step that opens no request leaves the travels with one at most.
LEMMA OneAtATimeKept ==
  ASSUME OneAtATime, VerifyInv,
         \A x \in Payouts : /\ payout'[x].travel = payout[x].travel
                            /\ payout'[x].status # "none"
                                 => payout[x].status # "none"
                            /\ request'[x] # "none" => request[x] # "none",
         \A v \in Verifies : verify'[v].stage # "none" =>
                               /\ verify[v].stage # "none"
                               /\ verify'[v].payout = verify[v].payout,
         muddled \subseteq muddled'
  PROVE  OneAtATime'
BY DEF OneAtATime, VerifyInv, Clear

\* A request starts only when there is none, and nothing starts two.
LEMMA NextOneAtATime ==
  ASSUME PayoutInv, ClearInv, [Next]_vars
  PROVE  OneAtATime'
<1>a. OneAtATime /\ HoldInv /\ VerifyHoldInv /\ PaidInv
  BY DEF ClearInv
<1>b. TypeOK /\ RequestInv /\ StatusInv /\ VerifyInv /\ PaidMeansAuthorised
  BY DEF PayoutInv
<1> USE <1>a, <1>b, NullAssumption
        DEF Clear, Open, Muddles, OneAtATime,
            TypeOK, TravelRow, PayoutRow, VerifyRecord, TransactionStatus,
            Verifiable, Answer, Batch, Acted, Stage, PaidMeansAuthorised,
            RequestInv, StatusInv, VerifyInv
<1>1. ASSUME NEW t \in Travels, NEW due \in BOOLEAN, CloseTravel(t, due)
      PROVE  OneAtATime'
  BY <1>1 DEF CloseTravel
<1>2. ASSUME NEW x \in Payouts, NEW t \in Travels, Prepare(x, t)
      PROVE  OneAtATime'
  BY <1>2 DEF Prepare, Stages, Payable
<1>3. ASSUME NEW x \in Payouts, ProcessAnswered(x) \/ ProcessFails(x)
      PROVE  OneAtATime'
  <2>1. /\ request[x] = "processing" /\ UNCHANGED <<verify, muddled>>
        /\ \A y \in Payouts : y # x => request'[y] = request[y]
    BY <1>3 DEF ProcessAnswered, ProcessFails, Stages
  <2>2. Saves(x, "PROCESSED") \/ Saves(x, "FAILED")
    BY <1>3 DEF ProcessAnswered, ProcessFails
  <2>3. payout[x].status # "none"
    BY <2>1
  <2>4. \A y \in Payouts : /\ payout'[y].travel = payout[y].travel
                           /\ y # x => payout'[y].status = payout[y].status
    BY <2>2, SavedRow
  <2> HIDE DEF OneAtATime, TypeOK, RequestInv, StatusInv, VerifyInv,
               PaidMeansAuthorised
  <2> QED
    BY <2>1, <2>3, <2>4, OneAtATimeKept
<1>4. ASSUME NEW x \in Payouts, AskAuthorization(x)
      PROVE  OneAtATime'
  BY <1>4 DEF AskAuthorization, Stages
<1>5. ASSUME NEW x \in Payouts, AuthorizeAnswered(x)
      PROVE  OneAtATime'
  BY <1>5 DEF AuthorizeAnswered, Accepted, Stages, Saves
<1>6. ASSUME NEW x \in Payouts, AuthorizeFails(x)
      PROVE  OneAtATime'
  BY <1>6 DEF AuthorizeFails, AfterFailedAuthorize, Stages, Saves
<1>7. ASSUME NEW x \in Payouts, MarkTravel(x)
      PROVE  OneAtATime'
  BY <1>7 DEF MarkTravel, Stages
<1>8. ASSUME NEW v \in Verifies, NEW x \in Payouts, StartVerify(v, x)
      PROVE  OneAtATime'
  BY <1>8 DEF StartVerify
<1>9. ASSUME NEW v \in Verifies, AskBank(v)
      PROVE  OneAtATime'
  BY <1>9 DEF AskBank, Saves
<1>10. ASSUME NEW v \in Verifies, BankTells(v)
      PROVE  OneAtATime'
  BY <1>10 DEF BankTells, Outcome
<1>11. ASSUME NEW v \in Verifies, VerifyTravel(v)
      PROVE  OneAtATime'
  BY <1>11 DEF VerifyTravel, PaidAfter
<1>12. ASSUME NEW v \in Verifies, VerifySaves(v)
      PROVE  OneAtATime'
  BY <1>12 DEF VerifySaves, Saves, IdleVerify
<1>13. ASSUME NEW x \in Payouts, BankActs(x)
      PROVE  OneAtATime'
  BY <1>13 DEF BankActs, BankStep
<1>14. ASSUME UNCHANGED vars
      PROVE  OneAtATime'
  BY <1>14 DEF vars
<1>15. ASSUME NEW x \in Payouts, MarkFails(x)
      PROVE  OneAtATime'
  BY <1>15 DEF MarkFails, Stages, Saves
<1>16. ASSUME NEW v \in Verifies, VerifyFails(v)
      PROVE  OneAtATime'
  BY <1>16 DEF VerifyFails, IdleVerify
<1>17. ASSUME Restart
      PROVE  OneAtATime'
  BY <1>17 DEF Restart, IdleVerify
<1> HIDE DEF OneAtATime
<1> QED
  BY <1>1, <1>2, <1>3, <1>4, <1>5, <1>6, <1>7, <1>8, <1>9, <1>10, <1>11,
     <1>12, <1>13, <1>14, <1>15, <1>16, <1>17 DEF Next

\* A verification finds its payout's travel held, and nothing else going on
\* about that travel.
LEMMA VerifyAlone ==
  ASSUME PayoutInv, ClearInv, NEW v \in Verifies, verify[v].stage # "none",
         Clear(verify[v].payout)
  PROVE  LET y == verify[v].payout
         IN  /\ y \in Payouts /\ payout[y].travel \in Travels
             /\ bank[y] \in Acted /\ payout[y].status \in Verifiable
             /\ verify[v].status = "FAILED" => bank[y] = "rejected"
             /\ \A x \in Payouts :
                  payout[x].status # "none" /\ payout[x].travel = payout[y].travel
                    => request[x] = "none"
             /\ \A w \in Verifies :
                  w # v /\ verify[w].stage # "none"
                    => payout[verify[w].payout].travel # payout[y].travel
             /\ verify[v].stage # "saving" => Holds(y)
<1> DEFINE y == verify[v].payout
<1>1. /\ y \in Payouts /\ bank[y] \in Acted
      /\ verify[v].status = "FAILED" => bank[y] = "rejected"
      /\ payout[y].status \in Verifiable
  BY DEF PayoutInv, VerifyInv, ClearInv, VerifyHoldInv
<1>2. payout[y].status # "none" /\ payout[y].status \in Live
  BY <1>1 DEF Verifiable, Live
<1>3. payout[y].travel \in Travels
  BY <1>1, <1>2 DEF PayoutInv, RequestInv
<1>4. /\ \A x \in Payouts :
           payout[x].status # "none" /\ payout[x].travel = payout[y].travel
             => request[x] = "none"
      /\ \A w \in Verifies :
           w # v /\ verify[w].stage # "none"
             => payout[verify[w].payout].travel # payout[y].travel
  BY DEF ClearInv, OneAtATime, Clear
<1>5. ASSUME verify[v].stage # "saving" PROVE Holds(y)
  <2>1. ~TakenBack(y)
    BY <1>4, <1>5 DEF TakenBack
  <2>2. request[y] = "none"
    BY <1>1, <1>2, <1>4
  <2> QED
    BY <1>1, <1>2, <2>1, <2>2 DEF ClearInv, HoldInv, Keeps
<1> HIDE DEF Holds
<1> QED
  BY <1>1, <1>3, <1>4, <1>5

\* A payout keeps its travel, or gives it up when the bank rejects it.
LEMMA NextHoldInv ==
  ASSUME PayoutInv, ClearInv, [Next]_vars
  PROVE  HoldInv'
<1>a. OneAtATime /\ HoldInv /\ VerifyHoldInv /\ PaidInv
  BY DEF ClearInv
<1>b. TypeOK /\ RequestInv /\ StatusInv /\ VerifyInv /\ PaidMeansAuthorised
  BY DEF PayoutInv
<1> USE <1>a, <1>b, NullAssumption
        DEF Clear, Open, Muddles, HoldInv, Keeps, Holds, TakenBack, Live,
            OneAtATime, VerifyHoldInv,
            TypeOK, TravelRow, PayoutRow, VerifyRecord, TransactionStatus,
            Verifiable, Answer, Batch, Acted, Stage, PaidMeansAuthorised,
            RequestInv, StatusInv, VerifyInv
<1>1. ASSUME NEW t \in Travels, NEW due \in BOOLEAN, CloseTravel(t, due)
      PROVE  HoldInv'
  BY <1>1 DEF CloseTravel
<1>2. ASSUME NEW x \in Payouts, NEW t \in Travels, Prepare(x, t)
      PROVE  HoldInv'
  BY <1>2 DEF Prepare, Stages, Payable
<1>3. ASSUME NEW x \in Payouts, ProcessAnswered(x) \/ ProcessFails(x)
      PROVE  HoldInv'
  <2>1. /\ request[x] = "processing" /\ payout[x].status # "none"
        /\ bank[x] \in {"sent", "loaded", "refused"}
        /\ UNCHANGED <<travel, bank, verify, muddled>>
        /\ \A y \in Payouts : y # x => request'[y] = request[y]
        /\ request'[x] \in {"none", "processed"}
    BY <1>3 DEF ProcessAnswered, ProcessFails, Stages
  <2>2. Saves(x, "PROCESSED") \/ Saves(x, "FAILED")
    BY <1>3 DEF ProcessAnswered, ProcessFails
  <2>3. /\ \A y \in Payouts : /\ payout'[y].travel = payout[y].travel
                              /\ y # x => payout'[y].status = payout[y].status
        /\ payout'[x].status \in {"PROCESSED", "FAILED"}
    BY <2>2, SavedRow
  <2>4. \A y \in Payouts : /\ TakenBack(y)' <=> TakenBack(y)
                           /\ Holds(y)' <=> Holds(y)
                           /\ Clear(y)' => Clear(y)
    BY <2>1, <2>3
  <2>5. \A y \in Payouts : Clear(y) => Keeps(y)
    OBVIOUS
  <2> HIDE DEF HoldInv, TypeOK, RequestInv, StatusInv, VerifyInv, TakenBack,
               Holds, PaidMeansAuthorised, OneAtATime, VerifyHoldInv, Clear
  <2>6. ASSUME NEW y \in Payouts, Clear(y), y # x PROVE Keeps(y)'
    BY <2>1, <2>3, <2>4, <2>5, <2>6
  <2>7. Clear(x) => Keeps(x)'
    BY <2>1, <2>3, <2>4, <2>5
  <2> QED
    BY <2>4, <2>6, <2>7 DEF HoldInv
<1>4. ASSUME NEW x \in Payouts, AskAuthorization(x)
      PROVE  HoldInv'
  BY <1>4 DEF AskAuthorization, Stages
<1>5. ASSUME NEW x \in Payouts, AuthorizeAnswered(x)
      PROVE  HoldInv'
  BY <1>5 DEF AuthorizeAnswered, Accepted, Stages, Saves
<1>6. ASSUME NEW x \in Payouts, AuthorizeFails(x)
      PROVE  HoldInv'
  BY <1>6 DEF AuthorizeFails, AfterFailedAuthorize, Stages, Saves
<1>7. ASSUME NEW x \in Payouts, MarkTravel(x)
      PROVE  HoldInv'
  <2> DEFINE t == payout[x].travel
  <2>1. /\ request[x] = "marking" /\ bank[x] \in Acted
        /\ payout[x].status # "none" /\ t \in Travels
    BY <1>7 DEF MarkTravel
  <2>2. /\ request'[x] = "none"
        /\ \A z \in Payouts : z # x => request'[z] = request[z]
        /\ UNCHANGED <<payout, bank, verify, muddled>>
    BY <1>7 DEF MarkTravel, Stages
  <2>3. Clear(x) => payout[x].status = "AUTHORIZED" /\ ~travel[t].isPaid
                    /\ travel[t].closed /\ travel[t].due
    BY <2>1
  <2>4. \A z \in Payouts : z # x /\ Clear(z) /\ payout[z].travel = t
                             => request[z] = "none"
    BY <2>1
  <2>a. \A z \in Payouts : Clear(z) => payout[z].travel \in Travels
    OBVIOUS
  <2> HIDE DEF TypeOK, RequestInv, StatusInv, VerifyInv, PaidMeansAuthorised,
               OneAtATime, VerifyHoldInv, HoldInv, Keeps
  <2>5. /\ travel'[t].isPaid /\ travel'[t].payout = x
        /\ travel'[t].closed = travel[t].closed
        /\ travel'[t].due = travel[t].due
        /\ \A u \in Travels : u # t => travel'[u] = travel[u]
    BY <1>7, TravelMarked
  <2>6. \A z \in Payouts : (TakenBack(z)' <=> TakenBack(z))
                           /\ (Clear(z)' <=> Clear(z))
    BY <2>2
  <2>b. \A z \in Payouts : Clear(z) => Keeps(z)
    BY DEF HoldInv
  <2> HIDE DEF t, TakenBack
  <2>7. ASSUME NEW z \in Payouts, Clear(z), payout[z].travel # t
        PROVE  Keeps(z)'
    <3>1. z # x
      BY <2>7 DEF t
    <3>2. travel'[payout[z].travel] = travel[payout[z].travel]
      BY <2>5, <2>7, <2>a
    <3> QED
      BY <2>2, <2>6, <2>7, <2>b, <3>1, <3>2 DEF Keeps
  <2>8. Clear(x) => Keeps(x)'
    BY <2>1, <2>2, <2>3, <2>5 DEF Keeps, t
  <2>9. ASSUME NEW z \in Payouts, Clear(z), payout[z].travel = t, z # x
        PROVE  Keeps(z)'
    <3>1. Clear(x)
      BY <2>1, <2>9 DEF t
    <3>2. ~Holds(z) /\ request[z] = "none"
      BY <2>3, <2>4, <2>9, <3>1
    <3> HIDE DEF Clear, Live
    <3> QED
      BY <2>2, <2>3, <2>5, <2>6, <2>9, <2>b, <3>1, <3>2 DEF Keeps
  <2> QED
    BY <2>6, <2>7, <2>8, <2>9 DEF HoldInv
<1>8. ASSUME NEW v \in Verifies, NEW x \in Payouts, StartVerify(v, x)
      PROVE  HoldInv'
  BY <1>8 DEF StartVerify
<1>9. ASSUME NEW v \in Verifies, AskBank(v)
      PROVE  HoldInv'
  <2>0. PICK y \in Payouts : y = verify[v].payout
    BY <1>9 DEF AskBank
  <2>1. /\ verify[v].stage = "read" /\ Saves(y, verify[v].status)
        /\ UNCHANGED <<travel, bank, request, muddled>>
        /\ verify' = [verify EXCEPT ![v].stage = "asked"]
    BY <1>9, <2>0 DEF AskBank
  <2>2. /\ payout[y].status # "none"
        /\ Clear(y) => /\ payout[y].status \in Verifiable
                       /\ verify[v].status \in Verifiable
                       /\ request[y] = "none"
    BY <2>0, <2>1
  <2>3. \A x \in Payouts :
          /\ payout'[x].travel = payout[x].travel
          /\ payout'[x].status = IF x = y THEN verify[v].status
                                          ELSE payout[x].status
    BY <2>1, <2>2, SavedRow
  <2>4. \A x \in Payouts : TakenBack(x)' <=> TakenBack(x)
    BY <2>1
  <2>5. \A x \in Payouts : (Holds(x)' <=> Holds(x)) /\ (Clear(x)' => Clear(x))
    BY <2>1, <2>2, <2>3
  <2>6. \A x \in Payouts : Clear(x) => Keeps(x)
    OBVIOUS
  <2> HIDE DEF TakenBack, Holds, HoldInv, TypeOK, RequestInv, StatusInv,
               VerifyInv, PaidMeansAuthorised, OneAtATime, VerifyHoldInv, Clear
  <2>7. ASSUME NEW x \in Payouts, Clear(x), x # y PROVE Keeps(x)'
    <3>1. payout'[x].travel = payout[x].travel /\ payout'[x].status = payout[x].status
      BY <2>3, <2>7
    <3> QED
      BY <2>1, <2>4, <2>5, <2>6, <2>7, <3>1
  <2>8. Clear(y) => Keeps(y)'
    BY <2>1, <2>2, <2>3, <2>4, <2>5, <2>6
  <2> QED
    BY <2>5, <2>7, <2>8 DEF HoldInv
<1>10. ASSUME NEW v \in Verifies, BankTells(v)
      PROVE  HoldInv'
  <2>1. /\ verify[v].stage = "asked"
        /\ \A w \in Verifies : /\ w # v => verify'[w] = verify[w]
                               /\ verify'[w].payout = verify[w].payout
        /\ verify'[v].stage = "told"
        /\ UNCHANGED <<travel, payout, bank, request, muddled>>
    BY <1>10 DEF BankTells
  <2>2. \A x \in Payouts : TakenBack(x) => TakenBack(x)'
    BY <2>1
  <2>3. \A x \in Payouts : Clear(x) => Keeps(x)
    OBVIOUS
  <2> HIDE DEF TakenBack, TypeOK, RequestInv, StatusInv, VerifyInv, HoldInv,
               PaidMeansAuthorised, OneAtATime, VerifyHoldInv
  <2> QED
    BY <2>1, <2>2, <2>3 DEF HoldInv
<1>11. ASSUME NEW v \in Verifies, VerifyTravel(v)
      PROVE  HoldInv'
  <2>0. PICK y \in Payouts : y = verify[v].payout
    BY <1>11 DEF VerifyTravel
  <2> DEFINE t == payout[y].travel
             paid == verify[v].status # "FAILED"
  <2>1. /\ t \in Travels /\ payout[y].status # "none"
        /\ verify[v].stage = "told"
        /\ verify[v].status = "FAILED" => bank[y] = "rejected"
    BY <1>11, <2>0 DEF VerifyTravel
  <2>a. \A z \in Payouts : Clear(z) => payout[z].travel \in Travels /\ Keeps(z)
    OBVIOUS
  <2>2. /\ travel'[t].isPaid <=> paid
        /\ paid => travel'[t].payout = y
        /\ ~paid => travel'[t].payout = travel[t].payout
        /\ travel'[t].closed = travel[t].closed
        /\ travel'[t].due = travel[t].due
        /\ \A u \in Travels : u # t => travel'[u] = travel[u]
        /\ UNCHANGED <<payout, bank, request, muddled>>
    <3> HIDE DEF TypeOK, RequestInv, VerifyInv
    <3>1. UNCHANGED <<payout, bank, request, muddled>>
      BY <1>11 DEF VerifyTravel
    <3> QED
      BY <1>11, <2>0, <3>1, TravelVerified
  <2>3. /\ \A w \in Verifies : w # v => verify'[w] = verify[w]
        /\ verify'[v].stage = "saving"
        /\ verify'[v].payout = y /\ verify'[v].status = verify[v].status
    <3>1. verify' = [verify EXCEPT ![v].stage = "saving"]
      BY <1>11 DEF VerifyTravel
    <3>2. verify[v] \in VerifyRecord
      OBVIOUS
    <3> QED
      BY <2>0, <3>1, <3>2
  <2>4. /\ \A z \in Payouts : z # y => (TakenBack(z)' <=> TakenBack(z))
        /\ ~paid => TakenBack(y)'
    <3>1. ASSUME NEW z \in Payouts, z # y PROVE TakenBack(z)' <=> TakenBack(z)
      <4>1. \A w \in Verifies : verify'[w].payout = z <=> verify[w].payout = z
        BY <2>0, <2>3
      <4>2. \A w \in Verifies :
              verify[w].payout = z => verify'[w] = verify[w]
        BY <2>0, <2>3, <3>1
      <4> HIDE DEF TypeOK, VerifyInv, VerifyHoldInv, HoldInv, OneAtATime
      <4> QED
        BY <4>1, <4>2
    <3>2. ~paid => TakenBack(y)'
      BY <2>3
    <3> QED
      BY <3>1, <3>2
  <2> HIDE DEF HoldInv, TypeOK, RequestInv, StatusInv, VerifyInv,
               PaidMeansAuthorised, OneAtATime, VerifyHoldInv, Keeps
  <2>5. \A z \in Payouts : Clear(z)' <=> Clear(z)
    BY <2>2
  <2>6. ASSUME NEW z \in Payouts, Clear(z), payout[z].travel # t
        PROVE  Keeps(z)'
    <3>1. z # y
      BY <2>6
    <3>2. travel'[payout[z].travel] = travel[payout[z].travel]
      BY <2>2, <2>6, <2>a
    <3> HIDE DEF t, paid, TakenBack
    <3> QED
      BY <2>2, <2>4, <2>6, <2>a, <3>1, <3>2 DEF Keeps
  <2>7. ASSUME Clear(y)
        PROVE  /\ Holds(y)
               /\ \A z \in Payouts :
                    Clear(z) /\ payout[z].travel = t => request[z] = "none"
               /\ \A w \in Verifies :
                    w # v /\ verify[w].stage # "none"
                      => payout[verify[w].payout].travel # t
               /\ bank[y] \in Acted
    <3>1. verify[v].stage # "none" /\ verify[v].stage # "saving"
      BY <2>1
    <3> HIDE DEF Holds
    <3> QED
      BY <2>0, <2>7, <3>1, VerifyAlone
  <2>8. ASSUME Clear(y) PROVE Keeps(y)'
    <3>1. request[y] = "none" /\ travel[t].closed /\ travel[t].due
      BY <2>1, <2>7, <2>8, <2>a DEF Keeps
    <3>2. Keeps(y)
      BY <2>1, <2>8, <2>a
    <3>3. bank[y] # "asked"
      BY <3>1, <3>2 DEF Keeps
    <3>4. CASE paid
      <4>1. Holds(y)'
        BY <2>2, <3>4
      <4> HIDE DEF Holds, paid, TakenBack
      <4> QED
        BY <2>2, <3>1, <3>3, <4>1 DEF Keeps, t
    <3>5. CASE ~paid
      <4>1. bank[y] = "rejected" /\ TakenBack(y)'
        BY <2>1, <2>4, <3>5
      <4> HIDE DEF Holds, paid, TakenBack
      <4> QED
        BY <2>2, <3>1, <4>1 DEF Keeps, t
    <3> QED
      BY <3>4, <3>5
  <2>9. ASSUME NEW z \in Payouts, Clear(z), payout[z].travel = t, z # y
        PROVE  Keeps(z)'
    <3>1. Clear(y)
      BY <2>1, <2>9
    <3>2. request[z] = "none" /\ ~Holds(z) /\ Keeps(z)
      BY <2>7, <2>9, <2>a, <3>1
    <3>3. ~TakenBack(z)
      BY <2>1, <2>7, <2>9, <3>1
    <3>4. /\ bank[z] \notin {"asked", "authorized", "settled"}
          /\ payout[z].status \notin Live
          /\ travel[t].closed /\ travel[t].due
      BY <2>9, <3>2, <3>3 DEF Keeps
    <3> HIDE DEF t, paid, TakenBack, Holds, Live
    <3> QED
      BY <2>2, <2>9, <3>2, <3>4 DEF Keeps
  <2> QED
    BY <2>5, <2>6, <2>8, <2>9 DEF HoldInv
<1>12. ASSUME NEW v \in Verifies, VerifySaves(v)
      PROVE  HoldInv'
  BY <1>12 DEF VerifySaves, Saves, IdleVerify
<1>13. ASSUME NEW x \in Payouts, BankActs(x)
      PROVE  HoldInv'
  BY <1>13 DEF BankActs, BankStep
<1>14. ASSUME UNCHANGED vars
      PROVE  HoldInv'
  BY <1>14 DEF vars
<1>15. ASSUME NEW x \in Payouts, MarkFails(x)
      PROVE  HoldInv'
  BY <1>15 DEF MarkFails, Stages, Saves
<1>16. ASSUME NEW v \in Verifies, VerifyFails(v)
      PROVE  HoldInv'
  BY <1>16 DEF VerifyFails, IdleVerify
<1>17. ASSUME Restart
      PROVE  HoldInv'
  BY <1>17 DEF Restart, IdleVerify
<1> HIDE DEF HoldInv
<1> QED
  BY <1>1, <1>2, <1>3, <1>4, <1>5, <1>6, <1>7, <1>8, <1>9, <1>10, <1>11,
     <1>12, <1>13, <1>14, <1>15, <1>16, <1>17 DEF Next

\* A verification is alone with the payout it has read.
LEMMA NextVerifyHoldInv ==
  ASSUME PayoutInv, ClearInv, [Next]_vars
  PROVE  VerifyHoldInv'
<1>a. OneAtATime /\ HoldInv /\ VerifyHoldInv /\ PaidInv
  BY DEF ClearInv
<1>b. TypeOK /\ RequestInv /\ StatusInv /\ VerifyInv /\ PaidMeansAuthorised
  BY DEF PayoutInv
<1> USE <1>a, <1>b, NullAssumption
        DEF Clear, Open, Muddles, VerifyHoldInv, Holds, TakenBack, Live,
            OneAtATime, HoldInv, Keeps,
            TypeOK, TravelRow, PayoutRow, VerifyRecord, TransactionStatus,
            Verifiable, Answer, Batch, Acted, Stage, PaidMeansAuthorised,
            RequestInv, StatusInv, VerifyInv
<1>1. ASSUME NEW t \in Travels, NEW due \in BOOLEAN, CloseTravel(t, due)
      PROVE  VerifyHoldInv'
  BY <1>1 DEF CloseTravel
<1>2. ASSUME NEW x \in Payouts, NEW t \in Travels, Prepare(x, t)
      PROVE  VerifyHoldInv'
  <2>1. /\ payout[x].status = "none" /\ UNCHANGED <<travel, verify>>
        /\ \A y \in Payouts : y # x => payout'[y] = payout[y]
        /\ muddled \subseteq muddled'
    BY <1>2 DEF Prepare
  <2>2. \A v \in Verifies : verify[v].stage # "none" =>
          verify[v].payout # x /\ verify[v].payout \in Payouts
    BY <2>1
  <2> HIDE DEF HoldInv, Keeps, TypeOK, RequestInv, StatusInv, VerifyInv,
               PaidMeansAuthorised, OneAtATime
  <2> QED
    BY <2>1, <2>2
<1>3. ASSUME NEW x \in Payouts, ProcessAnswered(x) \/ ProcessFails(x)
      PROVE  VerifyHoldInv'
  BY <1>3 DEF ProcessAnswered, ProcessFails, Stages, Saves
<1>4. ASSUME NEW x \in Payouts, AskAuthorization(x)
      PROVE  VerifyHoldInv'
  BY <1>4 DEF AskAuthorization, Stages
<1>5. ASSUME NEW x \in Payouts, AuthorizeAnswered(x)
      PROVE  VerifyHoldInv'
  BY <1>5 DEF AuthorizeAnswered, Accepted, Stages, Saves
<1>6. ASSUME NEW x \in Payouts, AuthorizeFails(x)
      PROVE  VerifyHoldInv'
  BY <1>6 DEF AuthorizeFails, AfterFailedAuthorize, Stages, Saves
<1>7. ASSUME NEW x \in Payouts, MarkTravel(x)
      PROVE  VerifyHoldInv'
  BY <1>7 DEF MarkTravel, Stages
<1>8. ASSUME NEW v \in Verifies, NEW x \in Payouts, StartVerify(v, x)
      PROVE  VerifyHoldInv'
  <2>1. /\ verify'[v] = [stage |-> "read", payout |-> x,
                         status |-> payout[x].status]
        /\ \A w \in Verifies : w # v => verify'[w] = verify[w]
        /\ UNCHANGED <<travel, payout>>
        /\ payout[x].status \in Verifiable
        /\ muddled \subseteq muddled'
    BY <1>8 DEF StartVerify
  <2> HIDE DEF HoldInv, Keeps, TypeOK, RequestInv, StatusInv, VerifyInv,
               PaidMeansAuthorised, OneAtATime
  <2> QED
    BY <2>1
<1>9. ASSUME NEW v \in Verifies, AskBank(v)
      PROVE  VerifyHoldInv'
  BY <1>9 DEF AskBank, Saves
<1>10. ASSUME NEW v \in Verifies, BankTells(v)
      PROVE  VerifyHoldInv'
  BY <1>10 DEF BankTells, Outcome
<1>11. ASSUME NEW v \in Verifies, VerifyTravel(v)
      PROVE  VerifyHoldInv'
  <2> DEFINE y == verify[v].payout
             t == payout[y].travel
  <2>1. /\ y \in Payouts /\ verify[v].stage = "told" /\ t \in Travels
        /\ payout[y].status # "none"
    BY <1>11 DEF VerifyTravel
  <2>2. /\ verify[v].status = "FAILED" => ~travel'[t].isPaid
        /\ \A u \in Travels : u # t => travel'[u] = travel[u]
        /\ UNCHANGED <<payout, muddled>>
    <3> HIDE DEF TypeOK, RequestInv, VerifyInv
    <3>1. UNCHANGED <<payout, muddled>>
      BY <1>11 DEF VerifyTravel
    <3> QED
      BY <1>11, <3>1, TravelVerified
  <2>3. /\ \A w \in Verifies : w # v => verify'[w] = verify[w]
        /\ verify'[v].stage = "saving"
        /\ verify'[v].payout = y /\ verify'[v].status = verify[v].status
    <3>1. verify' = [verify EXCEPT ![v].stage = "saving"]
      BY <1>11 DEF VerifyTravel
    <3>2. verify[v] \in VerifyRecord
      OBVIOUS
    <3> QED
      BY <3>1, <3>2
  <2>4. ASSUME NEW w \in Verifies, w # v, verify[w].stage # "none",
               Clear(verify[w].payout)
        PROVE  /\ payout[verify[w].payout].travel # t
               /\ payout[verify[w].payout].travel \in Travels
    BY <2>1, <2>4
  <2>5. Clear(y) => payout[y].status \in Verifiable
    BY <2>1
  <2> HIDE DEF HoldInv, Keeps, TypeOK, RequestInv, StatusInv, VerifyInv,
               PaidMeansAuthorised, OneAtATime, y
  <2> QED
    BY <2>1, <2>2, <2>3, <2>4, <2>5
<1>12. ASSUME NEW v \in Verifies, VerifySaves(v)
      PROVE  VerifyHoldInv'
  BY <1>12 DEF VerifySaves, Saves, IdleVerify
<1>13. ASSUME NEW x \in Payouts, BankActs(x)
      PROVE  VerifyHoldInv'
  BY <1>13 DEF BankActs, BankStep
<1>14. ASSUME UNCHANGED vars
      PROVE  VerifyHoldInv'
  BY <1>14 DEF vars
<1>15. ASSUME NEW x \in Payouts, MarkFails(x)
      PROVE  VerifyHoldInv'
  BY <1>15 DEF MarkFails, Stages, Saves
<1>16. ASSUME NEW v \in Verifies, VerifyFails(v)
      PROVE  VerifyHoldInv'
  BY <1>16 DEF VerifyFails, IdleVerify
<1>17. ASSUME Restart
      PROVE  VerifyHoldInv'
  BY <1>17 DEF Restart, IdleVerify
<1> HIDE DEF VerifyHoldInv
<1> QED
  BY <1>1, <1>2, <1>3, <1>4, <1>5, <1>6, <1>7, <1>8, <1>9, <1>10, <1>11,
     <1>12, <1>13, <1>14, <1>15, <1>16, <1>17 DEF Next

\* A travel becomes paid with its payout and unpaid before it fails.
LEMMA NextPaidInv ==
  ASSUME PayoutInv, ClearInv, [Next]_vars
  PROVE  PaidInv'
<1>a. OneAtATime /\ HoldInv /\ VerifyHoldInv /\ PaidInv
  BY DEF ClearInv
<1>b. TypeOK /\ RequestInv /\ StatusInv /\ VerifyInv /\ PaidMeansAuthorised
  BY DEF PayoutInv
<1> USE <1>a, <1>b, NullAssumption
        DEF Clear, Open, Muddles, PaidInv, Holds, TakenBack, Live,
            OneAtATime, HoldInv, Keeps, VerifyHoldInv,
            TypeOK, TravelRow, PayoutRow, VerifyRecord, TransactionStatus,
            Verifiable, Answer, Batch, Acted, Stage, PaidMeansAuthorised,
            RequestInv, StatusInv, VerifyInv
<1>1. ASSUME NEW t \in Travels, NEW due \in BOOLEAN, CloseTravel(t, due)
      PROVE  PaidInv'
  BY <1>1 DEF CloseTravel
<1>2. ASSUME NEW x \in Payouts, NEW t \in Travels, Prepare(x, t)
      PROVE  PaidInv'
  BY <1>2 DEF Prepare, Stages, Payable
<1>3. ASSUME NEW x \in Payouts, ProcessAnswered(x) \/ ProcessFails(x)
      PROVE  PaidInv'
  <2>1. UNCHANGED travel /\ request[x] # "none"
    BY <1>3 DEF ProcessAnswered, ProcessFails
  <2>2. \A y \in Payouts : y # x => payout'[y] = payout[y]
    BY <1>3 DEF ProcessAnswered, ProcessFails, Saves
  <2>3. ASSUME NEW t \in Travels \ muddled, travel[t].isPaid
        PROVE  travel[t].payout # x
    <3>1. payout[x].status # "none"
      BY <2>1
    <3>2. payout[x].travel = t => ~travel[t].isPaid
      BY <2>1, <3>1
    <3>3. travel[t].payout = x => payout[x].travel = t
      BY PayoutIsNotNull DEF PaidMeansAuthorised
    <3> QED
      BY <2>3, <3>2, <3>3
  <2>4. UNCHANGED muddled
    BY <1>3 DEF ProcessAnswered, ProcessFails
  <2>5. ASSUME NEW t \in Travels \ muddled, travel[t].due, travel[t].isPaid
        PROVE  /\ travel[t].payout # Null
               /\ payout'[travel[t].payout].status \in Live
    <3>1. /\ travel[t].payout # Null /\ travel[t].payout \in Payouts
          /\ payout[travel[t].payout].status \in Live
      BY <2>5
    <3> QED
      BY <2>2, <2>3, <2>5, <3>1
  <2> QED
    BY <2>1, <2>4, <2>5
<1>4. ASSUME NEW x \in Payouts, AskAuthorization(x)
      PROVE  PaidInv'
  BY <1>4 DEF AskAuthorization, Stages
<1>5. ASSUME NEW x \in Payouts, AuthorizeAnswered(x)
      PROVE  PaidInv'
  BY <1>5 DEF AuthorizeAnswered, Accepted, Stages, Saves
<1>6. ASSUME NEW x \in Payouts, AuthorizeFails(x)
      PROVE  PaidInv'
  BY <1>6 DEF AuthorizeFails, AfterFailedAuthorize, Stages, Saves
<1>7. ASSUME NEW x \in Payouts, MarkTravel(x)
      PROVE  PaidInv'
  <2>1. /\ Clear(x) => payout[x].status = "AUTHORIZED"
        /\ payout[x].status # "none"
        /\ UNCHANGED <<payout, muddled>>
    BY <1>7 DEF MarkTravel
  <2> HIDE DEF TypeOK, RequestInv, StatusInv, VerifyInv, PaidMeansAuthorised,
               OneAtATime, VerifyHoldInv, HoldInv, Keeps
  <2>2. LET t == payout[x].travel
        IN  /\ travel'[t].payout = x
            /\ \A u \in Travels : u # t => travel'[u] = travel[u]
    BY <1>7, TravelMarked
  <2>3. x # Null
    BY PayoutIsNotNull
  <2> QED
    BY <2>1, <2>2, <2>3
<1>8. ASSUME NEW v \in Verifies, NEW x \in Payouts, StartVerify(v, x)
      PROVE  PaidInv'
  BY <1>8 DEF StartVerify
<1>9. ASSUME NEW v \in Verifies, AskBank(v)
      PROVE  PaidInv'
  BY <1>9 DEF AskBank, Saves
<1>10. ASSUME NEW v \in Verifies, BankTells(v)
      PROVE  PaidInv'
  BY <1>10 DEF BankTells, Outcome
<1>11. ASSUME NEW v \in Verifies, VerifyTravel(v)
      PROVE  PaidInv'
  <2> DEFINE y == verify[v].payout
             t == payout[y].travel
  <2>1. /\ y \in Payouts /\ t \in Travels
        /\ Clear(y) => payout[y].status \in Verifiable
        /\ payout[y].status # "none"
    BY <1>11 DEF VerifyTravel
  <2>2. /\ travel'[t].isPaid => travel'[t].payout = y
        /\ \A u \in Travels : u # t => travel'[u] = travel[u]
        /\ UNCHANGED <<payout, muddled>>
    <3> HIDE DEF TypeOK, RequestInv, VerifyInv
    <3>1. UNCHANGED <<payout, muddled>>
      BY <1>11 DEF VerifyTravel
    <3> QED
      BY <1>11, <3>1, TravelVerified
  <2>3. y # Null
    BY <2>1, PayoutIsNotNull
  <2> HIDE DEF HoldInv, Keeps, TypeOK, RequestInv, StatusInv, VerifyInv,
               PaidMeansAuthorised, OneAtATime, VerifyHoldInv, y
  <2> QED
    BY <2>1, <2>2, <2>3
<1>12. ASSUME NEW v \in Verifies, VerifySaves(v)
      PROVE  PaidInv'
  BY <1>12 DEF VerifySaves, Saves, IdleVerify
<1>13. ASSUME NEW x \in Payouts, BankActs(x)
      PROVE  PaidInv'
  BY <1>13 DEF BankActs, BankStep
<1>14. ASSUME UNCHANGED vars
      PROVE  PaidInv'
  BY <1>14 DEF vars
<1>15. ASSUME NEW x \in Payouts, MarkFails(x)
      PROVE  PaidInv'
  BY <1>15 DEF MarkFails, Stages, Saves
<1>16. ASSUME NEW v \in Verifies, VerifyFails(v)
      PROVE  PaidInv'
  BY <1>16 DEF VerifyFails, IdleVerify
<1>17. ASSUME Restart
      PROVE  PaidInv'
  BY <1>17 DEF Restart, IdleVerify
<1> HIDE DEF PaidInv
<1> QED
  BY <1>1, <1>2, <1>3, <1>4, <1>5, <1>6, <1>7, <1>8, <1>9, <1>10, <1>11,
     <1>12, <1>13, <1>14, <1>15, <1>16, <1>17 DEF Next

\* One request at a time, and what is paid is held by the payout that paid it.
LEMMA NextClearInv ==
  ASSUME PayoutInv, ClearInv, [Next]_vars
  PROVE  ClearInv'
BY NextOneAtATime, NextHoldInv, NextVerifyHoldInv, NextPaidInv DEF ClearInv

\* Nothing has been asked for at the start.
LEMMA InitClearInv == Init => ClearInv
BY NullAssumption
   DEF Init, ClearInv, OneAtATime, HoldInv, VerifyHoldInv, PaidInv, IdleVerify,
       Clear

\* ClearInv holds in every behaviour, for whatever travels are not muddled.
LEMMA ClearInvariant == Spec => [](PayoutInv /\ ClearInv)
<1>1. PayoutInv /\ ClearInv /\ [Next]_vars => ClearInv'
  BY NextClearInv
<1>2. Init => ClearInv
  BY InitClearInv
<1>3. Spec => []PayoutInv
  BY PayoutsInvariant
<1> QED
  BY <1>1, <1>2, <1>3, PTL DEF Spec

\* Two payouts of one travel cannot both move money: the one with a request
\* finds the travel unpaid, the others hold it, and only one can.
LEMMA OneEffective ==
  ASSUME PayoutInv, ClearInv, NEW t \in Travels \ muddled,
         NEW x \in Effective(t), NEW y \in Effective(t)
  PROVE  x = y
<1>1. \A z \in Effective(t) :
        /\ z \in Payouts /\ payout[z].travel = t /\ Clear(z)
        /\ request[z] # "none" => ~travel[t].isPaid
        /\ request[z] = "none" => travel[t].isPaid /\ travel[t].payout = z
  BY DEF Effective, PayoutInv, RequestInv, ClearInv, HoldInv, Keeps, Holds, Clear
<1> QED
  BY <1>1 DEF ClearInv, OneAtATime

\* In every behaviour, whatever is refused, rejected, lost or retried, the
\* owner of a travel is paid once for it, unless two requests were about the
\* travel at a time or its money moved, or came back, behind the books: the
\* unlocked look-up of prepareTransaction is enough but for those.
THEOREM TravelsArePaidOnce == Spec => []PaidOnce
<1>1. PayoutInv /\ ClearInv => PaidOnce
  <2> SUFFICES ASSUME PayoutInv, ClearInv, NEW t \in Travels \ muddled
               PROVE  Cardinality(Effective(t)) <= 1
    BY DEF PaidOnce
  <2>1. CASE Effective(t) = {}
    BY <2>1, FS_EmptySet
  <2>2. CASE Effective(t) # {}
    <3>1. PICK x : x \in Effective(t)
      BY <2>2
    <3>2. Effective(t) = {x}
      BY <3>1, OneEffective
    <3>3. Cardinality({x}) = 1
      BY FS_Singleton
    <3> QED
      BY <3>2, <3>3
  <2> QED
    BY <2>1, <2>2
<1>2. Spec => [](PayoutInv /\ ClearInv)
  BY ClearInvariant
<1> QED
  BY <1>1, <1>2, PTL

\* For the same travels the books agree between requests: what is paid names
\* the one payout under way or complete, what is not has none.
THEOREM BooksOfPayoutsAgree == Spec => []BooksAgree
<1>1. PayoutInv /\ ClearInv => BooksAgree
  <2> SUFFICES ASSUME PayoutInv, ClearInv, NEW t \in Travels \ muddled,
                      travel[t].due, ~Open(t)
               PROVE  LET live == {x \in Payouts : /\ payout[x].travel = t
                                                   /\ payout[x].status \in Live}
                      IN  IF travel[t].isPaid THEN live = {travel[t].payout}
                                              ELSE live = {}
    BY DEF BooksAgree
  <2>1. ASSUME NEW x \in Payouts, payout[x].travel = t, payout[x].status \in Live
        PROVE  travel[t].isPaid /\ travel[t].payout = x
    <3>1. Clear(x)
      BY <2>1 DEF Clear, Live, Verifiable
    <3>2. request[x] = "none" /\ ~TakenBack(x)
      BY <2>1 DEF Open, TakenBack
    <3> QED
      BY <2>1, <3>1, <3>2 DEF ClearInv, HoldInv, Keeps, Holds
  <2>2. travel[t].isPaid =>
          LET x == travel[t].payout
          IN  x \in Payouts /\ payout[x].travel = t /\ payout[x].status \in Live
    BY DEF ClearInv, PaidInv, PayoutInv, TypeOK, TravelRow, PaidMeansAuthorised
  <2> QED
    BY <2>1, <2>2
<1>2. Spec => [](PayoutInv /\ ClearInv)
  BY ClearInvariant
<1> QED
  BY <1>1, <1>2, PTL
=============================================================================
