--------------------------- MODULE ReservationLimit ---------------------------
(***************************************************************************)
(* What keeps a buyer of the application from holding seats for nothing:   *)
(* one active reservation at a time, and a block after MAX_FAILED          *)
(* reservations that were not paid.  Both are checked by guards, before    *)
(* the transaction of the reservation, and the penalty is read, counted up *)
(* and saved without a lock.                                               *)
(*                                                                         *)
(* One buyer.  Time is the end of a window, of a block, of a reservation;  *)
(* a window or a block does not end between a request's read of the        *)
(* penalty and its save.                                                   *)
(***************************************************************************)
EXTENDS Naturals, FiniteSets

CONSTANTS
  Slots,        \* requests of the buyer that can be open at a time
  MAX_FAILED

ASSUME LimitAssumption == MAX_FAILED \in Nat \ {0} /\ IsFiniteSet(Slots)

VARIABLES
  penalty,     \* the row of the buyer
  slot,        \* open requests: what they are about to save
  active,      \* RESERVED and PENDING_PAYMENT tickets in their time
  overdue,     \* is there one whose time is over and that was not swept?
  reserved,    \* history: reservations since the buyer last paid, deleted the
               \* penalties, or came to the end of a window or a block
  beside,      \* history: requests that saw another reservation committed
  overlapped   \* history: such a request made one of the reservations counted

limitVars ==
  <<penalty, slot, active, overdue, reserved, beside, overlapped>>

-----------------------------------------------------------------------------
(* Rows.                                                                   *)

Counts == 0..(MAX_FAILED + 1)   \* bound: the count is not followed further
PenaltyRow == [made : BOOLEAN, count : Counts,
               window : {"none", "open", "over"},
               block : {"none", "running", "over"}]
SlotRecord == [stage : {"none", "penalty_passed", "guards_passed", "saving",
                        "forgiving"},
               save : PenaltyRow]

LimitTypeOK ==
  /\ penalty \in PenaltyRow
  /\ slot \in [Slots -> SlotRecord]
  /\ active \in Nat
  /\ overdue \in BOOLEAN
  /\ reserved \in Counts
  /\ beside \subseteq Slots
  /\ overlapped \in BOOLEAN

NoPenalty == [made |-> FALSE, count |-> 0, window |-> "none", block |-> "none"]
NoSlot == [stage |-> "none", save |-> NoPenalty]

LimitInit ==
  /\ penalty = NoPenalty
  /\ slot = [s \in Slots |-> NoSlot]
  /\ active = 0
  /\ overdue = FALSE
  /\ reserved = 0
  /\ beside = {}
  /\ overlapped = FALSE

-----------------------------------------------------------------------------
(* Helpers.                                                                *)

\* getOrCreate.
Created == IF penalty.made THEN penalty
           ELSE [made |-> TRUE, count |-> 0, window |-> "open",
                 block |-> "none"]
OneMore(n) == IF n > MAX_FAILED THEN n ELSE n + 1

\* The next failure starts a new count.
StartsOver(row) == row.window \in {"none", "over"} \/ row.block = "over"

\* Mutant: a failure more is allowed before the block.
FailureLate(row) ==
  LET fresh == StartsOver(row)
      count == IF fresh THEN 1 ELSE OneMore(row.count)
  IN [made |-> TRUE, count |-> count,
      window |-> IF fresh THEN "open" ELSE row.window,
      block |-> IF count > MAX_FAILED THEN "running"
                ELSE IF fresh THEN "none" ELSE row.block]

\* registerFailure: what it makes of the row it reads.
Failure(row) ==
  LET fresh == StartsOver(row)
      count == IF fresh THEN 1 ELSE OneMore(row.count)
  IN [made |-> TRUE, count |-> count,
      window |-> IF fresh THEN "open" ELSE row.window,
      block |-> IF count >= MAX_FAILED THEN "running"
                ELSE IF fresh THEN "none" ELSE row.block]

Step(s, stage, save) ==
  slot' = [slot EXCEPT ![s] = [stage |-> stage, save |-> save]]
Closes(s) == slot' = [slot EXCEPT ![s] = NoSlot] /\ beside' = beside \ {s}
Unsaved == \A s \in Slots : slot[s].stage # "saving"

\* The count of reservations starts again.
Pardons == /\ reserved' = 0
           /\ overlapped' = (overlapped /\ active' > 1)

-----------------------------------------------------------------------------
(* A reservation: two guards, then the handler's transaction.              *)

IsPenaltyGuard(s) ==
  /\ slot[s].stage = "none"
  /\ penalty' = Created
  /\ penalty.block # "running"
  /\ Step(s, "penalty_passed", NoPenalty)
  /\ UNCHANGED <<active, overdue, reserved, beside, overlapped>>

\* Mutant: the guard looks at paid tickets only.
NoneSold == TRUE

NoneActive == active = 0

NoActiveReservationGuard(s) ==
  /\ slot[s].stage = "penalty_passed"
  /\ IF NoneActive THEN Step(s, "guards_passed", NoPenalty) /\ UNCHANGED beside
     ELSE Closes(s)
  /\ UNCHANGED <<penalty, active, overdue, reserved, overlapped>>

\* The ticket is written and registerFailure reads the penalty.
RegisterFailure(s) ==
  /\ slot[s].stage = "guards_passed"
  /\ Step(s, "saving", Failure(Created))
  /\ UNCHANGED <<penalty, active, overdue, reserved, beside, overlapped>>

CommitReservation(s) ==
  /\ slot[s].stage = "saving"
  /\ penalty' = slot[s].save
  /\ active' = active + 1
  /\ reserved' = OneMore(reserved)
  /\ overlapped' = (overlapped \/ s \in beside)
  /\ slot' = [slot EXCEPT ![s] = NoSlot]
  /\ beside' = {q \in Slots \ {s} : slot[q].stage # "none"}
  /\ UNCHANGED overdue

\* The travel is not on sale, the seats are taken, the connection is lost.
RollbackReservation(s) ==
  /\ slot[s].stage \in {"penalty_passed", "guards_passed", "saving"}
  /\ Closes(s)
  /\ UNCHANGED <<penalty, active, overdue, reserved, overlapped>>

-----------------------------------------------------------------------------
(* What becomes of it.                                                     *)

\* confirmWithManager, of a ticket in its time or overdue; resetPenalty.
PayReservation ==
  /\ \/ active > 0 /\ active' = active - 1
     \/ overdue /\ active' = active
  /\ penalty' = IF penalty.made
                THEN [NoPenalty EXCEPT !.made = TRUE] ELSE penalty
  /\ Pardons
  /\ UNCHANGED <<slot, overdue, beside>>

CancelReservation ==
  /\ active > 0
  /\ active' = active - 1
  /\ UNCHANGED <<penalty, slot, overdue, reserved, beside, overlapped>>

ReservationExpires ==
  /\ active > 0
  /\ active' = active - 1
  /\ overdue' = TRUE
  /\ UNCHANGED <<penalty, slot, reserved, beside, overlapped>>

\* expireTravelIfNeeded; the job that registered a failure here is commented
\* out.
SweepOverdue ==
  /\ overdue
  /\ overdue' = FALSE
  /\ UNCHANGED <<penalty, slot, active, reserved, beside, overlapped>>

WindowEnds ==
  /\ Unsaved
  /\ penalty.window = "open"
  /\ penalty' = [penalty EXCEPT !.window = "over"]
  /\ UNCHANGED <<slot, active, overdue, beside>>
  /\ Pardons

BlockEnds ==
  /\ Unsaved
  /\ penalty.block = "running"
  /\ penalty' = [penalty EXCEPT !.block = "over"]
  /\ UNCHANGED <<slot, active, overdue, beside>>
  /\ Pardons

\* deletePenalities reads the customer with the penalty ...
StartDeletePenalities(s) ==
  /\ slot[s].stage = "none"
  /\ penalty.made
  /\ Step(s, "forgiving", [penalty EXCEPT !.count = 0, !.block = "none"])
  /\ UNCHANGED <<penalty, active, overdue, reserved, beside, overlapped>>

\* ... and saves both.
EndDeletePenalities(s) ==
  /\ slot[s].stage = "forgiving"
  /\ penalty' = slot[s].save
  /\ Closes(s)
  /\ UNCHANGED <<active, overdue>>
  /\ Pardons

LimitNext ==
  \/ \E s \in Slots : IsPenaltyGuard(s)
  \/ \E s \in Slots : NoActiveReservationGuard(s)
  \/ \E s \in Slots : RegisterFailure(s)
  \/ \E s \in Slots : CommitReservation(s)
  \/ \E s \in Slots : RollbackReservation(s)
  \/ PayReservation
  \/ CancelReservation
  \/ ReservationExpires
  \/ SweepOverdue
  \/ WindowEnds
  \/ BlockEnds
  \/ \E s \in Slots : StartDeletePenalities(s)
  \/ \E s \in Slots : EndDeletePenalities(s)

LimitSpec == LimitInit /\ [][LimitNext]_limitVars

-----------------------------------------------------------------------------
(* Properties.                                                             *)

\* A buyer makes at most MAX_FAILED reservations before paying one, deleting
\* the penalties, or sitting out the block or the window; one more is made
\* only by a request that had passed the guard when another reservation was
\* committed (IsPenaltyGuard and registerFailure lock nothing).
ReservationsBounded == reserved > MAX_FAILED => overlapped

\* Two reservations are active at a time only if the request of the second
\* was already under way when the first was committed
\* (NoActiveReservationGuard looks before the transaction).
OneActiveReservation == active > 1 => overlapped

-----------------------------------------------------------------------------
(* The inductive invariant.                                                *)

\* A count that reaches the limit comes with a block; what registerFailure is
\* about to save is in its window, and deletePenalities saves no count.
RowsAgree ==
  /\ ~penalty.made => penalty = NoPenalty
  /\ penalty.count >= MAX_FAILED => penalty.block # "none"
  /\ \A s \in Slots :
       LET save == slot[s].save
       IN /\ slot[s].stage = "saving" =>
               /\ save.made /\ ~StartsOver(save) /\ save.count > 0
               /\ save.count >= MAX_FAILED => save.block = "running"
          /\ slot[s].stage = "forgiving" =>
               save.made /\ save.count = 0 /\ save.block = "none"

\* The row counts at least the reservations made, and a request that saw no
\* other reservation committed is about to save a count that includes its own.
CountsAgree ==
  ~overlapped =>
    /\ StartsOver(penalty) => reserved = 0
    /\ reserved <= penalty.count
    /\ \A s \in Slots \ beside :
         /\ slot[s].stage \in {"penalty_passed", "guards_passed", "saving"} =>
              reserved < MAX_FAILED
         /\ slot[s].stage = "saving" => reserved < slot[s].save.count

\* A request that passed the guard and saw no other reservation committed is
\* alone.
NoneBeside ==
  \A s \in Slots \ beside :
    slot[s].stage \in {"guards_passed", "saving"} => active = 0

LimitInv == /\ LimitTypeOK
            /\ RowsAgree
            /\ CountsAgree /\ ReservationsBounded
            /\ NoneBeside /\ OneActiveReservation
=============================================================================
