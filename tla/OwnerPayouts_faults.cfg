SPECIFICATION Spec
CONSTANTS
  Null = Null
  Travels = {t1}
  Payouts = {x1, x2, x3}
  Verifies = {v1, v2}
SYMMETRY Symmetry
INVARIANTS PayoutInv PaidMeansAuthorised FailedMovesNoMoney CompletedMeansSettled PaidOnce BooksAgree
CHECK_DEADLOCK FALSE
