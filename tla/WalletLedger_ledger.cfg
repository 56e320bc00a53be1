SPECIFICATION Spec
CONSTANTS
  Customers = {c1}
  Tickets = {t1, t2}
  QRs = {q1}
  Txs = {p1, p2}
  Null = Null
  Price = 2
  Commission = 1
  MaxDebits = 1
SYMMETRY Symmetry
INVARIANTS LedgerInv CreditsConserved RechargeCreditedOnce BalanceExplained
PROPERTIES OldestSpentFirst
CHECK_DEADLOCK FALSE
