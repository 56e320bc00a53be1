SPECIFICATION Spec
CONSTANTS
  Customers = {c1}
  Tickets = {t1}
  QRs = {q1}
  Txs = {p1, p2}
  Null = Null
  Price = 2
  Commission = 1
  MaxDebits = 2
SYMMETRY Symmetry
INVARIANTS RefundedOnce
CHECK_DEADLOCK FALSE
