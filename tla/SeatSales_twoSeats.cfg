SPECIFICATION Spec
CONSTANTS
  Seats = {s1, s2}
  Tickets = {t1, t2}
  QRs = {q1, q2}
  Requests = {r1}
  Null = Null
SYMMETRY Symmetry
INVARIANTS SaleInv
PROPERTIES ImplementsDesk
CHECK_DEADLOCK FALSE
