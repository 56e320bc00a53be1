SPECIFICATION Spec
CONSTANTS
  Seats = {s1}
  Tickets = {t1, t2}
  QRs = {q1}
  Requests = {r1, r2}
  Null = Null
SYMMETRY Symmetry
INVARIANTS TypeOK SeatsFollowTickets NoDoubleSale SoldWasPaid
PROPERTIES SoldStaysSold
CHECK_DEADLOCK FALSE
