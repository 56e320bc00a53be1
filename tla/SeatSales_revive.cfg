SPECIFICATION Spec
CONSTANTS
  Seats = {s1}
  Tickets = {t1}
  QRs = {q1}
  Requests = {r1}
  Null = Null
PROPERTIES CancelledStaysCancelled
CHECK_DEADLOCK FALSE
