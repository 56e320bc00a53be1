SPECIFICATION Spec
CONSTANTS
  Null = Null
  Travels = {v1}
  Tickets = {k1}
  QRs = {q1,q2}
  Requests = {r1,r2}
  Notices = {n1,n2}
  Runs = {u1,u2}
SYMMETRY Symmetry
INVARIANTS SettlementInv AppPaymentsSettled TotalsMatchTickets CommissionsMatchPayments TicketsChargedOnce
CHECK_DEADLOCK FALSE
