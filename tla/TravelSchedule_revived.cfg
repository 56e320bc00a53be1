SPECIFICATION Spec
CONSTANTS
  Null = Null
  Travels = {t1, t2}
  Requests = {r1, r2}
  Buses = {b1}
  MaxTime = 1
  StaffAlone = FALSE
SYMMETRY Symmetry
INVARIANTS NoOverlap
CHECK_DEADLOCK FALSE
