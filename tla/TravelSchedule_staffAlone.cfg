SPECIFICATION Spec
CONSTANTS
  Null = Null
  Travels = {t1, t2}
  Requests = {r1, r2}
  Buses = {b1}
  MaxTime = 3
  StaffAlone = TRUE
SYMMETRY Symmetry
INVARIANTS NoOverlap ScheduleInv
CHECK_DEADLOCK FALSE
