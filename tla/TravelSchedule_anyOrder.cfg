SPECIFICATION FairSpec
CONSTANTS
  Null = Null
  Travels = {t1}
  Requests = {r1, r2}
  Buses = {b1}
  MaxTime = 2
  StaffAlone = FALSE
PROPERTIES RejectedStaysRejected RequestsEnd
CHECK_DEADLOCK FALSE
