SPECIFICATION Spec
CONSTANTS
  None = None
  Names <- MCNames
  Resources <- MCResources
  Permissions <- ValidPermissions
  Releases = {1, 2}
  Matrix <- MCMatrix
  Grants <- MCGrants
  Requests = {q1, q2}
  MaxSecrets = 2
  MaxLinks = 2
  Accounts = {a1, a2}
  Visits = {w1, w2}
  Nobody = Nobody
  Slots = {s1, s2}
  MAX_FAILED = 4
  Companies = {c1, c2}
  Offices = {o1, o2}
  Owners = {n1}
  Buses = {b1}
  Cashiers = {k1}
  Routelines = {r1}
  Trips = {t1}
  Nothing = Nothing
INVARIANTS
  ServedAsReleased
  EveryRouteServed
  ResetLinkUsedOnce
  SecondFactorUsable
  DeletedAccountStaysEmpty
  ReservationsBounded
  OneActiveReservation
  EnabledHangsFromEnabled
  OpenTravelsKeepTheirs
CHECK_DEADLOCK FALSE
