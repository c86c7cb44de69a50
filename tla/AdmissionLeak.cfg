SPECIFICATION MCSpec
CONSTANTS
  Slot = {s1, s2, s3, s4, s5}
  Principal = {p1, p2, p3}
  Arrivals <- ReadArrivals
  Lane = "read"
  GlobalPending = 6
  GlobalRunning = 2
  PrincipalPending = 3
  PrincipalRunning = 2
  MaxPendingDepth = 6
  MaxPrincipalEntries = 2
  ControlReserve = 2
  RecoveryReserve = 0
  CheapReserve = 1
SYMMETRY SlotsAndPrincipals
INVARIANTS
  IdleLaneIsClear
CHECK_DEADLOCK FALSE
