CONSTANTS
  Address = {a, b}
  WindowMs = 3
  Quota = 2
  MaxClock = 5
SPECIFICATION LimiterSpec
SYMMETRY AddressSymmetry
INVARIANTS
  AtMostTwiceTheQuota
  RefusedOnlyAtQuota
CHECK_DEADLOCK FALSE
