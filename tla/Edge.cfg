CONSTANTS
  riya = riya
  dev = dev
  globex = globex
  acme = acme
  initech = initech
  k1 = k1
  k2 = k2
  pemA = pemA
  pemB = pemB
  User = {riya, dev}
  SeedUsers <- MCSeedUsers
  SigningKey <- MCSigningKey
  Call <- MCCall
  AccessTtl = 2
  RefreshTtl = 1
  MaxPairs = 2
  MaxNow = 3
  InternalTtl = 0
  Tolerance = 0
  Verifying = {"authz-admin"}
  AnyTenant = AnyTenant
  Request = {r1, r2}
  Skew = 0
  CacheTtl = 1
  UpstreamTimeout = 0
SPECIFICATION Spec
SYMMETRY EdgeSymmetry
INVARIANTS
  SessionsAreLinear
PROPERTIES
  AccessIsBounded
  RefusedForCause
CHECK_DEADLOCK FALSE
