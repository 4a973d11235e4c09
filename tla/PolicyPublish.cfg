\* Three requests of two tenants on two nested scopes.
CONSTANTS
  Request = {p1, p2, p3}
  Tenant = {t1, t2}
  TenantOf <- MCTenantOf
  p1 = p1
  p2 = p2
  p3 = p3
  t1 = t1
  t2 = t2
  Scope <- MCScope
  Resource <- MCResource
  Body = {b}
  Malformed = Malformed
  NoPolicy = NoPolicy
  NoFile = NoFile
  MaxVersion = 3
SPECIFICATION FairSpec
INVARIANT ChainsAreComplete
PROPERTIES
  PublishNeverGoesBack
  ImplementsHistory
  EveryRequestEnds
CHECK_DEADLOCK FALSE
