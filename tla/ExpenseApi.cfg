CONSTANTS
  Request = {r1, r2}
  User = {riya}
  Expense = {1, 2, 3, 4, 5}
  Role = {manager}
  acme = acme
  globex = globex
  riya = riya
  manager = manager
  Scope <- MCScope
  Body <- MCBody
  Case <- MCCase
  TenantOf <- MCTenantOf
  Attributes <- MCAttributes
  Anyone = Anyone
  NoRoles = NoRoles
  NoFile = NoFile
  PageLimit = 2
  Precision = 2
SPECIFICATION FairSpec
INVARIANTS
  ApprovedByOne
  ApprovedOnPresentRoles
  EffectsWereAudited
  CrossTenantDenied
  MissesOnlyTies
PROPERTIES
  EveryRequestEnds
CHECK_DEADLOCK FALSE
