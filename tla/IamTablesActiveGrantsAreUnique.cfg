\* Two requests that assign one role at once.
CONSTANTS
  manager = manager
  engineer = engineer
  sam = sam
  seededManager = seededManager
  seededEngineer = seededEngineer
  seededGrant = seededGrant
  Request = {r1, r2}
  Id = {seededManager, seededEngineer, seededGrant, i1, i2}
  Item = {approve}
  Never = Never
  NoRow = NoRow
  Unknown = Unknown
  NoDepartment = NoDepartment
  Seed <- MCSeed
  RoleKey = {manager, engineer, auditor}
  Slug = {globex}
  Grant <- MCGrant
  Scope <- MCScope
  User = {sam}
  MaxVersion = 2
  MaxNow = 1
SPECIFICATION Spec
INVARIANT ActiveGrantsAreUnique
CHECK_DEADLOCK FALSE
