\* Two clients, up to three units, three levels deep, and three moves.
CONSTANTS
  Request = {r1, r2}
  Id = {u, v, w}
  NoId = NoId
  NoUnit = NoUnit
  Segment = {a, b}
  MaxDepth = 3
  MaxMoves = 3
SYMMETRY OrgSymmetry
SPECIFICATION Spec
INVARIANTS
  TypeOK
  OneUnitPerPath
  PathsFollowParents
PROPERTY WritesCount
CHECK_DEADLOCK FALSE
