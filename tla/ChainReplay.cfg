\* Three rows over three ids, two damages of any kind at any time.
CONSTANTS
  EventId = {x, y, z}
  Body = {b, c}
  MaxRows = 3
  MaxDamage = 2
SYMMETRY ReplaySymmetry
SPECIFICATION Spec
INVARIANTS
  ValidRowsAreGenuine
  BlameIsExact
