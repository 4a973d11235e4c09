\* Three keys and two values in a cache of two entries, six calls.
CONSTANTS
  CacheKey = {k, l, m}
  Value = {v, w}
  MaxEntries = 2
  Ttl = 2
  MaxClock = 3
  MaxUses = 6
SPECIFICATION LruSpec
INVARIANT HitsAreLastSet
PROPERTY EvictsLeastRecentlyUsed
CHECK_DEADLOCK FALSE
