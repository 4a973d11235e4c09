\* Two calls on two keys with room for one, a fetch of up to one tick; every call is
\* settled, by the network or by the timer.
CONSTANTS
  Call = {c1, c2}
  NoCall = NoCall
  NoArg = NoArg
  Key = {k, l}
  MaxEntries = 1
  Ttl = 2
  PipTimeout = 1
  MaxTime = 4
  MaxVersion = 2
SPECIFICATION FairSpec
INVARIANTS
  TypeOK
  BoundedStaleness
  FreshReadsAreFresh
  SingleFlightUnlessForced
PROPERTY EveryCallEnds
CHECK_DEADLOCK FALSE
