SPECIFICATION Spec
CONSTANTS
  Keys = {k1}
  Clients = {p1, p2}
  Limit = 1
  Limits <- SmallLimits
  Expiries = {1}
  TicksPerSec = 2
  MaxInt = 3
  MaxTime = 4
  NoOne = NoOne
INVARIANTS TypeOK RateBound
PROPERTIES RetryAfterHonest DecidedUnlessStuck CleanerEnds
CHECK_DEADLOCK FALSE
