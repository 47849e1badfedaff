SPECIFICATION Spec
CONSTANTS
  Requests = {r1}
  Writers = {w1}
  Keys = {k1}
  TicksPerSec = 2
  Nobody = Nobody
  None = None
  Nil = Nil
  Other = Other
  Waiting = Waiting
  Done = Done
  Failed = Failed
  Found = Found
  Miss = Miss
  DefaultTTL = 2
  TTLs = {1}
  Deadlines <- NeverAndSoon
  MaxTime = 4
  MaxVersion = 2
  MaxLate = 1
INVARIANTS TypeOK Fresh
PROPERTIES KeepsPromise ExpiredRemoved RequestsEnd
