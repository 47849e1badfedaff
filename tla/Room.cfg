SPECIFICATION Spec
CONSTANTS
  Clients = {c1, c2}
  Announcers = {a1}
  Run = Run
  NoOne = NoOne
  Nothing = Nothing
  Options <- BothRooms
  Slow = {c1, c2}
  MaxPosts = 1
INVARIANTS TypeOK Membership
PROPERTIES KeepsPromise LeaveReturns StopReturns StopEndsHandlers
