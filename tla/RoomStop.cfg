SPECIFICATION Spec
CONSTANTS
  Clients = {c1, c2}
  Announcers = {}
  Run = Run
  NoOne = NoOne
  Nothing = Nothing
  Options <- BothRooms
  Slow = {}
  MaxPosts = 0
INVARIANTS StopHarmsNobody
