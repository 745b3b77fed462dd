CONSTANTS
  Clients = {c1, c2}
  Rooms = {r1, r2}
  Sessions = {s1, s2}
  Notifiers = {n1}
  SendBuffer = 1
  None = None
SPECIFICATION FairSpec
INVARIANTS OwnSendsSafe RoomListExact RouteSound
PROPERTIES LossReported ResponseSent
CHECK_DEADLOCK FALSE
