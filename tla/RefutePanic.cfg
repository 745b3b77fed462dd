CONSTANTS
  Clients = {c1, c2}
  Rooms = {r1}
  Sessions = {s1, s2}
  Notifiers = {n1}
  SendBuffer = 1
  None = None
SPECIFICATION Spec
INVARIANT NotifyDropsSilently
CHECK_DEADLOCK FALSE
