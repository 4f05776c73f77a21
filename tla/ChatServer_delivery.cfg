SPECIFICATION ConnectedSpec
CONSTANTS
  c1 = c1
  c2 = c2
  c3 = c3
  r1 = r1
  r2 = r2
  Clients = {c1, c2, c3}
  Rooms = {r1}
  Senders = {c1}
  Closing = {c3}
  Stalling = {c3}
  Timed = {c3}
  Kinds = {"broadcast", "replay"}
  MaxReqs = 1
  ChanCap = 1
  EventCap = 1
  MsgCap = 1
  PongFloor = 0
  Size = 2
INVARIANTS
  BroadcastOnce
PROPERTIES
  BroadcastReaches
  DepartureCompletes
  SilentIsDropped
CHECK_DEADLOCK FALSE
