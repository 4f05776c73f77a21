SPECIFICATION Spec
CONSTANTS
  c1 = c1
  c2 = c2
  c3 = c3
  r1 = r1
  r2 = r2
  Clients = {c1, c2}
  Rooms = {r1, r2}
  Senders = {c1, c2}
  Closing = {}
  Stalling = {}
  Timed = {}
  Kinds = {"join", "leave", "room"}
  MaxReqs = 4
  ChanCap = 1
  EventCap = 1
  MsgCap = 2
  PongFloor = 0
  Size = 2
SYMMETRY Symmetric
INVARIANTS
  RoomMsgsStayInRoom
  BufferIsOfRoom
CHECK_DEADLOCK FALSE
