SPECIFICATION FairSpec
CONSTANTS
  c1 = c1
  c2 = c2
  c3 = c3
  r1 = r1
  r2 = r2
  Clients = {c1, c2}
  Rooms = {r1}
  Senders = {c1, c2}
  Closing = {}
  Stalling = {}
  Timed = {}
  Kinds = {"join", "room"}
  MaxReqs = 2
  ChanCap = 1
  EventCap = 1
  MsgCap = 1
  PongFloor = 0
  Size = 2
PROPERTIES
  RoomMsgReaches
CHECK_DEADLOCK FALSE
