CONSTANTS
  AgReadings = 2
  AgQueueSize = 1
  SsReadings = 3
  SsQueueSize = 2
  FuUploads = {u1, u2}
  FuStamps = {s1, s2}
  FuSizes = {0, 1, 2}
  ClClients = {a, b}
  ClRooms = {r1}
  ClWorkers = {w1}
  ClMaxMsgs = 1
  ClMaxLost = 1
  ClRegSize = 1
SPECIFICATION MCSpec
INVARIANTS AgNoneLost AgDistancesFormPath SsEchoesInOrder FuReportedIsStored
PROPERTIES AgStops ClShutsDown
CHECK_DEADLOCK FALSE
