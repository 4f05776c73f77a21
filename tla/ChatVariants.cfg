CONSTANTS
  Size = 3
  Offsets = {0, 1, 2, 3}
  MaxPushed = 6
  ClClients = {a, b}
  ClRooms = {r1}
  ClWorkers = {w1, w2}
  ClMaxMsgs = 2
  ClMaxLost = 0
  ClRegSize = 1
  k1 = k1
  k2 = k2
  k3 = k3
  WkClients = {k1, k2, k3}
  WkRooms = {r1}
  WkHash <- MCHash
  WkPerWorker = 1
  WkMaxWorkers = 6
  RlClients = {c1}
  RlRequests = {q1, q2}
  RlMaxTokens = 2
  RlRate = 1
  RlMaxInactive = 2
  RlMaxTime = 3
  RlMaxBuckets = 3
SPECIFICATION MCSpec
SYMMETRY MCSymmetry
INVARIANTS GetAllIsLatest ReplayIsNew ClDelivery WkAssigned WkActiveMatches RlWithinRate
CHECK_DEADLOCK FALSE
