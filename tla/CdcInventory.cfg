CONSTANTS
  Topics = {t1}
  Partitions = {p1, p2}
  Orders = {n1, n2}
  Ignored = Ignored
  Garbled = Garbled
  LogSize = 2
  Cooperative = TRUE
  Alone = TRUE
  MaxStates = 2
  MaxCrashes = 1
  TPs <- AllTPs
  Undecodable <- NoneUndecodable
  FirstOrder = n1
  Only = p1
  RebalanceLog = 1
SPECIFICATION MCLiveSpec
INVARIANTS CommittedIsReserved InboxMatchesInventory AssignedIsTracked
PROPERTY RebalanceEnds
CHECK_DEADLOCK FALSE
