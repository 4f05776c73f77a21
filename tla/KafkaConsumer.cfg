CONSTANTS
  Topics = {t1}
  Partitions = {p1}
  LogSize = 3
  Cooperative = FALSE
  Alone = FALSE
  MaxStates = 2
  MaxCrashes = 1
  TPs <- AllTPs
  Undecodable <- LastUndecodable
  StoreMessages = 1
SPECIFICATION MCSpec
INVARIANTS CommitSafety PendingHasHandler StoreCommittedIsStored
CHECK_DEADLOCK FALSE
