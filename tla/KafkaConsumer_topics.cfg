CONSTANTS
  Topics = {t1, t2}
  Partitions = {p1}
  LogSize = 1
  Cooperative = FALSE
  Alone = FALSE
  MaxStates = 2
  MaxCrashes = 1
  TPs <- AllTPs
  Undecodable <- OneUndecodable
SPECIFICATION Spec
INVARIANTS AssignedIsTracked
CHECK_DEADLOCK FALSE
