CONSTANTS
  Log = {0, 1, 3}
  Poison = {3}
SPECIFICATION LiveSpec
INVARIANTS CommitSafety AckedIsDurable
PROPERTIES ImplementsAtLeastOnce FinishedIsCommitted
CHECK_DEADLOCK FALSE
