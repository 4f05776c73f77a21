CONSTANTS
  Keys = {1, 2, 3, 4}
  Bounds = {0, 1, 2, 3, 4, 5}
  PfMaxOffset = 3
  PfRange = 2
  PfQueueSize = 1
  TsRequests = {r1, r2, r3, r4}
  TsBadBody = {r3}
  TsUnrunnable = {r4}
  TsBadRange = {r2}
SPECIFICATION MCSpec
INVARIANTS LoopComputesScan PfNoPendingBehind TsCrashNeedsOverlap
PROPERTIES PfExits
CHECK_DEADLOCK FALSE
