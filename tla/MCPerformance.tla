---------------------------- MODULE MCPerformance ----------------------------
(* One of three programs runs: the loop of FindLatestToCommit, a runner of *)
(* performance/, or its HTTP server.                                       *)
EXTENDS FindLatestLoop, PerfRunner, PerfServer

LoopOff ==
  /\ st0 = [o \in {} |-> Pending] /\ lc = 0 /\ mr = 0
  /\ st = st0 /\ offset = lc /\ latest = mr /\ pc = "off"

MCInit ==
  \/ Init /\ PfInit({PfOff}) /\ TsInit({FALSE})
  \/ LoopOff /\ PfInit({"lock", "syncmap", "chan"}) /\ TsInit({FALSE})
  \/ LoopOff /\ PfInit({PfOff}) /\ TsInit({TRUE})

MCNext ==
  \/ Next /\ UNCHANGED <<pfVars, tsVars>>
  \/ PfNext /\ UNCHANGED <<vars, tsVars>>
  \/ TsNext /\ UNCHANGED <<vars, pfVars>>

MCSpec == MCInit /\ [][MCNext]_<<vars, pfVars, tsVars>> /\ PfFairness

=============================================================================
