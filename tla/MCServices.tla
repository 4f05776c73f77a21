----------------------------- MODULE MCServices ------------------------------
(* One service runs: the event bus of protocol-playground with its source  *)
(* and sink, its sensor stream, its file upload, or the client-loop server *)
(* of chat/.                                                               *)
EXTENDS Aggregator, SensorStream, FileUpload, ClientLoopServer

AgOff == AgInit({"off"}) /\ ~agCreated
FuOff == FuInit({FALSE}) /\ \A u \in FuUploads : fuFile[u] = <<>>

MCInit ==
  \/ AgInit({"start"}) /\ SsInit({FALSE}) /\ FuOff /\ ClInit({"off"})
  \/ AgOff /\ SsInit({TRUE}) /\ FuOff /\ ClInit({"off"})
  \/ AgOff /\ SsInit({FALSE}) /\ FuInit({TRUE}) /\ ClInit({"off"})
  \/ AgOff /\ SsInit({FALSE}) /\ FuOff /\ ClInit({"up"})

MCNext ==
  \/ AgNext /\ UNCHANGED <<ssVars, fuVars, clVars>>
  \/ SsNext /\ UNCHANGED <<agVars, fuVars, clVars>>
  \/ FuNext /\ UNCHANGED <<agVars, ssVars, clVars>>
  \/ ClNext /\ UNCHANGED <<agVars, ssVars, fuVars>>

MCSpec == MCInit /\ [][MCNext]_<<agVars, ssVars, fuVars, clVars>> /\ AgFairness /\ ClFairness

=============================================================================
