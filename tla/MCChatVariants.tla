--------------------------- MODULE MCChatVariants ----------------------------
(* One of four programs of chat/ runs: the ring buffer of a room, the      *)
(* client-loop server, the server with workers, or the rate limiter.       *)
EXTENDS RoomHistory, ClientLoopServer, WorkerServer, RateLimiter, TLC

CONSTANTS k1, k2, k3   \* the clients of the server with workers

VARIABLE program
mcVars == <<program, vars, clVars, wkVars, rlVars>>

\* Clients and workers of the client-loop server are interchangeable.
MCSymmetry == Permutations(ClClients) \cup Permutations(ClWorkers)

MCHash(k) == CASE k = k1 -> 6 [] k = k2 -> 3 [] k = k3 -> 4

\* Two clients exchange messages, or three come and go while there are many
\* workers.
WkStart == \/ WkInit("up", 1, {k1, k2}, 2)
           \/ WkInit("up", 4, {k1, k2, k3}, 0)
WkOff == WkInit("off", 1, {}, 0)

MCInit ==
  /\ Init
  /\ \/ program = "ring" /\ ClInit({"off"}) /\ WkOff /\ RlInit({FALSE})
     \/ program = "client-loop" /\ ClInit({"up"}) /\ WkOff /\ RlInit({FALSE})
     \/ program = "workers" /\ ClInit({"off"}) /\ WkStart /\ RlInit({FALSE})
     \/ program = "limiter" /\ ClInit({"off"}) /\ WkOff /\ RlInit({TRUE})

MCNext ==
  /\ UNCHANGED program
  /\ \/ program = "ring" /\ Next /\ UNCHANGED <<clVars, wkVars, rlVars>>
     \/ ClNext /\ UNCHANGED <<vars, wkVars, rlVars>>
     \/ WkNext /\ UNCHANGED <<vars, clVars, rlVars>>
     \/ RlNext /\ UNCHANGED <<vars, clVars, wkVars>>

MCSpec == MCInit /\ [][MCNext]_mcVars

=============================================================================
