---------------------------- MODULE WorkerServer -----------------------------
(***************************************************************************)
(* chat/with-workers: AcceptLoop alone changes clients, rooms and workers, *)
(* taking requests from one channel per kind in any order; messages are    *)
(* sent by goroutines.  Every client belongs to the worker its id hashes   *)
(* to, and workers are added and removed as clients come and go.           *)
(***************************************************************************)
EXTENDS Naturals, Sequences, FiniteSets

CONSTANTS WkClients, WkRooms,
          WkHash(_),        \* the hash of a client's id
          WkPerWorker,      \* clientsPerWorker (50 in the code)
          WkMaxWorkers      \* bound on the workers, beyond what the clients call for

ASSUME WkAssumption ==
  /\ \A c \in WkClients : WkHash(c) \in Nat
  /\ WkPerWorker \in Nat \ {0} /\ WkMaxWorkers \in Nat \ {0}
  /\ IsFiniteSet(WkClients) /\ 2 * Cardinality(WkClients) <= WkPerWorker * WkMaxWorkers

VARIABLES
  wkUp,        \* "off", "up", "draining", "closed" or "crashed"
  wkConn,      \* "absent", "new", "open" or "closed"
  wkReading,   \* clients whose readMsgLoop runs
  wkCh,        \* the channels of WSServer
  wkClients,   \* srv.clients
  wkActive,    \* activeClients
  wkRooms,     \* srv.rooms
  wkMembers,   \* room.clients
  wkRoomsOf,   \* client.rooms
  wkNil,       \* clients whose rooms map is nil
  wkN,         \* len(srv.workers)
  wkIn,        \* worker.clients
  wkOf,        \* client.worker, or WkNoWorker
  wkSend,      \* SendRoomMsg goroutines
  wkBcast,     \* SendBroadcastMsg goroutines of workers
  wkSent,      \* how many messages clients have sent
  wkBudget     \* bound: how many they send

wkVars == <<wkUp, wkConn, wkReading, wkCh, wkClients, wkActive, wkRooms, wkMembers, wkRoomsOf,
            wkNil, wkN, wkIn, wkOf, wkSend, wkBcast, wkSent, wkBudget>>
wkRoomVars == <<wkRooms, wkMembers, wkRoomsOf, wkNil>>
wkWorkerVars == <<wkClients, wkActive, wkN, wkIn, wkOf>>
wkOut == <<wkSend, wkBcast>>

WkIndex == 0..(WkMaxWorkers - 1)
WkNoWorker == WkMaxWorkers
WkChannels == {"joinServer", "leaveServer", "joinRoom", "leaveRoom", "room", "broadcast"}
WkRunning == wkUp \in {"up", "draining"}

\* NewWSServer(n), for the given clients.
WkInit(up, n, clients, msgs) ==
  /\ wkUp = up /\ wkN = n /\ wkBudget = msgs
  /\ wkConn = [c \in WkClients |-> IF c \in clients THEN "new" ELSE "absent"]
  /\ wkReading = {}
  /\ wkCh = [ch \in WkChannels |-> <<>>]
  /\ wkClients = {} /\ wkActive = 0 /\ wkRooms = {}
  /\ wkMembers = [r \in WkRooms |-> {}] /\ wkRoomsOf = [c \in WkClients |-> {}] /\ wkNil = {}
  /\ wkIn = [w \in WkIndex |-> {}] /\ wkOf = [c \in WkClients |-> WkNoWorker]
  /\ wkSend = {} /\ wkBcast = {} /\ wkSent = 0

WkPut(ch, x) == wkCh' = [wkCh EXCEPT ![ch] = Append(@, x)]
-----------------------------------------------------------------------------
(* Connections and their read loops.                                       *)
WkHandler(c) ==
  /\ WkRunning /\ wkConn[c] = "new"
  /\ wkConn' = [wkConn EXCEPT ![c] = "open"] /\ wkReading' = wkReading \cup {c}
  /\ WkPut("joinServer", c)
  /\ UNCHANGED <<wkUp, wkRoomVars, wkWorkerVars, wkOut, wkSent, wkBudget>>

\* The peer goes away, or the goroutine that watches the context closes it.
WkConnClosed(c) ==
  /\ WkRunning /\ wkConn[c] = "open" /\ wkConn' = [wkConn EXCEPT ![c] = "closed"]
  /\ UNCHANGED <<wkUp, wkReading, wkCh, wkRoomVars, wkWorkerVars, wkOut, wkSent, wkBudget>>

WkReadEnds(c) ==
  /\ WkRunning /\ c \in wkReading /\ wkConn[c] = "closed"
  /\ wkReading' = wkReading \ {c} /\ WkPut("leaveServer", c)
  /\ UNCHANGED <<wkUp, wkConn, wkRoomVars, wkWorkerVars, wkOut, wkSent, wkBudget>>

WkReadMsg(c) ==
  /\ WkRunning /\ c \in wkReading /\ wkConn[c] = "open" /\ wkSent < wkBudget
  /\ wkSent' = wkSent + 1 /\ UNCHANGED wkBudget
  /\ \E ch \in {"joinRoom", "leaveRoom", "room", "broadcast"}, r \in WkRooms :
       LET m == [id |-> wkSent + 1, from |-> c, room |-> r] IN
       WkPut(ch, m)
  /\ UNCHANGED <<wkUp, wkConn, wkReading, wkRoomVars, wkWorkerVars, wkOut>>
-----------------------------------------------------------------------------
(* Workers.  A state of the worker bookkeeping is a record n, in, of.      *)
WkGetWorker(c, n) == WkHash(c) % n

WkAdd(s, c) ==
  LET w == WkGetWorker(c, s.n) IN
  [s EXCEPT !.in[w] = @ \cup {c}, !.of[c] = w]

WkRemove(s, c) ==
  LET w == WkGetWorker(c, s.n) IN
  [s EXCEPT !.in[w] = @ \ {c}, !.of[c] = WkNoWorker]

\* Clients whose worker changes leave the old one and join the new one.
WkRehash(s, clients) ==
  LET moved == {c \in clients : s.of[c] # WkGetWorker(c, s.n)} IN
  [n |-> s.n,
   in |-> [w \in WkIndex |->
             {c \in s.in[w] : ~(c \in moved /\ s.of[c] = w)}
               \cup {c \in moved : WkGetWorker(c, s.n) = w}],
   of |-> [c \in WkClients |-> IF c \in moved THEN WkGetWorker(c, s.n) ELSE s.of[c]]]

\* Mutant: a client is added to its new worker and stays with the old one.
WkScaleUpKeepsOld(s, clients) ==
  IF Cardinality(clients) > WkPerWorker /\ s.n * WkPerWorker < 2 * Cardinality(clients)
  THEN LET t == [s EXCEPT !.n = @ + 1]
           u == WkRehash(t, clients) IN
       [u EXCEPT !.in = [w \in WkIndex |-> u.in[w] \cup s.in[w]]]
  ELSE s

WkCheckScaleUp(s, clients) ==
  IF Cardinality(clients) > WkPerWorker /\ s.n * WkPerWorker < 2 * Cardinality(clients)
  THEN WkRehash([s EXCEPT !.n = @ + 1], clients)
  ELSE s

WkCheckScaleDown(s, clients) ==
  IF Cardinality(clients) > WkPerWorker /\ s.n * WkPerWorker >= 2 * Cardinality(clients)
  THEN WkRehash([s EXCEPT !.n = @ - 1], clients)
  ELSE s

WkNow == [n |-> wkN, in |-> wkIn, of |-> wkOf]
WkSet(s) == wkN' = s.n /\ wkIn' = s.in /\ wkOf' = s.of
-----------------------------------------------------------------------------
(* AcceptLoop.                                                             *)
WkAccepts(ch) == wkUp = "up" /\ wkCh[ch] # <<>>
WkTake(ch) == wkCh' = [wkCh EXCEPT ![ch] = Tail(@)]

WkJoinServer(c) ==
  IF c \in wkClients THEN UNCHANGED wkWorkerVars
  ELSE /\ wkClients' = wkClients \cup {c} /\ wkActive' = wkActive + 1
       /\ WkSet(WkCheckScaleUp(WkAdd(WkNow, c), wkClients'))

\* Mutant: a client that has left is counted down again.
WkLeaveServerTwice(c) ==
  /\ wkActive' = IF wkActive > 0 THEN wkActive - 1 ELSE 0
  /\ wkClients' = wkClients \ {c}
  /\ wkMembers' = [r \in WkRooms |->
       IF r \in wkRoomsOf[c] THEN wkMembers[r] \ {c} ELSE wkMembers[r]]
  /\ wkRoomsOf' = [wkRoomsOf EXCEPT ![c] = {}] /\ wkNil' = wkNil \cup {c}
  /\ WkSet(WkCheckScaleDown(WkRemove(WkNow, c), wkClients'))
  /\ UNCHANGED wkRooms

WkLeaveServer(c) ==
  /\ wkActive' = IF c \in wkClients THEN wkActive - 1 ELSE wkActive
  /\ wkClients' = wkClients \ {c}
  /\ wkMembers' = [r \in WkRooms |->
       IF r \in wkRoomsOf[c] THEN wkMembers[r] \ {c} ELSE wkMembers[r]]
  /\ wkRoomsOf' = [wkRoomsOf EXCEPT ![c] = {}] /\ wkNil' = wkNil \cup {c}
  /\ WkSet(WkCheckScaleDown(WkRemove(WkNow, c), wkClients'))
  /\ UNCHANGED wkRooms

WkAcceptJoin ==
  /\ WkAccepts("joinServer") /\ WkTake("joinServer") /\ WkJoinServer(Head(wkCh["joinServer"]))
  /\ UNCHANGED <<wkUp, wkConn, wkReading, wkRoomVars, wkOut, wkSent, wkBudget>>

WkAcceptLeave ==
  /\ WkAccepts("leaveServer") /\ WkTake("leaveServer")
  /\ WkLeaveServer(Head(wkCh["leaveServer"]))
  /\ UNCHANGED <<wkUp, wkConn, wkReading, wkOut, wkSent, wkBudget>>

\* JoinRoom registers the client again if it has left; its rooms map is nil
\* then, and the assignment panics.
WkJoinRoom ==
  LET m == Head(wkCh["joinRoom"]) IN
  /\ WkAccepts("joinRoom") /\ WkTake("joinRoom") /\ WkJoinServer(m.from)
  /\ wkRooms' = wkRooms \cup {m.room}
  /\ wkMembers' = [wkMembers EXCEPT ![m.room] = @ \cup {m.from}]
  /\ IF m.from \in wkNil THEN wkUp' = "crashed" /\ UNCHANGED wkRoomsOf
     ELSE wkRoomsOf' = [wkRoomsOf EXCEPT ![m.from] = @ \cup {m.room}] /\ UNCHANGED wkUp
  /\ UNCHANGED <<wkConn, wkReading, wkNil, wkOut, wkSent, wkBudget>>

WkLeaveRoom ==
  LET m == Head(wkCh["leaveRoom"]) IN
  /\ WkAccepts("leaveRoom") /\ WkTake("leaveRoom")
  /\ wkMembers' = [wkMembers EXCEPT ![m.room] = @ \ {m.from}]
  /\ wkRoomsOf' = IF m.room \in wkRooms THEN [wkRoomsOf EXCEPT ![m.from] = @ \ {m.room}]
                  ELSE wkRoomsOf
  /\ UNCHANGED <<wkUp, wkConn, wkReading, wkWorkerVars, wkRooms, wkNil, wkOut, wkSent, wkBudget>>

WkAcceptRoomMsg ==
  LET m == Head(wkCh["room"]) IN
  /\ WkAccepts("room") /\ WkTake("room")
  /\ wkSend' = wkSend \cup {[m |-> m, at |-> "collect", todo |-> {}]}
  /\ UNCHANGED <<wkUp, wkConn, wkReading, wkRoomVars, wkWorkerVars, wkBcast, wkSent, wkBudget>>

\* SendBroadcastMsgWorkers starts a goroutine per worker.
WkAcceptBroadcast ==
  LET m == Head(wkCh["broadcast"]) IN
  /\ WkAccepts("broadcast") /\ WkTake("broadcast")
  /\ wkBcast' = wkBcast \cup {[m |-> m, w |-> w, at |-> "collect", todo |-> {}] : w \in 0..(wkN - 1)}
  /\ UNCHANGED <<wkUp, wkConn, wkReading, wkRoomVars, wkWorkerVars, wkSend, wkSent, wkBudget>>

\* The context is cancelled and AcceptLoop's select takes it; requests it serves
\* in between are served as before.
WkAcceptLoopEnds ==
  /\ wkUp = "up" /\ wkUp' = "draining"
  /\ UNCHANGED <<wkConn, wkReading, wkCh, wkRoomVars, wkWorkerVars, wkOut, wkSent, wkBudget>>

\* ShutdownLoopAtomic closes shutdownCH when the last client has left ...
WkDrain ==
  /\ wkUp = "draining" /\ wkCh["leaveServer"] # <<>> /\ WkTake("leaveServer")
  /\ WkLeaveServer(Head(wkCh["leaveServer"]))
  /\ wkUp' = IF wkActive' = 0 THEN "closed" ELSE wkUp
  /\ UNCHANGED <<wkConn, wkReading, wkOut, wkSent, wkBudget>>

\* ... or after a minute.
WkDrainTimeout ==
  /\ wkUp = "draining" /\ wkUp' = "closed"
  /\ UNCHANGED <<wkConn, wkReading, wkCh, wkRoomVars, wkWorkerVars, wkOut, wkSent, wkBudget>>

\* A goroutine that reads the maps AcceptLoop writes, without a common lock: the
\* runtime may end the process.
WkMapRace ==
  /\ \E ch \in {"joinServer", "leaveServer", "joinRoom", "leaveRoom"} : WkAccepts(ch)
  /\ \E g \in wkSend \cup wkBcast : g.at = "collect"
  /\ wkUp' = "crashed"
  /\ UNCHANGED <<wkConn, wkReading, wkCh, wkRoomVars, wkWorkerVars, wkOut, wkSent, wkBudget>>
-----------------------------------------------------------------------------
(* Delivery.                                                               *)

\* A goroutine with nobody left to write to has ended.
WkGo(set, g, todo) ==
  (set \ {g}) \cup (IF todo = {} THEN {} ELSE {[g EXCEPT !.at = "write", !.todo = todo]})

WkCollectRoom(g) ==
  /\ WkRunning /\ g \in wkSend /\ g.at = "collect"
  /\ wkSend' = WkGo(wkSend, g, wkMembers[g.m.room] \ {g.m.from})
  /\ UNCHANGED <<wkUp, wkConn, wkReading, wkCh, wkRoomVars, wkWorkerVars, wkBcast, wkSent, wkBudget>>

\* A room that does not exist has no members.  A close error of a receiver puts the sender of the message on leaveServerCH.
WkWriteRoom(g) ==
  /\ WkRunning /\ g \in wkSend
  /\ \E c \in g.todo :
       /\ wkSend' = WkGo(wkSend, g, g.todo \ {c})
       /\ \/ wkConn[c] = "closed" /\ WkPut("leaveServer", g.m.from)
          \/ UNCHANGED wkCh
  /\ UNCHANGED <<wkUp, wkConn, wkReading, wkRoomVars, wkWorkerVars, wkBcast, wkSent, wkBudget>>

WkCollectBroadcast(g) ==
  /\ WkRunning /\ g \in wkBcast /\ g.at = "collect"
  /\ wkBcast' = WkGo(wkBcast, g, wkIn[g.w] \ {g.m.from})
  /\ UNCHANGED <<wkUp, wkConn, wkReading, wkCh, wkRoomVars, wkWorkerVars, wkSend, wkSent, wkBudget>>

WkWriteBroadcast(g) ==
  /\ WkRunning /\ g \in wkBcast
  /\ \E c \in g.todo :
       /\ wkBcast' = WkGo(wkBcast, g, g.todo \ {c})
       /\ \/ wkConn[c] = "closed" /\ WkPut("leaveServer", c)
          \/ UNCHANGED wkCh
  /\ UNCHANGED <<wkUp, wkConn, wkReading, wkRoomVars, wkWorkerVars, wkSend, wkSent, wkBudget>>

WkNext ==
  \/ \E c \in WkClients : WkHandler(c) \/ WkConnClosed(c) \/ WkReadEnds(c) \/ WkReadMsg(c)
  \/ WkAcceptJoin \/ WkAcceptLeave \/ WkJoinRoom \/ WkLeaveRoom \/ WkAcceptRoomMsg
  \/ WkAcceptBroadcast \/ WkAcceptLoopEnds \/ WkDrain \/ WkDrainTimeout \/ WkMapRace
  \/ \E g \in wkSend : WkCollectRoom(g) \/ WkWriteRoom(g)
  \/ \E g \in wkBcast : WkCollectBroadcast(g) \/ WkWriteBroadcast(g)

\* A server started with any number of workers, for any of the clients.
WkSpec ==
  /\ \E n \in 1..WkMaxWorkers, clients \in SUBSET WkClients, msgs \in Nat :
       WkInit("up", n, clients, msgs)
  /\ [][WkNext]_wkVars
-----------------------------------------------------------------------------
\* A registered client is in the map of exactly one worker, the one its id
\* hashes to with the present number of workers, and no other client is in any:
\* through every joining, double leaving and change of the number of workers.
\* (scaleUp, scaleDown, addClientToWorker, removeClientFromWorker)
WkAssigned ==
  /\ wkN \in 1..WkMaxWorkers
  /\ \A w \in WkIndex :
       wkIn[w] = {c \in wkClients : WkGetWorker(c, wkN) = w}
  /\ \A c \in wkClients : wkOf[c] = WkGetWorker(c, wkN)

\* activeClients is the number of registered clients, so that ShutdownLoopAtomic
\* ends when the last one has left, although a client may leave twice or before
\* it has joined.  (LeaveServer, JoinServer, ShutdownLoopAtomic)
WkActiveMatches == wkActive = Cardinality(wkClients)

=============================================================================
