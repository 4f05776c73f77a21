-------------------------- MODULE ClientLoopServer ---------------------------
(***************************************************************************)
(* chat/client-loop: RegisterLoop executes registrations from registerCH   *)
(* while the read loop of every client joins and leaves rooms itself; room *)
(* messages are sent by goroutines of their own, broadcasts by workers     *)
(* that share the clients among them.  svr.mu, the mutex of each room and  *)
(* the mutex of each client are released between the parts of one          *)
(* operation.                                                              *)
(***************************************************************************)
EXTENDS Naturals, Sequences, FiniteSets

CONSTANTS ClClients, ClRooms,
          ClWorkers,    \* broadcast workers (3 in the code)
          ClMaxMsgs,    \* bound: messages that clients send
          ClMaxLost,    \* bound: clients whose connection is lost while the server runs
          ClRegSize     \* capacity of registerCH (16 in the code)

ASSUME ClAssumption == /\ ClMaxMsgs \in Nat /\ ClMaxLost \in Nat /\ ClRegSize \in Nat \ {0} 
                       /\ "loop" \notin ClClients

VARIABLES
  clUp,        \* "off", "up", "cancelled", "exited" or "panicked"
  clConn,      \* "new", "open" or "closed"
  clRead,      \* the client's readMsgLoop: "none", "run", "pong" or "done"
  clPending,   \* goroutines that send to registerCH: processCMD, initUnregisterOnError
  clReg,       \* registerCH
  clRegOpen,   \* RegisterLoop has not closed it
  clProc,      \* the operation RegisterLoop, or a read loop, is executing
  clSvr,       \* svr.Clients and svr.Rooms
  clMembers,   \* room.Clients
  clRoomsOf,   \* client.rooms
  clLeaked,    \* a read lock of svr.mu that nobody will release
  clQueue,     \* clientCH
  clWorker,    \* per worker: its clients, msgCh, and the message it is writing
  clBcast,     \* BroadcastMSG goroutines and the workers they still have to tell
  clSend,      \* SendRoomMSG goroutines
  clMsg,       \* history: the messages sent, in order
  clGot,       \* history: how often each message was written to a client
  clJoined,    \* history: the rooms each client has joined
  clMissing    \* history: a message was sent to a room that does not exist

clVars == <<clUp, clConn, clRead, clPending, clReg, clRegOpen, clProc, clSvr, clMembers,
            clRoomsOf, clLeaked, clQueue, clWorker, clBcast, clSend, clMsg, clGot, clJoined,
            clMissing>>
clNet == <<clConn, clRead>>
clRegVars == <<clPending, clReg, clRegOpen>>
clState == <<clSvr, clMembers, clRoomsOf, clQueue, clJoined>>
clOut == <<clWorker, clBcast, clSend, clMsg, clGot, clLeaked, clMissing>>

ClProcs == ClClients \cup {"loop"}
ClNoRoom == "no room"
ClIdle == [op |-> "none", c |-> "loop", r |-> ClNoRoom, at |-> 0, todo |-> {}]
ClOp(op, c, r) == [op |-> op, c |-> c, r |-> r, at |-> 0, todo |-> {}]
ClRunning == clUp \in {"up", "cancelled"}

ClInit(up) ==
  /\ clUp \in up
  /\ clConn = [c \in ClClients |-> "new"] /\ clRead = [c \in ClClients |-> "none"]
  /\ clPending = {} /\ clReg = <<>> /\ clRegOpen = TRUE
  /\ clProc = [p \in ClProcs |-> ClIdle]
  /\ clSvr = [clients |-> {}, rooms |-> {}]
  /\ clMembers = [r \in ClRooms |-> {}] /\ clRoomsOf = [c \in ClClients |-> {}]
  /\ clLeaked = FALSE /\ clQueue = {}
  /\ clWorker = [w \in ClWorkers |-> [clients |-> {}, q |-> <<>>, m |-> 0, todo |-> {}]]
  /\ clBcast = {} /\ clSend = {} /\ clMsg = <<>>
  /\ clGot = [c \in ClClients |-> [m \in 1..ClMaxMsgs |-> 0]]
  /\ clJoined = [c \in ClClients |-> {}] /\ clMissing = FALSE

ClPanic ==
  clUp' = "panicked" /\ UNCHANGED <<clNet, clRegVars, clProc, clState, clOut>>
-----------------------------------------------------------------------------
(* Connections.                                                            *)

\* handleWS and processCMD: only a URL that names no room registers the client.
ClHandleWS(c) ==
  /\ ClRunning /\ clConn[c] = "new"
  /\ clConn' = [clConn EXCEPT ![c] = "open"] /\ clRead' = [clRead EXCEPT ![c] = "run"]
  /\ \E x \in {ClOp("register", c, ClNoRoom)} \cup
              {ClOp(op, c, r) : op \in {"join", "leave"}, r \in ClRooms} :
       clPending' = clPending \cup {x}
  /\ UNCHANGED <<clUp, clReg, clRegOpen, clProc, clState, clOut>>

ClMayLose == Cardinality({c \in ClClients : clConn[c] = "closed"}) < ClMaxLost

\* The peer is gone, or readCH was full and wsAcceptLoop closed the connection.
ClConnClosed(c) ==
  /\ ClRunning /\ clConn[c] = "open" /\ ClMayLose /\ clConn' = [clConn EXCEPT ![c] = "closed"]
  /\ UNCHANGED <<clUp, clRead, clRegVars, clProc, clState, clOut>>

ClAtSelect(c) == ClRunning /\ clRead[c] = "run" /\ clProc[c] = ClIdle

\* A send on the closed registerCH panics.
ClSubmit(x) ==
  /\ ClRunning /\ x \in clPending
  /\ \/ ~clRegOpen /\ ClPanic
     \/ /\ clRegOpen /\ Len(clReg) < ClRegSize
        /\ clReg' = Append(clReg, x) /\ clPending' = clPending \ {x}
        /\ UNCHANGED <<clUp, clNet, clRegOpen, clProc, clState, clOut>>

\* msgChan is closed: the read loop asks for its removal and returns.
ClReadClosed(c) ==
  /\ ClAtSelect(c) /\ clConn[c] = "closed"
  /\ \/ ~clRegOpen /\ ClPanic
     \/ /\ clRegOpen /\ Len(clReg) < ClRegSize
        /\ clReg' = Append(clReg, ClOp("unregister", c, ClNoRoom))
        /\ clRead' = [clRead EXCEPT ![c] = "done"]
        /\ UNCHANGED <<clUp, clConn, clPending, clRegOpen, clProc, clState, clOut>>

\* Too many ticks without a ping: the connection is closed and the loop returns
\* without asking for the removal of the client.
ClPingTimeout(c) ==
  /\ ClAtSelect(c) /\ ClMayLose
  /\ clConn' = [clConn EXCEPT ![c] = "closed"] /\ clRead' = [clRead EXCEPT ![c] = "done"]
  /\ UNCHANGED <<clUp, clRegVars, clProc, clState, clOut>>

ClReadCancelled(c) ==
  /\ ClAtSelect(c) /\ clUp = "cancelled"
  /\ clConn' = [clConn EXCEPT ![c] = "closed"] /\ clRead' = [clRead EXCEPT ![c] = "done"]
  /\ UNCHANGED <<clUp, clRegVars, clProc, clState, clOut>>

\* Unregister is requested only for the errors IsCloseError names.
ClWriteError(c) ==
  \/ clPending' = clPending \cup {ClOp("unregister", c, ClNoRoom)}
  \/ UNCHANGED clPending

ClMessage(c) == ClAtSelect(c) /\ Len(clMsg) < ClMaxMsgs

\* The pong is written by the read loop itself, without a deadline: a peer that
\* does not read may hold it in WriteJSON for ever.
ClPing(c) ==
  /\ ClMessage(c)
  /\ clMsg' = Append(clMsg, [kind |-> "command", from |-> c, room |-> ClNoRoom])
  /\ clRead' = [clRead EXCEPT ![c] = "pong"]
  /\ UNCHANGED <<clUp, clConn, clRegVars, clProc, clState, clWorker, clBcast, clSend,
                 clGot, clLeaked, clMissing>>

ClPongWritten(c) ==
  /\ ClRunning /\ clRead[c] = "pong"
  /\ clRead' = [clRead EXCEPT ![c] = "run"]
  /\ IF clConn[c] = "open" THEN UNCHANGED clPending ELSE ClWriteError(c)
  /\ UNCHANGED <<clUp, clConn, clReg, clRegOpen, clProc, clState, clOut>>

ClJoinOrLeave(c) ==
  /\ ClMessage(c)
  /\ clMsg' = Append(clMsg, [kind |-> "command", from |-> c, room |-> ClNoRoom])
  /\ \E op \in {"join", "leave"}, r \in ClRooms :
       clProc' = [clProc EXCEPT ![c] = ClOp(op, c, r)]
  /\ UNCHANGED <<clUp, clNet, clRegVars, clState, clWorker, clBcast, clSend, clGot, clLeaked,
                 clMissing>>

ClBroadcast(c) ==
  /\ ClMessage(c)
  /\ clMsg' = Append(clMsg, [kind |-> "broadcast", from |-> c, room |-> ClNoRoom])
  /\ clBcast' = clBcast \cup {[m |-> Len(clMsg) + 1, todo |-> ClWorkers]}
  /\ UNCHANGED <<clUp, clNet, clRegVars, clProc, clState, clWorker, clSend, clGot, clLeaked,
                 clMissing>>

ClRoomMessage(c) ==
  /\ ClMessage(c)
  /\ \E r \in ClRooms :
       /\ clMsg' = Append(clMsg, [kind |-> "room", from |-> c, room |-> r])
       /\ clSend' = clSend \cup {[m |-> Len(clMsg) + 1, at |-> "find", todo |-> {}]}
  /\ UNCHANGED <<clUp, clNet, clRegVars, clProc, clState, clWorker, clBcast, clGot, clLeaked,
                 clMissing>>
-----------------------------------------------------------------------------
(* Operations on clients and rooms, by RegisterLoop or by a read loop.     *)
ClAccept ==
  /\ ClRunning /\ clRegOpen /\ clProc["loop"] = ClIdle /\ clReg # <<>>
  /\ clProc' = [clProc EXCEPT !["loop"] = Head(clReg)] /\ clReg' = Tail(clReg)
  /\ UNCHANGED <<clUp, clNet, clPending, clRegOpen, clState, clOut>>

ClRegisterLoopExits ==
  /\ clUp = "cancelled" /\ clRegOpen /\ clProc["loop"] = ClIdle /\ clRegOpen' = FALSE
  /\ UNCHANGED <<clUp, clNet, clPending, clReg, clProc, clState, clOut>>

ClAt(p, op, at) == ClRunning /\ clProc[p].op = op /\ clProc[p].at = at
ClGo(p, at) == clProc' = [clProc EXCEPT ![p] = IF at = 0 THEN ClIdle ELSE [@ EXCEPT !.at = at]]
ClKeep == UNCHANGED <<clUp, clNet, clRegVars, clOut>>

ClRegisterBroadcast(p) ==
  /\ ClAt(p, "register", 0) /\ ~clLeaked /\ ClGo(p, 0)
  /\ clSvr' = [clSvr EXCEPT !.clients = @ \cup {clProc[p].c}]
  /\ clQueue' = clQueue \cup {clProc[p].c}
  /\ ClKeep /\ UNCHANGED <<clMembers, clRoomsOf, clJoined>>

ClJoinRoom(p) ==
  LET c == clProc[p].c
      r == clProc[p].r IN
  /\ ClKeep /\ UNCHANGED clQueue
  /\ \/ /\ ClAt(p, "join", 0) /\ ~clLeaked /\ ClGo(p, 1)
        /\ clSvr' = [clSvr EXCEPT !.rooms = @ \cup {r}]
        /\ UNCHANGED <<clMembers, clRoomsOf, clJoined>>
     \/ /\ ClAt(p, "join", 1) /\ ClGo(p, 2)
        /\ clMembers' = [clMembers EXCEPT ![r] = @ \cup {c}]
        /\ clJoined' = [clJoined EXCEPT ![c] = @ \cup {r}]
        /\ UNCHANGED <<clSvr, clRoomsOf>>
     \/ /\ ClAt(p, "join", 2) /\ ClGo(p, 0)
        /\ clRoomsOf' = [clRoomsOf EXCEPT ![c] = @ \cup {r}]
        /\ UNCHANGED <<clSvr, clMembers, clJoined>>

\* The inner client is nil for a client that is not in the room, and room is nil
\* for a room that does not exist: both are dereferenced.
ClLeaveRoomPanics(p) ==
  /\ \/ ClAt(p, "leave", 0) /\ clProc[p].r \notin clSvr.rooms
     \/ ClAt(p, "leave", 1) /\ clProc[p].c \notin clMembers[clProc[p].r]
  /\ ClPanic

ClLeaveRoom(p) ==
  LET c == clProc[p].c
      r == clProc[p].r IN
  /\ ClKeep /\ UNCHANGED <<clSvr, clQueue, clJoined>>
  /\ \/ /\ ClAt(p, "leave", 0) /\ r \in clSvr.rooms /\ ClGo(p, 1)
        /\ UNCHANGED <<clMembers, clRoomsOf>>
     \/ /\ ClAt(p, "leave", 1) /\ c \in clMembers[r] /\ ClGo(p, 2)
        /\ clMembers' = [clMembers EXCEPT ![r] = @ \ {c}]
        /\ UNCHANGED clRoomsOf
     \/ /\ ClAt(p, "leave", 2) /\ ClGo(p, 0)
        /\ clRoomsOf' = [clRoomsOf EXCEPT ![c] = @ \ {r}]
        /\ UNCHANGED clMembers

\* A client that is not in svr.Clients stays in its rooms.
ClUnregister(p) ==
  LET c == clProc[p].c IN
  /\ ClKeep /\ UNCHANGED <<clQueue, clJoined>>
  /\ \/ /\ ClAt(p, "unregister", 0) /\ ~clLeaked
        /\ ClGo(p, IF c \in clSvr.clients THEN 1 ELSE 0)
        /\ clSvr' = [clSvr EXCEPT !.clients = @ \ {c}]
        /\ UNCHANGED <<clMembers, clRoomsOf>>
     \/ /\ ClAt(p, "unregister", 1)
        /\ clProc' = [clProc EXCEPT ![p].at = 2, ![p].todo = clRoomsOf[c]]
        /\ UNCHANGED <<clSvr, clMembers, clRoomsOf>>
     \/ /\ ClAt(p, "unregister", 2)
        /\ \E r \in clProc[p].todo :
             /\ clProc' = [clProc EXCEPT ![p].todo = @ \ {r}]
             /\ clMembers' = [clMembers EXCEPT ![r] = @ \ {c}]
        /\ UNCHANGED <<clSvr, clRoomsOf>>
     \/ /\ ClAt(p, "unregister", 2) /\ clProc[p].todo = {} /\ ClGo(p, 0)
        /\ clRoomsOf' = [clRoomsOf EXCEPT ![c] = {}]
        /\ UNCHANGED <<clSvr, clMembers>>

ClOperate(p) ==
  \/ ClRegisterBroadcast(p) \/ ClJoinRoom(p) \/ ClLeaveRoom(p) \/ ClLeaveRoomPanics(p)
  \/ ClUnregister(p)
-----------------------------------------------------------------------------
(* Delivery.                                                               *)

\* Two goroutines that write one connection at a time make gorilla panic.
ClOtherWriter(c, m) ==
  \/ \E g \in clSend : g.m # m /\ c \in g.todo
  \/ \E w \in ClWorkers : clWorker[w].m # m /\ c \in clWorker[w].todo

ClWritten(c, m) ==
  IF clConn[c] = "open" THEN clGot' = [clGot EXCEPT ![c][m] = @ + 1] ELSE UNCHANGED clGot

\* acceptClientLoop: one of the workers receives a client from clientCH.
ClAcceptClient(w) ==
  /\ ClRunning
  /\ \E c \in clQueue :
       clQueue' = clQueue \ {c} /\ clWorker' = [clWorker EXCEPT ![w].clients = @ \cup {c}]
  /\ UNCHANGED <<clUp, clNet, clRegVars, clProc, clSvr, clMembers, clRoomsOf, clJoined,
                 clBcast, clSend, clMsg, clGot, clLeaked, clMissing>>

ClBroadcastMSG(g) ==
  /\ ClRunning /\ g \in clBcast
  /\ \E w \in g.todo :
       /\ clWorker' = [clWorker EXCEPT ![w].q = Append(@, g.m)]
       /\ clBcast' = (clBcast \ {g}) \cup
                     (IF g.todo = {w} THEN {} ELSE {[g EXCEPT !.todo = @ \ {w}]})
  /\ UNCHANGED <<clUp, clNet, clRegVars, clProc, clState, clSend, clMsg, clGot, clLeaked,
                 clMissing>>

ClHandleBroadcast(w) ==
  /\ ClRunning /\ clWorker[w].todo = {} /\ clWorker[w].q # <<>>
  /\ clWorker' = [clWorker EXCEPT ![w] =
       [@ EXCEPT !.q = Tail(clWorker[w].q), !.todo = clWorker[w].clients,
                 !.m = IF clWorker[w].clients = {} THEN 0 ELSE Head(clWorker[w].q)]]
  /\ UNCHANGED <<clUp, clNet, clRegVars, clProc, clState, clBcast, clSend, clMsg, clGot,
                 clLeaked, clMissing>>

ClWorkerWrites(w) ==
  \E c \in clWorker[w].todo :
    /\ ClRunning
    /\ \/ ClOtherWriter(c, clWorker[w].m) /\ ClPanic
       \/ /\ clWorker' = [clWorker EXCEPT ![w].todo = @ \ {c},
                                          ![w].m = IF clWorker[w].todo = {c} THEN 0 ELSE @]
          /\ ClWritten(c, clWorker[w].m)
          /\ UNCHANGED <<clUp, clNet, clRegVars, clProc, clState, clBcast, clSend, clMsg,
                         clLeaked, clMissing>>

\* A goroutine with nobody left to write to has ended.
ClGoOn(g, todo) ==
  clSend' = (clSend \ {g}) \cup
            (IF todo = {} THEN {} ELSE {[g EXCEPT !.at = "write", !.todo = todo]})

ClSendKeep ==
  UNCHANGED <<clUp, clNet, clReg, clRegOpen, clProc, clState, clWorker, clBcast, clMsg>>

\* A room that does not exist: SendRoomMSG returns with svr.mu read-locked.
ClSendFindsNone(g) ==
  /\ ClRunning /\ g \in clSend /\ g.at = "find" /\ clMsg[g.m].room \notin clSvr.rooms
  /\ clSend' = clSend \ {g} /\ clLeaked' = TRUE /\ clMissing' = TRUE
  /\ ClSendKeep /\ UNCHANGED <<clPending, clGot>>

ClSendFindsRoom(g) ==
  /\ ClRunning /\ g \in clSend /\ g.at = "find" /\ clMsg[g.m].room \in clSvr.rooms
  /\ clSend' = (clSend \ {g}) \cup {[g EXCEPT !.at = "collect"]}
  /\ ClSendKeep /\ UNCHANGED <<clPending, clGot, clLeaked, clMissing>>

ClRecipients(g) == clMembers[clMsg[g.m].room] \ {clMsg[g.m].from}

\* Mutant: whether the sender is in the room is not looked at.
ClCollectUnchecked(g) ==
  /\ ClRunning /\ g \in clSend /\ g.at = "collect"
  /\ ClGoOn(g, ClRecipients(g))
  /\ ClSendKeep /\ UNCHANGED <<clPending, clGot, clLeaked, clMissing>>

\* Mutant: the error return for a stranger keeps a lock as well.
ClCollectLeaks(g) ==
  /\ ClRunning /\ g \in clSend /\ g.at = "collect"
  /\ ClGoOn(g, ClRecipients(g))
  /\ clLeaked' = (clLeaked \/ clMsg[g.m].from \notin clMembers[clMsg[g.m].room])
  /\ ClSendKeep /\ UNCHANGED <<clPending, clGot, clMissing>>

ClCollect(g) ==
  /\ ClRunning /\ g \in clSend /\ g.at = "collect"
  /\ ClGoOn(g, IF clMsg[g.m].from \in clMembers[clMsg[g.m].room]
               THEN ClRecipients(g) ELSE {})
  /\ ClSendKeep /\ UNCHANGED <<clPending, clGot, clLeaked, clMissing>>

ClSendWrites(g) ==
  \E c \in g.todo :
    /\ ClRunning /\ g \in clSend
    /\ \/ ClOtherWriter(c, g.m) /\ ClPanic
       \/ /\ ClGoOn(g, g.todo \ {c})
          /\ ClWritten(c, g.m)
          /\ IF clConn[c] = "open" THEN UNCHANGED clPending ELSE ClWriteError(c)
          /\ ClSendKeep /\ UNCHANGED <<clLeaked, clMissing>>
-----------------------------------------------------------------------------
ClCancel ==
  /\ clUp = "up" /\ clUp' = "cancelled"
  /\ UNCHANGED <<clNet, clRegVars, clProc, clState, clOut>>

\* main returns after RegisterLoop when svr.wg has no read loop left.
ClMainExits ==
  /\ clUp = "cancelled" /\ ~clRegOpen /\ \A c \in ClClients : clRead[c] \notin {"run", "pong"}
  /\ clUp' = "exited" /\ UNCHANGED <<clNet, clRegVars, clProc, clState, clOut>>

ClNext ==
  \/ ClAccept \/ ClRegisterLoopExits \/ ClCancel \/ ClMainExits
  \/ \E c \in ClClients :
       \/ ClHandleWS(c) \/ ClConnClosed(c) \/ ClReadClosed(c) \/ ClPingTimeout(c)
       \/ ClReadCancelled(c) \/ ClPing(c) \/ ClPongWritten(c) \/ ClJoinOrLeave(c)
       \/ ClBroadcast(c) \/ ClRoomMessage(c)
  \/ \E x \in clPending : ClSubmit(x)
  \/ \E p \in ClProcs : ClOperate(p)
  \/ \E w \in ClWorkers : ClAcceptClient(w) \/ ClHandleBroadcast(w) \/ ClWorkerWrites(w)
  \/ \E g \in clBcast : ClBroadcastMSG(g)
  \/ \E g \in clSend :
       ClSendFindsNone(g) \/ ClSendFindsRoom(g) \/ ClCollect(g) \/ ClSendWrites(g)

ClSpec == ClInit({"up"}) /\ [][ClNext]_clVars

\* Goroutines that can run do, and a select serves the cancelled context even
\* when other cases stay ready.
ClFairness ==
  /\ WF_clVars(ClRegisterLoopExits) /\ WF_clVars(ClMainExits)
  /\ \A c \in ClClients : WF_clVars(ClReadCancelled(c))
  /\ \A p \in ClProcs : WF_clVars(ClOperate(p))
-----------------------------------------------------------------------------
\* No message is written to a client twice, a room message comes from a client
\* that joined the room and goes to others that did; whichever worker took a
\* client, and whatever registrations and removals run meanwhile.
\* (BroadcastMSG, acceptClientLoop, SendRoomMSG)
ClDelivery ==
  \A c \in ClClients, m \in DOMAIN clMsg :
    /\ clGot[c][m] <= 1
    /\ clGot[c][m] = 1 /\ clMsg[m].kind = "room" =>
         /\ c # clMsg[m].from
         /\ clMsg[m].room \in clJoined[c] \cap clJoined[clMsg[m].from]

\* After a signal the process ends, by itself or by a panic, unless a message to
\* a room that does not exist has left svr.mu locked, or a read loop is writing a
\* pong to a peer that does not read.  (chatClientLoop, RegisterLoop, readMsgLoop,
\* SendRoomMSG, Ping)
ClShutsDown ==
  clUp = "cancelled" ~>
    \/ clUp \in {"exited", "panicked"} \/ clMissing
    \/ \E c \in ClClients : clRead[c] = "pong"

=============================================================================
