----------------------------- MODULE ChatServer -----------------------------
(***************************************************************************)
(* The WebSocket chat server of chat/with-loop-per-client.                 *)
(*                                                                         *)
(* One accept loop owns the maps of clients and rooms and takes work from  *)
(* seven channels in any order.  Every client has three goroutines: a      *)
(* reader, a writer and a pinger.  Join and leave requests go from the     *)
(* reader to the accept loop; all others go through a Kafka topic with one *)
(* partition and come back as events.  Sending a message is a goroutine of *)
(* its own, which reads the maps while the accept loop may write them.     *)
(*                                                                         *)
(* A message is named by its position in the topic, which is also the      *)
(* offset the consumer gives it.  `crashed` is the end of the process: a   *)
(* nil dereference in any goroutine, or the abort of the Go runtime when   *)
(* it meets a map being read and written at the same time.                 *)
(*                                                                         *)
(* Left out: throttling and back-pressure, which the server does not call; *)
(* messages that do not parse or have another type, which change nothing;  *)
(* the query of the accept loop that only tests make.                      *)
(***************************************************************************)
EXTENDS RingBuffer, FiniteSets, SequencesExt

CONSTANTS Clients, Rooms,
          Senders,   \* the clients that send requests
          Closing,   \* the clients whose connection may break
          Stalling,  \* the clients whose peer may stop reading
          Timed,     \* the clients whose pinger and ticker run
          Kinds,     \* the types of request clients send
          MaxReqs,   \* bound: requests read from all connections
          ChanCap,   \* capacity of the channels of the server (64)
          EventCap,  \* capacity of eventCH (128), plus the message in hand
          MsgCap,    \* capacity of the msgCH of a client (64)
          PongFloor  \* bound: how far below 0 pongs take a pongCounter

ASSUME BoundsAssumption ==
  /\ IsFiniteSet(Clients)
  /\ Senders \subseteq Clients /\ Closing \subseteq Clients /\ Timed \subseteq Clients
  /\ Stalling \subseteq Clients
  /\ Kinds \subseteq {"join", "leave", "broadcast", "room", "replay"}
  /\ {MaxReqs, ChanCap, EventCap, MsgCap, PongFloor} \subseteq Nat

VARIABLES
  cl,        \* cl[c]: the connection of c, where its goroutines are, its queue
  ch,        \* the channels of the server
  topic,     \* the Kafka topic: every message produced
  readPos,   \* how much of it ReadMessageLoop has read
  clients,   \* s.clients
  rooms,     \* s.rooms
  worker,    \* worker[o]: the goroutine sending message o
  nreq,      \* number of requests read
  crashed,
  sent,      \* history: messages put into the queue of c by sendMsg
  joined     \* history: clients whose join of room r was handled

kafkaVars == << topic, readPos >>
mapVars == << clients, rooms, joined >>
vars == << cl, ch, kafkaVars, mapVars, worker, nreq, crashed, sent >>

Ping == 0
Msgs == 1 .. MaxReqs
Requests == [kind : Kinds, room : Rooms]

\* reads: the peer still takes what is written to it.  hand holds the request, if
\* any, that the reader is handing on; msgCH the offsets of messages to write and
\* Ping for pings.
NewClient == [conn |-> "none", reads |-> TRUE, reader |-> "none", hand |-> {}, writer |-> "none",
              pinger |-> "none", pongCounter |-> 0, msgCH |-> << >>]

NewChannels == [joinServerCH |-> << >>, leaveServerCH |-> << >>, roomJoinCH |-> << >>,
                roomLeaveCH |-> << >>, broadcastCH |-> << >>, roomMsgCH |-> << >>,
                replayMsgCH |-> << >>, eventCH |-> << >>]

\* What a map has under the key of a client: no entry, the client, a nil pointer.
Entry == {"abs", "live", "nil"}
Keys(m) == {c \in Clients : m[c] # "abs"}

NewRoom == [exists |-> TRUE, clients |-> [c \in Clients |-> "abs"],
            clientsCount |-> 0, msgBuffer |-> NewRingBuffer]
NoRoom == [NewRoom EXCEPT !.exists = FALSE]

\* The goroutine of message o goes through the map of its receivers one entry at
\* a time: `seen` are those visited, `nils` those found nil, `must` those that
\* were in the map when it started.  Then it sends the messages `out`, each to
\* the receivers `todo` that are left, in any order.
Idle == [ph |-> "idle", as |-> "none", must |-> {}, seen |-> {}, nils |-> {},
         out |-> << >>, todo |-> << >>]
Ended(w) == [Idle EXCEPT !.ph = "done", !.as = w.as]

TypeOK ==
  /\ \A c \in Clients :
       /\ cl[c].conn \in {"none", "open", "closed"}
       /\ cl[c].reader \in {"none", "read", "leave", "gone"}
       /\ cl[c].hand \in {{}} \cup {{q} : q \in Requests}
       /\ cl[c].writer \in {"none", "run", "write", "done"} /\ cl[c].reads \in BOOLEAN
       /\ cl[c].pinger \in {"none", "check", "sleep", "done"}
       /\ cl[c].pongCounter \in (- PongFloor) .. 3
       /\ Len(cl[c].msgCH) <= MsgCap /\ ToSet(cl[c].msgCH) \subseteq 0 .. Len(topic)
       /\ ToSet(sent[c]) \subseteq 1 .. Len(topic)
  /\ \A i \in 1 .. Len(topic) : topic[i].kind \in {"broadcast", "room", "replay"}
  /\ readPos \in 0 .. Len(topic) /\ nreq \in 0 .. MaxReqs
  /\ \A f \in DOMAIN NewChannels \ {"eventCH"} : Len(ch[f]) <= ChanCap
  /\ Len(ch.eventCH) <= EventCap
  /\ clients \in [Clients -> Entry]
  /\ \A r \in Rooms : /\ rooms[r].clients \in [Clients -> Entry]
                      /\ rooms[r].clientsCount \in Int
                      /\ rooms[r].msgBuffer \in Buffers
  /\ \A o \in Msgs : /\ worker[o].ph \in {"idle", "spawn", "collect", "send", "done"}
                     /\ worker[o].as \in {"none", "broadcast", "room", "replay"}
                     /\ worker[o].nils \cup ToSet(worker[o].todo) \subseteq worker[o].seen
  /\ crashed \in BOOLEAN

Init ==
  /\ cl = [c \in Clients |-> NewClient]
  /\ ch = NewChannels
  /\ topic = << >> /\ readPos = 0
  /\ clients = [c \in Clients |-> "abs"]
  /\ rooms = [r \in Rooms |-> NoRoom]
  /\ worker = [o \in Msgs |-> Idle]
  /\ nreq = 0 /\ crashed = FALSE
  /\ sent = [c \in Clients |-> << >>]
  /\ joined = [r \in Rooms |-> {}]

\* Send x to channel f of the server, which must have room; receive from it.
Put(f, x) == Len(ch[f]) < ChanCap /\ ch' = [ch EXCEPT ![f] = Append(@, x)]
Take(f) == ch[f] # << >> /\ ch' = [ch EXCEPT ![f] = Tail(@)]

Done(c) == cl[c].reader \in {"leave", "gone"}    \* c.done is closed

-----------------------------------------------------------------------------
(***************************************************************************)
(* A client: handleWS, readMsgLoop, writeMsgLoop, initPing.                *)
(***************************************************************************)
serverVars == << kafkaVars, mapVars, worker, crashed, sent >>

\* handleWS: the upgraded connection joins the server, then its goroutines start.
HandleWS(c) ==
  /\ cl[c].conn = "none"
  /\ Put("joinServerCH", c)
  /\ cl' = [cl EXCEPT ![c].conn = "open", ![c].reader = "read", ![c].writer = "run",
                      ![c].pinger = "check"]
  /\ UNCHANGED << serverVars, nreq >>

\* The peer closes the connection, or it breaks.
ConnCloses(c) ==
  /\ c \in Closing /\ cl[c].conn = "open"
  /\ cl' = [cl EXCEPT ![c].conn = "closed"]
  /\ UNCHANGED << serverVars, ch, nreq >>

\* The peer stays connected and reads no more.
StopsReading(c) ==
  /\ c \in Stalling /\ cl[c].conn = "open" /\ cl[c].reads
  /\ cl' = [cl EXCEPT ![c].reads = FALSE]
  /\ UNCHANGED << serverVars, ch, nreq >>

Reading(c) == cl[c].reader = "read" /\ cl[c].hand = {}

ReadRequest(c, q) ==
  /\ c \in Senders /\ nreq < MaxReqs
  /\ Reading(c) /\ cl[c].conn = "open"
  /\ cl' = [cl EXCEPT ![c].hand = {q}]
  /\ nreq' = nreq + 1
  /\ UNCHANGED << serverVars, ch >>

\* A message of one byte is a pong.
ReadPong(c) ==
  /\ c \in Timed /\ cl[c].pongCounter > - PongFloor
  /\ Reading(c) /\ cl[c].conn = "open"
  /\ cl' = [cl EXCEPT ![c].pongCounter = @ - 1]
  /\ UNCHANGED << serverVars, ch, nreq >>

\* produceReqMsg waits for room in the channel of join or leave requests ...
PostRoomRequest(c, q) ==
  /\ cl[c].hand = {q}
  /\ \/ q.kind = "join" /\ Put("roomJoinCH", [client |-> c, room |-> q.room])
     \/ q.kind = "leave" /\ Put("roomLeaveCH", [client |-> c, room |-> q.room])
  /\ cl' = [cl EXCEPT ![c].hand = {}]
  /\ UNCHANGED << serverVars, nreq >>

\* ... or produces the message; a failed delivery is only logged.
ProduceData(c, q) ==
  /\ cl[c].hand = {q} /\ q.kind \notin {"join", "leave"}
  /\ \/ topic' = Append(topic, [kind |-> q.kind, client |-> c, room |-> q.room])
     \/ UNCHANGED topic
  /\ cl' = [cl EXCEPT ![c].hand = {}]
  /\ UNCHANGED << ch, readPos, mapVars, worker, nreq, crashed, sent >>

\* Mutant: a failed read is tried again.
ReadErrContinues(c) ==
  Reading(c) /\ cl[c].conn = "closed" /\ UNCHANGED vars

\* The read fails: the deferred function closes c.done ...
ReadErr(c) ==
  /\ Reading(c) /\ cl[c].conn = "closed"
  /\ cl' = [cl EXCEPT ![c].reader = "leave"]
  /\ UNCHANGED << serverVars, ch, nreq >>

\* ... and announces the departure.
SendLeave(c) ==
  /\ cl[c].reader = "leave"
  /\ Put("leaveServerCH", c)
  /\ cl' = [cl EXCEPT ![c].reader = "gone"]
  /\ UNCHANGED << serverVars, nreq >>

\* The check at the top of the loop; otherwise the writer goes to its select.
TooManyPings(c) == cl[c].pongCounter > 2
Writing(c) == cl[c].writer = "run" /\ ~ TooManyPings(c)

\* Mutant: the connection is left open.
WriterExitsOnly(c) == [cl[c] EXCEPT !.writer = "done"]

\* writeMsgLoop returns, and its deferred call closes the connection.
WriterExits(c) == [cl[c] EXCEPT !.writer = "done", !.conn = "closed"]

PongExceeded(c) ==
  /\ cl[c].writer = "run" /\ TooManyPings(c)
  /\ cl' = [cl EXCEPT ![c] = WriterExits(c)]
  /\ UNCHANGED << serverVars, ch, nreq >>

WriterTick(c) ==
  /\ c \in Timed /\ Writing(c)
  /\ cl' = [cl EXCEPT ![c].pongCounter = @ + 1]
  /\ UNCHANGED << serverVars, ch, nreq >>

WriterDone(c) ==
  /\ Writing(c) /\ Done(c)
  /\ cl' = [cl EXCEPT ![c] = WriterExits(c)]
  /\ UNCHANGED << serverVars, ch, nreq >>

\* WriteJSON returns, with an error perhaps if the connection is closed.
WriteMsg(c) ==
  /\ Writing(c) /\ cl[c].msgCH # << >>
  /\ LET popped == [cl EXCEPT ![c].msgCH = Tail(@)]
     IN \/ cl' = popped
        \/ /\ cl[c].conn = "closed"
           /\ cl' = [popped EXCEPT ![c].writer = "done"]
  /\ UNCHANGED << serverVars, ch, nreq >>

\* WriteJSON has no deadline: it may wait for a peer that does not read ...
WriteBlocks(c) ==
  /\ Writing(c) /\ cl[c].msgCH # << >> /\ cl[c].conn = "open" /\ ~ cl[c].reads
  /\ cl' = [cl EXCEPT ![c].msgCH = Tail(@), ![c].writer = "write"]
  /\ UNCHANGED << serverVars, ch, nreq >>

\* ... until the connection breaks.
WriteFails(c) ==
  /\ cl[c].writer = "write" /\ cl[c].conn = "closed"
  /\ cl' = [cl EXCEPT ![c] = WriterExits(c)]
  /\ UNCHANGED << serverVars, ch, nreq >>

\* initPing: the check of c.done that precedes the sleep.
PingCheck(c) ==
  /\ c \in Timed /\ cl[c].pinger = "check"
  /\ cl' = [cl EXCEPT ![c].pinger = IF Done(c) THEN "done" ELSE "sleep"]
  /\ UNCHANGED << serverVars, ch, nreq >>

\* initPing: the ping after the sleep waits for room in the queue.
SendPing(c) ==
  /\ c \in Timed /\ cl[c].pinger = "sleep" /\ Len(cl[c].msgCH) < MsgCap
  /\ cl' = [cl EXCEPT ![c].msgCH = Append(@, Ping), ![c].pinger = "check"]
  /\ UNCHANGED << serverVars, ch, nreq >>

-----------------------------------------------------------------------------
(***************************************************************************)
(* Events: ReadMessageLoop and consumerReqMsgLoop.                         *)
(***************************************************************************)
ReadMessage ==
  /\ readPos < Len(topic) /\ Len(ch.eventCH) < EventCap
  /\ readPos' = readPos + 1
  /\ ch' = [ch EXCEPT !.eventCH = Append(@, readPos + 1)]
  /\ UNCHANGED << cl, topic, mapVars, worker, nreq, crashed, sent >>

ChannelOf(kind) == CASE kind = "broadcast" -> "broadcastCH"
                     [] kind = "room"      -> "roomMsgCH"
                     [] kind = "replay"    -> "replayMsgCH"

\* consumerReqMsgLoop waits until the channel of the message has room; no later
\* event passes the one it is holding.
Route ==
  /\ ch.eventCH # << >>
  /\ LET o == Head(ch.eventCH)
         f == ChannelOf(topic[o].kind)
     IN /\ Len(ch[f]) < ChanCap
        /\ ch' = [ch EXCEPT !.eventCH = Tail(@), ![f] = Append(@, o)]
  /\ UNCHANGED << cl, kafkaVars, mapVars, worker, nreq, crashed, sent >>

-----------------------------------------------------------------------------
(***************************************************************************)
(* AcceptLoop: a select over all channels; any that is ready may be taken. *)
(***************************************************************************)
loopVars == << cl, kafkaVars, worker, nreq, crashed, sent >>

JoinServer ==
  /\ Take("joinServerCH")
  /\ clients' = [clients EXCEPT ![Head(ch.joinServerCH)] = "live"]
  /\ UNCHANGED << loopVars, rooms, joined >>

\* clientsCount stays as it is.
LeaveServer ==
  /\ Take("leaveServerCH")
  /\ LET c == Head(ch.leaveServerCH)
     IN /\ clients' = [clients EXCEPT ![c] = "abs"]
        /\ rooms' = [r \in Rooms |-> [rooms[r] EXCEPT !.clients[c] = "abs"]]
  /\ UNCHANGED << loopVars, joined >>

\* A client that is not in s.clients is a nil pointer, and is stored as one in
\* both maps.
JoinRoom ==
  /\ Take("roomJoinCH")
  /\ LET c == Head(ch.roomJoinCH).client
         r == Head(ch.roomJoinCH).room
         p == IF clients[c] = "live" THEN "live" ELSE "nil"
         room == IF rooms[r].exists THEN rooms[r] ELSE NewRoom
     IN /\ clients' = [clients EXCEPT ![c] = p]
        /\ rooms' = [rooms EXCEPT ![r] =
                       [room EXCEPT !.clients[c] = p, !.clientsCount = @ + 1]]
        /\ joined' = [joined EXCEPT ![r] = @ \cup {c}]
  /\ UNCHANGED loopVars

LeaveRoom ==
  /\ Take("roomLeaveCH")
  /\ LET c == Head(ch.roomLeaveCH).client
         r == Head(ch.roomLeaveCH).room
     IN rooms' = IF rooms[r].exists
                 THEN [rooms EXCEPT ![r].clients[c] = "abs", ![r].clientsCount = @ - 1]
                 ELSE rooms
  /\ UNCHANGED << loopVars, clients, joined >>

Spawn(o, as) ==
  /\ worker' = [worker EXCEPT ![o].ph = "spawn", ![o].as = as]
  /\ UNCHANGED << cl, kafkaVars, mapVars, nreq, crashed, sent >>

AcceptBroadcast == Take("broadcastCH") /\ Spawn(Head(ch.broadcastCH), "broadcast")

\* Two cases of the select receive from roomMsgCH, the second one for replays;
\* none receives from replayMsgCH.
AcceptRoomMsg ==
  /\ Take("roomMsgCH")
  /\ Spawn(Head(ch.roomMsgCH), "room") \/ Spawn(Head(ch.roomMsgCH), "replay")

-----------------------------------------------------------------------------
(***************************************************************************)
(* sendBroadcastMsg, sendRoomMsg, sendRoomMsgReplay and sendMsg.           *)
(***************************************************************************)
RoomOf(o) == rooms[topic[o].room]

\* Mutant: the receivers of a room message are all clients.
ReceiversAll(o) == clients

\* The map of possible receivers ...
Receivers(o) == IF worker[o].as = "broadcast" THEN clients ELSE RoomOf(o).clients

\* Mutant: the sender is not left out.
TargetsWithSender(o) == worker[o].seen

\* ... and those of them the message is sent to.
Targets(o) ==
  IF worker[o].as = "replay" THEN worker[o].seen ELSE worker[o].seen \ {topic[o].client}

Panic ==
  /\ crashed' = TRUE
  /\ UNCHANGED << cl, ch, kafkaVars, mapVars, worker, nreq, sent >>

workerKeeps == << ch, kafkaVars, nreq, crashed >>

\* The goroutine looks up the room and, for a replay, reads the buffer; then it
\* starts to go through the map.
BeginSend(o) ==
  /\ worker[o].ph = "spawn"
  /\ LET Begin(out) == [worker EXCEPT ![o].ph = "collect", ![o].out = out,
                                      ![o].must = Keys(Receivers(o))]
     IN \/ /\ worker[o].as # "broadcast" /\ ~ RoomOf(o).exists
           /\ worker' = [worker EXCEPT ![o] = Ended(@)]
        \/ /\ worker[o].as = "broadcast" \/ (worker[o].as = "room" /\ RoomOf(o).exists)
           /\ worker' = Begin(<< o >>)
        \/ /\ worker[o].as = "replay" /\ RoomOf(o).exists
           /\ ~ GetFromOffsetPanics(RoomOf(o).msgBuffer)
           /\ worker' = Begin(GetFromOffset(RoomOf(o).msgBuffer, o))
  /\ UNCHANGED << workerKeeps, cl, mapVars, sent >>

ReplayPanic(o) ==
  /\ worker[o].ph = "spawn" /\ worker[o].as = "replay" /\ RoomOf(o).exists
  /\ GetFromOffsetPanics(RoomOf(o).msgBuffer)
  /\ Panic

Visit(o, c) ==
  /\ worker[o].ph = "collect"
  /\ c \in Keys(Receivers(o)) \ worker[o].seen
  /\ worker' = [worker EXCEPT ![o].seen = @ \cup {c},
                              ![o].nils = IF Receivers(o)[c] = "nil" THEN @ \cup {c} ELSE @]
  /\ UNCHANGED << workerKeeps, cl, mapVars, sent >>

\* The iteration may end when every entry that has been in the map since it
\* began was visited.
IterationMayEnd(o) ==
  /\ worker[o].ph = "collect"
  /\ worker[o].must \cap Keys(Receivers(o)) \subseteq worker[o].seen

\* Mutant: a replayed message is pushed too.
EndCollectPushesAll(o) ==
  /\ IterationMayEnd(o)
  /\ worker' = [worker EXCEPT ![o] = Ended(@)]
  /\ rooms' = [rooms EXCEPT ![topic[o].room].msgBuffer = Push(@, o)]
  /\ UNCHANGED << workerKeeps, cl, clients, joined, sent >>

\* A room message is pushed to the buffer of the room before it is sent.
EndCollect(o) ==
  /\ IterationMayEnd(o)
  /\ worker' \in
       IF Targets(o) = {} \/ worker[o].out = << >>
       THEN {[worker EXCEPT ![o] = Ended(@)]}
       ELSE {[worker EXCEPT ![o].ph = "send", ![o].must = {}, ![o].todo = order] :
               order \in SetToSeqs(Targets(o))}
  /\ rooms' = IF worker[o].as = "room"
              THEN [rooms EXCEPT ![topic[o].room].msgBuffer = Push(@, o)]
              ELSE rooms
  /\ UNCHANGED << workerKeeps, cl, clients, joined, sent >>

CanReceive(c) == Len(cl[c].msgCH) < MsgCap

\* Mutant: a receiver whose queue is full is passed over.
SendOrDrop(o) ==
  /\ worker[o].ph = "send"
  /\ LET c == Head(worker[o].todo)
         m == Head(worker[o].out)
     IN IF CanReceive(c)
        THEN /\ cl' = [cl EXCEPT ![c].msgCH = Append(@, m)]
             /\ sent' = [sent EXCEPT ![c] = Append(@, m)]
        ELSE UNCHANGED << cl, sent >>
  /\ worker' = [worker EXCEPT ![o] = IF Len(@.todo) > 1 THEN [@ EXCEPT !.todo = Tail(@)]
                                     ELSE Ended(@)]
  /\ UNCHANGED << workerKeeps, mapVars >>

\* sendMsg: wait for room in the queue of the next receiver.
Send(o) ==
  /\ worker[o].ph = "send"
  /\ LET c == Head(worker[o].todo)
         m == Head(worker[o].out)
     IN /\ c \notin worker[o].nils /\ CanReceive(c)
        /\ cl' = [cl EXCEPT ![c].msgCH = Append(@, m)]
        /\ sent' = [sent EXCEPT ![c] = Append(@, m)]
  /\ worker' \in
       IF Len(worker[o].todo) > 1 THEN {[worker EXCEPT ![o].todo = Tail(@)]}
       ELSE IF Len(worker[o].out) = 1 THEN {[worker EXCEPT ![o] = Ended(@)]}
       ELSE {[worker EXCEPT ![o].out = Tail(@), ![o].todo = order] :
               order \in SetToSeqs(Targets(o))}
  /\ UNCHANGED << workerKeeps, mapVars >>

SendPanic(o) ==
  /\ worker[o].ph = "send" /\ Head(worker[o].todo) \in worker[o].nils
  /\ Panic

\* The accept loop writes a map while a goroutine goes through it, or looks a
\* room up: the Go runtime may notice and end the process.
ReadingClients == \E o \in Msgs : worker[o].ph = "collect" /\ worker[o].as = "broadcast"
ReadingRooms == \E o \in Msgs : worker[o].ph = "spawn" /\ worker[o].as # "broadcast"
ReadingRoom(r) ==
  \E o \in Msgs : /\ worker[o].ph = "collect" /\ worker[o].as # "broadcast"
                  /\ topic[o].room = r

MapRace ==
  /\ \/ ch.joinServerCH # << >> /\ ReadingClients
     \/ /\ ch.leaveServerCH # << >>
        /\ \/ ReadingClients
           \/ \E r \in Rooms : /\ Head(ch.leaveServerCH) \in Keys(rooms[r].clients)
                               /\ ReadingRoom(r)
     \/ /\ ch.roomJoinCH # << >>
        /\ LET r == Head(ch.roomJoinCH).room
           IN ReadingClients \/ ReadingRoom(r) \/ (~ rooms[r].exists /\ ReadingRooms)
     \/ ch.roomLeaveCH # << >> /\ ReadingRoom(Head(ch.roomLeaveCH).room)
  /\ Panic

-----------------------------------------------------------------------------
ReaderNext(c) ==
  \/ ReadErr(c) \/ SendLeave(c)
  \/ \E q \in Requests : PostRoomRequest(c, q) \/ ProduceData(c, q)

ClientNext(c) ==
  \/ HandleWS(c) \/ ConnCloses(c) \/ StopsReading(c) \/ ReadPong(c) \/ ReaderNext(c)
  \/ \E q \in Requests : ReadRequest(c, q)
  \/ PongExceeded(c) \/ WriterTick(c) \/ WriterDone(c)
  \/ WriteMsg(c) \/ WriteBlocks(c) \/ WriteFails(c)
  \/ PingCheck(c) \/ SendPing(c)

AcceptNext ==
  \/ JoinServer \/ LeaveServer \/ JoinRoom \/ LeaveRoom
  \/ AcceptBroadcast \/ AcceptRoomMsg

WorkerNext(o) ==
  \/ BeginSend(o) \/ ReplayPanic(o) \/ EndCollect(o) \/ Send(o) \/ SendPanic(o)
  \/ \E c \in Clients : Visit(o, c)

Next ==
  /\ ~ crashed
  /\ \/ \E c \in Clients : ClientNext(c)
     \/ ReadMessage \/ Route \/ AcceptNext \/ MapRace
     \/ \E o \in Msgs : WorkerNext(o)

Spec == Init /\ [][Next]_vars

(***************************************************************************)
(* Fairness.  A goroutine that can run does run; Go's select takes a ready *)
(* case at random, so none is passed over for ever; tickers keep ticking;  *)
(* a write returns when the peer reads or the connection is closed.        *)
(* Goroutines that wait to send on a channel are served in the order in    *)
(* which they came, so one of them gets its turn although pings fill the   *)
(* queue again and again: strong fairness of Send, and of WriteMsg, a case *)
(* of a select that ticks keep entering.  Clients need not connect, send,  *)
(* read or disconnect.                                                     *)
(***************************************************************************)
Up(A) == ~ crashed /\ A

ClientFairness(c) ==
  /\ WF_vars(Up(ReaderNext(c)))
  /\ WF_vars(Up(PongExceeded(c) \/ WriterDone(c) \/ WriteFails(c)))
  /\ SF_vars(Up(WriteMsg(c) \/ WriteBlocks(c)))
  /\ c \in Timed => WF_vars(Up(WriterTick(c))) /\ WF_vars(Up(PingCheck(c) \/ SendPing(c)))

AcceptFairness ==
  /\ WF_vars(Up(JoinServer)) /\ WF_vars(Up(LeaveServer))
  /\ WF_vars(Up(JoinRoom)) /\ WF_vars(Up(LeaveRoom))
  /\ WF_vars(Up(AcceptBroadcast)) /\ WF_vars(Up(AcceptRoomMsg))

Fairness ==
  /\ WF_vars(Up(ReadMessage)) /\ WF_vars(Up(Route)) /\ AcceptFairness
  /\ \A c \in Clients : ClientFairness(c)
  /\ \A o \in Msgs : WF_vars(Up(WorkerNext(o))) /\ SF_vars(Up(Send(o)))

FairSpec == Spec /\ Fairness

-----------------------------------------------------------------------------
\* Messages of a room, sent or replayed, only ever go to clients that joined the
\* room, although the goroutines collect the receivers while they change.
RoomMsgsStayInRoom ==
  \A c \in Clients : \A i \in 1 .. Len(sent[c]) :
    LET m == topic[sent[c][i]]
    IN m.kind = "room" => c \in joined[m.room]

\* A broadcast is queued at most once for a client and never for its sender.
BroadcastOnce ==
  \A c \in Clients : \A i \in 1 .. Len(sent[c]) :
    topic[sent[c][i]].kind = "broadcast" =>
      /\ topic[sent[c][i]].client # c
      /\ \A j \in 1 .. Len(sent[c]) : sent[c][j] = sent[c][i] => i = j

\* What a replay could send: the buffer of a room holds messages of that room
\* only, none of them twice, and none that was not handled as a room message.
BufferIsOfRoom ==
  \A r \in Rooms :
    LET h == GetAll(rooms[r].msgBuffer)
    IN \A i, j \in 1 .. Len(h) :
         /\ topic[h[i]].room = r /\ topic[h[i]].kind = "room"
         /\ worker[h[i]].as = "room"
         /\ h[i] = h[j] => i = j

\* The writer of d is in WriteJSON and its peer does not read.
Blocked(d) == cl[d].writer = "write" /\ cl[d].conn = "open"

\* A sendMsg goroutine waits for ever on the queue of a client whose writer has
\* ended or is blocked, and consumerReqMsgLoop on the channel of replays, which
\* nobody receives.
Stuck == \/ \E d \in Clients : /\ cl[d].writer = "done" \/ Blocked(d)
                              /\ Len(cl[d].msgCH) = MsgCap
         \/ Len(ch.replayMsgCH) = ChanCap

Waits(o, c, kind) ==
  /\ o \in 1 .. Len(topic) /\ topic[o].kind = kind /\ topic[o].client # c
  /\ worker[o].ph = "idle"

IsMember(o, c) == o \in 1 .. Len(topic) /\ RoomOf(o).clients[c] = "live"

Received(o, c) == o \in ToSet(sent[c])

\* A broadcast in the topic reaches every other client that is registered and
\* stays connected, unless the process dies or a queue that nobody drains is full:
\* that of replays, that of a client whose writer has ended, or that of a client
\* that is connected and does not read.
BroadcastReaches ==
  \A o \in Msgs, c \in Clients :
    (Waits(o, c, "broadcast") /\ clients[c] = "live")
      ~> (Received(o, c) \/ cl[c].conn = "closed" \/ crashed \/ Stuck)

\* A message to a room reaches every other client that is in the room, stays in it
\* and stays connected, unless the process dies or a queue is stuck.
RoomMsgReaches ==
  \A o \in Msgs, c \in Clients :
    (Waits(o, c, "room") /\ IsMember(o, c))
      ~> (Received(o, c) \/ cl[c].conn = "closed" \/ crashed \/ Stuck \/ ~ IsMember(o, c))

\* After a connection is closed its three goroutines end and the accept loop
\* handles the departure; only a pinger may stay, waiting for room in a full queue.
DepartureCompletes ==
  \A c \in Timed :
    cl[c].conn = "closed" ~>
      \/ crashed
      \/ /\ cl[c].reader = "gone" /\ cl[c].writer = "done"
         /\ c \notin ToSet(ch.leaveServerCH)
         /\ cl[c].pinger = "done" \/ Len(cl[c].msgCH) = MsgCap

\* A client that stops answering pings is disconnected, unless its writer is
\* blocked by a peer that does not read either, and so never looks at the counter.
SilentIsDropped ==
  \A c \in Timed :
    <>[][~ ReadPong(c)]_vars =>
      (cl[c].conn = "open" ~> (cl[c].conn = "closed" \/ Blocked(c) \/ crashed))
=============================================================================
