------------------------- MODULE ChatServer_proofs --------------------------
(***************************************************************************)
(* Proofs about the chat server, for any clients, rooms, channel sizes and *)
(* number of requests: who gets the messages of a room and the broadcasts, *)
(* and what the buffer of a room holds.                                    *)
(***************************************************************************)
EXTENDS ChatServer, SequenceTheorems, FiniteSetTheorems, TLAPS

(***************************************************************************)
(* The inductive invariant, one part per idea                              *)
(***************************************************************************)
Responses == [kind : {"broadcast", "room", "replay"}, client : Clients, room : Rooms]
RoomRequests == [client : Clients, room : Rooms]
RoomStates == [exists : BOOLEAN, clients : [Clients -> Entry], clientsCount : Int,
               msgBuffer : Buffers]
Goroutines == [ph : {"idle", "spawn", "collect", "send", "done"},
               as : {"none", "broadcast", "room", "replay"},
               must : SUBSET Clients, seen : SUBSET Clients, nils : SUBSET Clients,
               out : Seq(Nat), todo : Seq(Clients)]
Channels == [joinServerCH : Seq(Clients), leaveServerCH : Seq(Clients),
             roomJoinCH : Seq(RoomRequests), roomLeaveCH : Seq(RoomRequests),
             broadcastCH : Seq(Nat), roomMsgCH : Seq(Nat), replayMsgCH : Seq(Nat),
             eventCH : Seq(Nat)]

DataOK ==
  /\ topic \in Seq(Responses) /\ readPos \in 0 .. Len(topic)
  /\ ch \in Channels
  /\ clients \in [Clients -> Entry] /\ rooms \in [Rooms -> RoomStates]
  /\ joined \in [Rooms -> SUBSET Clients]
  /\ worker \in [Msgs -> Goroutines]
  /\ sent \in [Clients -> Seq(Nat)]

\* Whoever has an entry in the map of a room has joined it.
MembersJoined == \A r \in Rooms, c \in Clients : rooms[r].clients[c] # "abs" => c \in joined[r]

\* Messages 1 .. Routed have left eventCH, which holds the ones after them.
Routed == readPos - Len(ch.eventCH)
EventsOK ==
  /\ Routed \in Nat
  /\ \A i \in 1 .. Len(ch.eventCH) : ch.eventCH[i] = Routed + i

IsRouted(m, kind) == m \in 1 .. Routed /\ topic[m].kind = kind

\* A queue of messages of one kind, each once and none with a goroutine yet.
QueueOK(q, kind) ==
  /\ \A i \in 1 .. Len(q) : /\ IsRouted(q[i], kind)
                            /\ q[i] \in Msgs => worker[q[i]].ph = "idle"
  /\ \A i, j \in 1 .. Len(q) : q[i] = q[j] => i = j
QueuesOK == QueueOK(ch.broadcastCH, "broadcast") /\ QueueOK(ch.roomMsgCH, "room")

\* What the goroutine w of message o is, and whom it has seen.
Busy(w) == w.ph \in {"collect", "send"}
RoleOK(o, w) ==
  /\ w.as = "none" <=> w.ph = "idle"
  /\ w.as = "broadcast" => IsRouted(o, "broadcast")
  /\ w.as \in {"room", "replay"} => IsRouted(o, "room")
  /\ ~Busy(w) => w.seen = {}
  /\ w.as \in {"room", "replay"} => w.seen \subseteq joined[topic[o].room]

\* What it sends ...
OutOK(o, w) ==
  /\ Busy(w) /\ w.as # "replay" => w.out = << o >>
  /\ Busy(w) /\ w.as = "replay" => \A i \in 1 .. Len(w.out) :
       IsRouted(w.out[i], "room") /\ topic[w.out[i]].room = topic[o].room

\* ... and to whom it still has to.
TodoOK(o, w) ==
  w.ph = "send" =>
    /\ w.todo # << >> /\ w.out # << >>
    /\ \A i \in 1 .. Len(w.todo) : /\ w.todo[i] \in w.seen
                                   /\ w.as # "replay" => w.todo[i] # topic[o].client
    /\ \A i, j \in 1 .. Len(w.todo) : w.todo[i] = w.todo[j] => i = j

WorkerOK(o, w) == RoleOK(o, w) /\ OutOK(o, w) /\ TodoOK(o, w)
WorkersOK == \A o \in Msgs : WorkerOK(o, worker[o])

\* The goroutine of a broadcast that was queued for c has passed c.
Passed(w, c) == \/ w.ph = "done"
                \/ w.ph = "send" /\ \A i \in 1 .. Len(w.todo) : w.todo[i] # c

SentTo(c, i) ==
  LET m == sent[c][i]
  IN  \/ IsRouted(m, "room") /\ c \in joined[topic[m].room]
      \/ /\ IsRouted(m, "broadcast") /\ topic[m].client # c
         /\ m \in Msgs /\ Passed(worker[m], c)
         /\ \A j \in 1 .. Len(sent[c]) : sent[c][j] = m => i = j

SentOK == \A c \in Clients : \A i \in 1 .. Len(sent[c]) : SentTo(c, i)

\* A ring buffer is filled from slot 0 on and nothing is in it twice.
RingOK(rb) ==
  /\ \A s \in Slots : rb.buffer[s] # NoMsg <=> s < rb.count
  /\ rb.count < Size => rb.head = rb.count
  /\ \A s, t \in Slots : rb.buffer[s] # NoMsg /\ rb.buffer[s] = rb.buffer[t] => s = t

\* A stored message is a message of the room whose goroutine has collected.
StoredOK(r, m) ==
  /\ m \in Msgs /\ IsRouted(m, "room") /\ topic[m].room = r
  /\ worker[m].as = "room" /\ worker[m].ph \in {"send", "done"}
BufferOK(r) ==
  LET rb == rooms[r].msgBuffer
  IN  RingOK(rb) /\ \A s \in Slots : rb.buffer[s] # NoMsg => StoredOK(r, rb.buffer[s])
BuffersOK == \A r \in Rooms : BufferOK(r)

ChatInv == DataOK /\ MembersJoined /\ EventsOK /\ QueuesOK /\ WorkersOK /\ SentOK /\ BuffersOK

-----------------------------------------------------------------------------
(***************************************************************************)
(* The ring buffer                                                         *)
(***************************************************************************)
LEMMA RingWrap ==
  ASSUME NEW x \in 0 .. (2 * Size - 1)
  PROVE  /\ x < Size => x % Size = x
         /\ Size <= x => x % Size = x - Size
  <1>1. Size \in Nat \ {0}
    BY SizeAssumption
  <1>2. x \in Nat /\ x < 2 * Size
    BY <1>1
  <1>3. ASSUME x < Size PROVE x % Size = x
    BY <1>1, <1>2, <1>3, Z3
  <1>4. ASSUME Size <= x PROVE x % Size = x - Size
    BY <1>1, <1>2, <1>4, Z3
  <1> QED
    BY <1>3, <1>4

LEMMA EmptyRing ==
  NewRingBuffer \in Buffers /\ RingOK(NewRingBuffer)
  <1>1. Size \in Nat \ {0}
    BY SizeAssumption
  <1>2. NoMsg \in Int
    BY DEF NoMsg
  <1> QED
    BY <1>1, <1>2 DEF NewRingBuffer, Buffers, RingOK, Slots

\* A push writes one slot.
LEMMA PushFacts ==
  ASSUME NEW rb \in Buffers, NEW m \in Nat
  PROVE  /\ Push(rb, m) \in Buffers
         /\ rb.head \in Slots
         /\ Push(rb, m).buffer[rb.head] = m
         /\ \A s \in Slots : s # rb.head => Push(rb, m).buffer[s] = rb.buffer[s]
  <1>1. Size \in Nat \ {0}
    BY SizeAssumption
  <1>2. rb.head \in Slots /\ rb.count \in 0 .. Size /\ rb.buffer \in [Slots -> Int]
    BY DEF Buffers
  <1>3. NextSlot(rb.head) \in Slots
    <2>1. PICK x \in 0 .. (2 * Size - 1) : x = rb.head + 1
      BY <1>1, <1>2 DEF Slots
    <2> QED
      BY <1>1, <1>2, <2>1, RingWrap DEF NextSlot, Slots
  <1>4. (IF rb.count < Size THEN rb.count + 1 ELSE rb.count) \in 0 .. Size
    BY <1>1, <1>2
  <1> QED
    BY <1>2, <1>3, <1>4 DEF Push, Buffers

\* A push of a message that is not there keeps the ring in order.
LEMMA PushRing ==
  ASSUME NEW rb \in Buffers, RingOK(rb), NEW m \in Nat, \A s \in Slots : rb.buffer[s] # m
  PROVE  RingOK(Push(rb, m))
  <1>1. Size \in Nat \ {0}
    BY SizeAssumption
  <1>2. rb.head \in Slots /\ rb.count \in 0 .. Size /\ rb.buffer \in [Slots -> Int]
    BY DEF Buffers
  <1>3. m # NoMsg
    BY DEF NoMsg
  <1> DEFINE b == Push(rb, m).buffer
             n == Push(rb, m).count
             h == Push(rb, m).head
  <1>4. b[rb.head] = m /\ \A s \in Slots : s # rb.head => b[s] = rb.buffer[s]
    BY PushFacts
  <1>5. n = (IF rb.count < Size THEN rb.count + 1 ELSE rb.count) /\ h = NextSlot(rb.head)
    BY DEF Push
  <1> HIDE DEF b, n, h
  <1>6. \A s, t \in Slots : b[s] # NoMsg /\ b[s] = b[t] => s = t
    BY <1>2, <1>4 DEF RingOK
  <1>7. CASE rb.count < Size
    <2>1. rb.head = rb.count /\ n = rb.count + 1
      BY <1>5, <1>7 DEF RingOK
    <2>2. ASSUME NEW s \in Slots PROVE b[s] # NoMsg <=> s < n
      <3>1. s \in Int /\ rb.count \in Int
        BY <1>1, <1>2 DEF Slots
      <3>2. CASE s = rb.head
        BY <1>3, <1>4, <2>1, <3>1, <3>2
      <3>3. CASE s # rb.head
        <4>1. b[s] # NoMsg <=> s < rb.count
          BY <1>4, <3>3 DEF RingOK
        <4>2. s < rb.count <=> s < n
          BY <2>1, <3>1, <3>3
        <4> QED
          BY <4>1, <4>2
      <3> QED
        BY <3>2, <3>3
    <2>3. n < Size => h = n
      <3>1. PICK x \in 0 .. (2 * Size - 1) : x = rb.head + 1
        BY <1>1, <1>2 DEF Slots
      <3> QED
        BY <1>1, <1>2, <1>5, <2>1, <3>1, RingWrap DEF NextSlot
    <2> QED
      BY <1>6, <2>2, <2>3 DEF RingOK, b, n, h
  <1>8. CASE rb.count = Size
    <2>1. n = Size
      BY <1>5, <1>8, <1>1
    <2>2. ASSUME NEW s \in Slots PROVE b[s] # NoMsg /\ s < n
      <3>1. s < n
        BY <1>1, <2>1 DEF Slots
      <3>2. rb.buffer[s] # NoMsg
        BY <1>8, <2>1, <3>1 DEF RingOK
      <3> QED
        BY <1>3, <1>4, <3>1, <3>2
    <2> QED
      BY <1>1, <1>6, <2>1, <2>2 DEF RingOK, b, n, h
  <1> QED
    BY <1>1, <1>2, <1>7, <1>8

\* GetAll reads filled slots, each once.
LEMMA NthSlots ==
  ASSUME NEW rb \in Buffers, RingOK(rb), NEW i \in 0 .. rb.count - 1
  PROVE  /\ (OldestIdx(rb) + i) % Size \in Slots
         /\ rb.buffer[(OldestIdx(rb) + i) % Size] # NoMsg
         /\ \A j \in 0 .. rb.count - 1 :
              (OldestIdx(rb) + i) % Size = (OldestIdx(rb) + j) % Size => i = j
  <1>1. Size \in Nat \ {0} /\ rb.head \in 0 .. Size - 1 /\ rb.count \in 0 .. Size
    BY SizeAssumption DEF Buffers, Slots
  <1>2. PICK o \in 0 .. Size - 1 : OldestIdx(rb) = o /\ (rb.count < Size => o = 0)
    <2>1. PICK y \in 0 .. (2 * Size - 1) : y = rb.head - rb.count + Size
      BY <1>1
    <2>2. y % Size \in 0 .. Size - 1
      BY <1>1, <2>1, RingWrap
    <2>3. rb.count < Size => y = Size
      BY <1>1, <2>1 DEF RingOK
    <2> QED
      BY <1>1, <2>1, <2>2, <2>3, RingWrap DEF OldestIdx
  <1>3. ASSUME NEW j \in 0 .. rb.count - 1
        PROVE  /\ (o + j) % Size \in 0 .. Size - 1
               /\ o + j < Size => (o + j) % Size = o + j
               /\ Size <= o + j => (o + j) % Size = o + j - Size
    <2>1. PICK x \in 0 .. (2 * Size - 1) : x = o + j
      BY <1>1
    <2> QED
      BY <1>1, <2>1, RingWrap
  <1>4. (o + i) % Size \in 0 .. Size - 1 /\ (rb.count < Size => (o + i) % Size = i)
    BY <1>1, <1>2, <1>3
  <1>5. rb.buffer[(o + i) % Size] # NoMsg
    BY <1>1, <1>4 DEF RingOK, Slots
  <1>6. ASSUME NEW j \in 0 .. rb.count - 1
        PROVE  (o + j) % Size = o + j \/ (o + j) % Size = o + j - Size
    <2>1. o + j < Size \/ Size <= o + j
      BY <1>1
    <2> QED
      BY <1>3, <2>1
  <1>7. ASSUME NEW j \in 0 .. rb.count - 1, (o + i) % Size = (o + j) % Size PROVE i = j
    <2>1. PICK x : x = (o + i) % Size /\ x = (o + j) % Size
      BY <1>7
    <2>2. x \in 0 .. Size - 1
      BY <1>4, <2>1
    <2>3. x = o + i \/ x = o + i - Size
      BY <1>6, <2>1
    <2>4. x = o + j \/ x = o + j - Size
      BY <1>6, <2>1
    <2> QED
      BY <1>1, <2>2, <2>3, <2>4
  <1> QED
    BY <1>2, <1>4, <1>5, <1>7 DEF Slots

LEMMA GetAllFacts ==
  ASSUME NEW rb \in Buffers, RingOK(rb)
  PROVE  /\ Len(GetAll(rb)) = rb.count
         /\ \A i \in 1 .. rb.count : \E s \in Slots : rb.buffer[s] # NoMsg /\ GetAll(rb)[i] = rb.buffer[s]
         /\ \A i, j \in 1 .. rb.count : GetAll(rb)[i] = GetAll(rb)[j] => i = j
  <1>1. rb.count \in Nat
    BY SizeAssumption DEF Buffers
  <1>2. Len(GetAll(rb)) = rb.count /\ \A i \in 1 .. rb.count : GetAll(rb)[i] = Nth(rb, i - 1)
    BY <1>1 DEF GetAll
  <1>3. \A i \in 1 .. rb.count : i - 1 \in 0 .. rb.count - 1
    BY <1>1
  <1>4. ASSUME NEW i \in 1 .. rb.count
        PROVE  \E s \in Slots : rb.buffer[s] # NoMsg /\ GetAll(rb)[i] = rb.buffer[s]
    BY <1>2, <1>3, NthSlots DEF Nth
  <1>5. ASSUME NEW i \in 1 .. rb.count, NEW j \in 1 .. rb.count, GetAll(rb)[i] = GetAll(rb)[j]
        PROVE  i = j
    <2> DEFINE s == (OldestIdx(rb) + (i - 1)) % Size
               t == (OldestIdx(rb) + (j - 1)) % Size
    <2>1. s \in Slots /\ t \in Slots /\ rb.buffer[s] # NoMsg /\ rb.buffer[s] = rb.buffer[t]
      BY <1>2, <1>3, <1>5, NthSlots DEF Nth
    <2>2. s = t
      BY <2>1 DEF RingOK
    <2>3. i - 1 = j - 1
      BY <1>3, <2>2, NthSlots
    <2> QED
      BY <1>1, <2>3
  <1> QED
    BY <1>2, <1>4, <1>5

\* A replay sends stored messages.
LEMMA ReplayFacts ==
  ASSUME NEW rb \in Buffers, RingOK(rb), NEW o \in Nat
  PROVE  \A i \in 1 .. Len(GetFromOffset(rb, o)) :
           \E s \in Slots : rb.buffer[s] # NoMsg /\ GetFromOffset(rb, o)[i] = rb.buffer[s]
  <1>1. rb.count \in Nat
    BY SizeAssumption DEF Buffers
  <1>2. CASE rb.count > 0 /\ Probe(rb) > o
    <2>1. GetFromOffset(rb, o) = << Nth(rb, rb.count - 1) >>
      BY <1>2 DEF GetFromOffset
    <2>2. rb.count - 1 \in 0 .. rb.count - 1
      BY <1>1, <1>2
    <2>3. \E s \in Slots : rb.buffer[s] # NoMsg /\ Nth(rb, rb.count - 1) = rb.buffer[s]
      BY <2>2, NthSlots DEF Nth
    <2> QED
      BY <2>1, <2>3
  <1>3. CASE ~(rb.count > 0 /\ Probe(rb) > o)
    BY <1>3 DEF GetFromOffset
  <1> QED
    BY <1>2, <1>3

-----------------------------------------------------------------------------
(***************************************************************************)
(* Effects of the steps                                                    *)
(***************************************************************************)
\* The channels of messages are as they were.
MessagesKept ==
  /\ ch' \in Channels
  /\ ch'.eventCH = ch.eventCH /\ ch'.broadcastCH = ch.broadcastCH /\ ch'.roomMsgCH = ch.roomMsgCH

LEMMA PutClient ==
  ASSUME ch \in Channels, NEW x,
         \/ x \in Clients /\ (Put("joinServerCH", x) \/ Put("leaveServerCH", x))
         \/ x \in RoomRequests /\ (Put("roomJoinCH", x) \/ Put("roomLeaveCH", x))
  PROVE  MessagesKept
  <1>1. CASE x \in Clients
    <2>1. Append(ch.joinServerCH, x) \in Seq(Clients) /\ Append(ch.leaveServerCH, x) \in Seq(Clients)
      BY <1>1 DEF Channels
    <2>2. CASE Put("joinServerCH", x)
      BY <2>1, <2>2 DEF Put, MessagesKept, Channels
    <2>3. CASE Put("leaveServerCH", x)
      BY <2>1, <2>3 DEF Put, MessagesKept, Channels
    <2>4. CASE Put("roomJoinCH", x) /\ x \in RoomRequests
      <3>1. Append(ch.roomJoinCH, x) \in Seq(RoomRequests)
        BY <2>4 DEF Channels
      <3> QED
        BY <2>4, <3>1 DEF Put, MessagesKept, Channels
    <2>5. CASE Put("roomLeaveCH", x) /\ x \in RoomRequests
      <3>1. Append(ch.roomLeaveCH, x) \in Seq(RoomRequests)
        BY <2>5 DEF Channels
      <3> QED
        BY <2>5, <3>1 DEF Put, MessagesKept, Channels
    <2> QED
      BY <2>2, <2>3, <2>4, <2>5
  <1>2. CASE x \in RoomRequests /\ (Put("roomJoinCH", x) \/ Put("roomLeaveCH", x))
    <2>1. /\ Append(ch.roomJoinCH, x) \in Seq(RoomRequests)
          /\ Append(ch.roomLeaveCH, x) \in Seq(RoomRequests)
      BY <1>2 DEF Channels
    <2>2. CASE Put("roomJoinCH", x)
      BY <2>1, <2>2 DEF Put, MessagesKept, Channels
    <2>3. CASE Put("roomLeaveCH", x)
      BY <2>1, <2>3 DEF Put, MessagesKept, Channels
    <2> QED
      BY <1>2, <2>2, <2>3
  <1> QED
    BY <1>1, <1>2

LEMMA TakeClient ==
  ASSUME ch \in Channels,
         \/ Take("joinServerCH") \/ Take("leaveServerCH") \/ Take("roomJoinCH") \/ Take("roomLeaveCH")
  PROVE  MessagesKept
  <1>1. /\ ch.joinServerCH # << >> => Tail(ch.joinServerCH) \in Seq(Clients)
        /\ ch.leaveServerCH # << >> => Tail(ch.leaveServerCH) \in Seq(Clients)
        /\ ch.roomJoinCH # << >> => Tail(ch.roomJoinCH) \in Seq(RoomRequests)
        /\ ch.roomLeaveCH # << >> => Tail(ch.roomLeaveCH) \in Seq(RoomRequests)
    BY DEF Channels
  <1>2. CASE Take("joinServerCH")
    BY <1>1, <1>2 DEF Take, MessagesKept, Channels
  <1>3. CASE Take("leaveServerCH")
    BY <1>1, <1>3 DEF Take, MessagesKept, Channels
  <1>4. CASE Take("roomJoinCH")
    BY <1>1, <1>4 DEF Take, MessagesKept, Channels
  <1>5. CASE Take("roomLeaveCH")
    BY <1>1, <1>5 DEF Take, MessagesKept, Channels
  <1> QED
    BY <1>2, <1>3, <1>4, <1>5

\* A client's goroutines post requests and may add one message to the topic.
TopicGrows == topic' = topic \/ \E x \in Responses : topic' = Append(topic, x)

LEMMA ClientEffect ==
  ASSUME DataOK, NEW c \in Clients, ClientNext(c)
  PROVE  MessagesKept /\ TopicGrows /\ UNCHANGED << readPos, clients, rooms, joined, worker, sent >>
  <1> USE DEF serverVars, kafkaVars, mapVars
  <1>0. ch \in Channels
    BY DEF DataOK
  <1>1. CASE HandleWS(c)
    BY <1>0, <1>1, PutClient DEF HandleWS, TopicGrows
  <1>2. CASE SendLeave(c)
    BY <1>0, <1>2, PutClient DEF SendLeave, TopicGrows
  <1>3. ASSUME NEW q \in Requests, PostRoomRequest(c, q)
        PROVE  MessagesKept /\ TopicGrows /\ UNCHANGED << readPos, clients, rooms, joined, worker, sent >>
    <2>1. [client |-> c, room |-> q.room] \in RoomRequests
      BY DEF Requests, RoomRequests
    <2> QED
      BY <1>0, <1>3, <2>1, PutClient DEF PostRoomRequest, TopicGrows
  <1>4. ASSUME NEW q \in Requests, ProduceData(c, q)
        PROVE  MessagesKept /\ TopicGrows /\ UNCHANGED << readPos, clients, rooms, joined, worker, sent >>
    <2>1. q.room \in Rooms /\ q.kind \in {"broadcast", "room", "replay"}
      BY <1>4, BoundsAssumption DEF ProduceData, Requests
    <2>2. [kind |-> q.kind, client |-> c, room |-> q.room] \in Responses
      BY <2>1 DEF Responses
    <2> QED
      BY <1>0, <1>4, <2>2 DEF ProduceData, TopicGrows, MessagesKept
  <1>5. CASE ~(HandleWS(c) \/ SendLeave(c) \/ \E q \in Requests : PostRoomRequest(c, q) \/ ProduceData(c, q))
    <2>1. UNCHANGED << serverVars, ch >>
      BY <1>5 DEF ClientNext, ReaderNext, ConnCloses, StopsReading, ReadRequest, ReadPong, ReadErr,
         PongExceeded, WriterTick, WriterDone, WriteMsg, WriteBlocks, WriteFails, PingCheck, SendPing
    <2> QED
      BY <1>0, <2>1 DEF MessagesKept, TopicGrows
  <1> QED
    BY <1>1, <1>2, <1>3, <1>4, <1>5

\* The topic only grows.
Stable ==
  /\ topic' \in Seq(Responses) /\ Len(topic) <= Len(topic')
  /\ \A m \in 1 .. Len(topic) : topic'[m] = topic[m]

LEMMA TopicGrowsIsStable ==
  ASSUME DataOK, TopicGrows
  PROVE  Stable
  <1>1. topic \in Seq(Responses) /\ Len(topic) \in Nat
    BY DEF DataOK
  <1>2. CASE topic' = topic
    BY <1>1, <1>2 DEF Stable
  <1>3. ASSUME NEW x \in Responses, topic' = Append(topic, x) PROVE Stable
    BY <1>1, <1>3 DEF Stable
  <1> QED
    BY <1>2, <1>3 DEF TopicGrows

-----------------------------------------------------------------------------
(***************************************************************************)
(* What every step leaves as it is                                         *)
(***************************************************************************)
Forward ==
  /\ Stable
  /\ Routed' \in Nat /\ Routed <= Routed'
  /\ \A r \in Rooms : joined[r] \subseteq joined'[r]

LEMMA RoutedFacts ==
  ASSUME DataOK, EventsOK
  PROVE  /\ Routed \in Nat /\ Routed <= Len(topic) /\ Len(topic) \in Nat
         /\ readPos \in Nat /\ readPos <= Len(topic)
         /\ Len(ch.eventCH) \in Nat /\ ch.eventCH \in Seq(Nat) /\ readPos = Routed + Len(ch.eventCH)
         /\ \A m \in 1 .. Routed : m \in 1 .. Len(topic) /\ topic[m] \in Responses
  <1>1. /\ Len(topic) \in Nat /\ Len(ch.eventCH) \in Nat /\ readPos \in 0 .. Len(topic)
        /\ topic \in Seq(Responses) /\ ch.eventCH \in Seq(Nat)
    BY DEF DataOK, Channels
  <1>2. Routed \in Nat /\ Routed = readPos - Len(ch.eventCH)
    BY DEF EventsOK, Routed
  <1>3. Routed <= Len(topic)
    BY <1>1, <1>2
  <1> QED
    BY <1>1, <1>2, <1>3

LEMMA RoutedStays ==
  ASSUME DataOK, EventsOK, Forward, NEW m, NEW kind, IsRouted(m, kind)
  PROVE  /\ IsRouted(m, kind)' /\ topic'[m] = topic[m]
         /\ topic[m] \in Responses /\ topic[m].kind = kind
  <1>1. m \in 1 .. Routed /\ topic[m].kind = kind
    BY DEF IsRouted
  <1>2. m \in 1 .. Len(topic) /\ topic[m] \in Responses
    BY <1>1, RoutedFacts
  <1>3. topic'[m] = topic[m]
    BY <1>2 DEF Forward, Stable
  <1>4. m \in 1 .. Routed'
    BY <1>1, RoutedFacts DEF Forward
  <1> QED
    BY <1>1, <1>2, <1>3, <1>4 DEF IsRouted

LEMMA WorkerStays ==
  ASSUME DataOK, EventsOK, Forward, NEW o, NEW w \in Goroutines, WorkerOK(o, w)
  PROVE  WorkerOK(o, w)'
  <1>0. w.as \in {"none", "broadcast", "room", "replay"}
    BY DEF Goroutines
  <1>1. \A m, kind : IsRouted(m, kind) =>
          IsRouted(m, kind)' /\ topic'[m] = topic[m] /\ topic[m].room \in Rooms
    BY RoutedStays DEF Responses
  <1>2. RoleOK(o, w)'
    BY <1>0, <1>1 DEF WorkerOK, RoleOK, Forward
  <1>3. w.as # "none" => topic'[o] = topic[o]
    BY <1>0, <1>1 DEF WorkerOK, RoleOK
  <1>4. Busy(w) => w.as # "none"
    BY DEF WorkerOK, RoleOK, Busy
  <1>5. OutOK(o, w)'
    BY <1>1, <1>3, <1>4 DEF WorkerOK, OutOK
  <1>6. TodoOK(o, w)'
    BY <1>3, <1>4 DEF WorkerOK, TodoOK, Busy
  <1> QED
    BY <1>2, <1>5, <1>6 DEF WorkerOK

\* A goroutine that did not move still fits.
LEMMA WorkerKept ==
  ASSUME DataOK, EventsOK, Forward, NEW o \in Msgs, WorkerOK(o, worker[o]), worker'[o] = worker[o]
  PROVE  WorkerOK(o, worker[o])'
  <1>1. PICK w \in Goroutines : w = worker[o] /\ w = worker'[o]
    BY DEF DataOK
  <1>2. WorkerOK(o, w)
    BY <1>1
  <1>3. WorkerOK(o, w)'
    BY <1>2, WorkerStays
  <1> QED
    BY <1>1, <1>3 DEF WorkerOK, RoleOK, OutOK, TodoOK, IsRouted

LEMMA SentStays ==
  ASSUME DataOK, EventsOK, Forward, NEW c \in Clients, sent'[c] = sent[c],
         NEW i \in 1 .. Len(sent[c]), SentTo(c, i),
         \A m \in Msgs : IsRouted(m, "broadcast") /\ Passed(worker[m], c) => Passed(worker'[m], c)
  PROVE  SentTo(c, i)'
  <1>1. PICK m : m = sent[c][i]
    OBVIOUS
  <1>2. \A kind : IsRouted(m, kind) =>
          IsRouted(m, kind)' /\ topic'[m] = topic[m] /\ topic[m].room \in Rooms
    BY RoutedStays DEF Responses
  <1>3. CASE IsRouted(m, "room") /\ c \in joined[topic[m].room]
    <2>1. IsRouted(m, "room")' /\ c \in joined'[topic'[m].room]
      BY <1>2, <1>3 DEF Forward
    <2> QED
      BY <1>1, <2>1 DEF SentTo, IsRouted
  <1>4. CASE /\ IsRouted(m, "broadcast") /\ topic[m].client # c
             /\ m \in Msgs /\ Passed(worker[m], c)
             /\ \A j \in 1 .. Len(sent[c]) : sent[c][j] = m => i = j
    <2>1. IsRouted(m, "broadcast")' /\ topic'[m].client # c /\ Passed(worker'[m], c)
      BY <1>2, <1>4
    <2> QED
      BY <1>1, <1>4, <2>1 DEF SentTo, IsRouted
  <1> QED
    BY <1>1, <1>3, <1>4 DEF SentTo

LEMMA StoredStays ==
  ASSUME DataOK, EventsOK, Forward, NEW r \in Rooms, NEW m, StoredOK(r, m),
         worker'[m].as = "room" /\ worker'[m].ph \in {"send", "done"}
  PROVE  StoredOK(r, m)'
  <1>1. m \in Msgs /\ IsRouted(m, "room") /\ topic[m].room = r
    BY DEF StoredOK
  <1>2. IsRouted(m, "room")' /\ topic'[m] = topic[m]
    BY <1>1, RoutedStays
  <1>3. m \in Msgs /\ topic'[m].room = r
    BY <1>1, <1>2
  <1> QED
    BY <1>2, <1>3 DEF StoredOK

LEMMA QueueStays ==
  ASSUME DataOK, EventsOK, Forward, NEW q, NEW kind, QueueOK(q, kind),
         \A i \in 1 .. Len(q) : q[i] \in Msgs => worker'[q[i]].ph = "idle"
  PROVE  QueueOK(q, kind)'
  <1>1. \A m : IsRouted(m, kind) => IsRouted(m, kind)'
    BY RoutedStays
  <1> QED
    BY <1>1 DEF QueueOK

\* Steps that leave the goroutines and what was sent alone.
LEMMA QuietStep ==
  ASSUME DataOK, EventsOK, QueuesOK, WorkersOK, SentOK, Forward, UNCHANGED << worker, sent >>,
         ch'.broadcastCH = ch.broadcastCH, ch'.roomMsgCH = ch.roomMsgCH
  PROVE  QueuesOK' /\ WorkersOK' /\ SentOK'
  <1>1. QueuesOK'
    <2>1. PICK b, r : /\ b = ch.broadcastCH /\ b = ch'.broadcastCH
                      /\ r = ch.roomMsgCH /\ r = ch'.roomMsgCH
      OBVIOUS
    <2>2. QueueOK(b, "broadcast") /\ QueueOK(r, "room")
      BY <2>1 DEF QueuesOK
    <2>3. QueueOK(b, "broadcast")' /\ QueueOK(r, "room")'
      BY <2>2, QueueStays DEF QueueOK
    <2> QED
      BY <2>1, <2>3 DEF QueuesOK, QueueOK, IsRouted
  <1>2. WorkersOK'
    BY WorkerKept DEF WorkersOK
  <1>3. SentOK'
    BY SentStays DEF SentOK
  <1> QED
    BY <1>1, <1>2, <1>3

LEMMA BufferStays ==
  ASSUME DataOK, EventsOK, Forward, NEW r \in Rooms, BufferOK(r),
         rooms'[r].msgBuffer = rooms[r].msgBuffer,
         \A m \in Msgs : worker[m].as = "room" /\ worker[m].ph \in {"send", "done"} =>
                          worker'[m].as = "room" /\ worker'[m].ph \in {"send", "done"}
  PROVE  BufferOK(r)'
  <1>1. PICK rb : rb = rooms[r].msgBuffer /\ rb = rooms'[r].msgBuffer
    OBVIOUS
  <1>2. RingOK(rb)
    BY <1>1 DEF BufferOK
  <1>3. ASSUME NEW s \in Slots, rb.buffer[s] # NoMsg PROVE StoredOK(r, rb.buffer[s])'
    <2>1. StoredOK(r, rb.buffer[s])
      BY <1>1, <1>3 DEF BufferOK
    <2>2. rb.buffer[s] \in Msgs /\ worker[rb.buffer[s]].as = "room"
          /\ worker[rb.buffer[s]].ph \in {"send", "done"}
      BY <2>1 DEF StoredOK
    <2> QED
      BY <2>1, <2>2, StoredStays
  <1> QED
    BY <1>1, <1>2, <1>3 DEF BufferOK, StoredOK, IsRouted

-----------------------------------------------------------------------------
(***************************************************************************)
(* The goroutines of a client, and the reader of the topic                 *)
(***************************************************************************)
LEMMA ClientStep ==
  ASSUME ChatInv, NEW c \in Clients, ClientNext(c)
  PROVE  ChatInv'
  <1> USE DEF ChatInv
  <1>1. MessagesKept /\ TopicGrows /\ UNCHANGED << readPos, clients, rooms, joined, worker, sent >>
    BY ClientEffect
  <1>2. Stable
    BY <1>1, TopicGrowsIsStable
  <1>3. Routed' = Routed /\ ch'.eventCH = ch.eventCH
    BY <1>1 DEF Routed, MessagesKept
  <1>4. Forward
    BY <1>1, <1>2, <1>3 DEF Forward, EventsOK
  <1>5. DataOK'
    <2>1. readPos' \in 0 .. Len(topic')
      <3>1. Len(topic) \in Nat /\ Len(topic') \in Nat /\ Len(topic) <= Len(topic') /\ readPos \in 0 .. Len(topic)
        BY <1>2 DEF DataOK, Stable
      <3> QED
        BY <1>1, <3>1
    <2> QED
      BY <1>1, <1>2, <2>1 DEF DataOK, Stable, MessagesKept
  <1>6. MembersJoined'
    BY <1>1 DEF MembersJoined
  <1>7. EventsOK'
    BY <1>3 DEF EventsOK
  <1>8. QueuesOK' /\ WorkersOK' /\ SentOK'
    BY <1>1, <1>4, QuietStep DEF MessagesKept
  <1>9. BuffersOK'
    BY <1>1, <1>4, BufferStays DEF BuffersOK
  <1> QED
    BY <1>5, <1>6, <1>7, <1>8, <1>9

LEMMA ReadStep ==
  ASSUME ChatInv, ReadMessage
  PROVE  ChatInv'
  <1> USE DEF ChatInv
  <1>1. /\ UNCHANGED << topic, clients, rooms, joined, worker, sent >>
        /\ readPos' = readPos + 1 /\ readPos < Len(topic)
        /\ ch' = [ch EXCEPT !.eventCH = Append(@, readPos + 1)]
    BY DEF ReadMessage, mapVars
  <1>2. /\ ch \in Channels /\ ch.eventCH \in Seq(Nat) /\ readPos \in Nat /\ Len(topic) \in Nat
        /\ Len(ch.eventCH) \in Nat /\ Routed \in Nat /\ readPos = Routed + Len(ch.eventCH)
    BY RoutedFacts DEF DataOK
  <1>3. readPos + 1 \in Nat /\ Append(ch.eventCH, readPos + 1) \in Seq(Nat)
    <2>1. readPos + 1 \in Nat
      BY <1>2
    <2> QED
      BY <1>2, <2>1
  <1>4. PICK e \in Seq(Nat), n \in Nat : e = Append(ch.eventCH, readPos + 1) /\ n = Len(ch.eventCH)
    BY <1>2, <1>3
  <1>5. /\ Len(e) = n + 1 /\ e[n + 1] = readPos + 1
        /\ \A i \in 1 .. n : e[i] = ch.eventCH[i]
    BY <1>2, <1>4
  <1>6. /\ ch' \in Channels /\ ch'.eventCH = e
        /\ ch'.broadcastCH = ch.broadcastCH /\ ch'.roomMsgCH = ch.roomMsgCH
    BY <1>1, <1>2, <1>4 DEF Channels
  <1>7. Routed' = Routed
    BY <1>1, <1>2, <1>4, <1>5, <1>6 DEF Routed
  <1>8. Forward
    BY <1>1, <1>2, <1>7 DEF Forward, Stable, DataOK
  <1>9. DataOK' /\ EventsOK'
    <2>1. readPos' \in 0 .. Len(topic')
      BY <1>1, <1>2
    <2>2. ASSUME NEW i \in 1 .. n + 1 PROVE e[i] = Routed + i
      <3>1. CASE i \in 1 .. n
        BY <1>4, <1>5, <3>1 DEF EventsOK
      <3>2. CASE i = n + 1
        <4>1. Routed + i = readPos + 1
          BY <1>2, <1>4, <3>2
        <4> QED
          BY <1>5, <3>2, <4>1
      <3> QED
        BY <3>1, <3>2
    <2>3. DataOK'
      BY <1>1, <1>6, <2>1 DEF DataOK
    <2> QED
      BY <1>2, <1>5, <1>6, <1>7, <2>2, <2>3 DEF EventsOK
  <1>10. MembersJoined'
    BY <1>1 DEF MembersJoined
  <1>11. QueuesOK' /\ WorkersOK' /\ SentOK'
    BY <1>1, <1>6, <1>8, QuietStep
  <1>12. BuffersOK'
    BY <1>1, <1>8, BufferStays DEF BuffersOK
  <1> QED
    BY <1>9, <1>10, <1>11, <1>12


LEMMA QueueAppend ==
  ASSUME DataOK, EventsOK, Forward, UNCHANGED worker, NEW kind, NEW q \in Seq(Nat), QueueOK(q, kind),
         NEW o \in Nat, o = Routed + 1, IsRouted(o, kind)', o \in Msgs => worker[o].ph = "idle"
  PROVE  QueueOK(Append(q, o), kind)'
  <1>1. PICK n \in Nat, p \in Seq(Nat) : n = Len(q) /\ p = Append(q, o)
    <2>1. Len(q) \in Nat /\ Append(q, o) \in Seq(Nat)
      OBVIOUS
    <2> QED
      BY <2>1
  <1>2. Len(p) = n + 1 /\ p[n + 1] = o /\ \A i \in 1 .. n : p[i] = q[i]
    BY <1>1
  <1>3. QueueOK(q, kind)'
    BY QueueStays DEF QueueOK
  <1>4. \A i \in 1 .. n : q[i] # o
    <2>1. \A i \in 1 .. n : q[i] \in 1 .. Routed
      BY <1>1 DEF QueueOK, IsRouted
    <2> QED
      BY <2>1, RoutedFacts
  <1>5. \A i \in 1 .. n + 1 : i \in 1 .. n \/ i = n + 1
    OBVIOUS
  <1>6. ASSUME NEW i \in 1 .. n + 1
        PROVE  IsRouted(p[i], kind)' /\ (p[i] \in Msgs => worker'[p[i]].ph = "idle")
    <2>1. CASE i \in 1 .. n
      BY <1>1, <1>2, <1>3, <2>1 DEF QueueOK
    <2>2. CASE i = n + 1
      BY <1>2, <2>2
    <2> QED
      BY <1>5, <2>1, <2>2
  <1>7. ASSUME NEW i \in 1 .. n + 1, NEW j \in 1 .. n + 1, p[i] = p[j] PROVE i = j
    <2>1. CASE i \in 1 .. n /\ j \in 1 .. n
      BY <1>1, <1>2, <1>7, <2>1 DEF QueueOK
    <2> QED
      BY <1>2, <1>4, <1>5, <1>7, <2>1
  <1>8. QueueOK(p, kind)'
    BY <1>2, <1>6, <1>7 DEF QueueOK
  <1> QED
    BY <1>1, <1>8

LEMMA RouteStep ==
  ASSUME ChatInv, Route
  PROVE  ChatInv'
  <1> USE DEF ChatInv
  <1>1. /\ ch \in Channels /\ ch.eventCH \in Seq(Nat) /\ readPos \in Nat /\ Len(topic) \in Nat
        /\ readPos <= Len(topic)
        /\ Len(ch.eventCH) \in Nat /\ Routed \in Nat /\ readPos = Routed + Len(ch.eventCH)
    BY RoutedFacts DEF DataOK
  <1>2. UNCHANGED << topic, readPos, clients, rooms, joined, worker, sent >> /\ ch.eventCH # << >>
    BY DEF Route, kafkaVars, mapVars
  <1>3. PICK n \in Nat, e \in Seq(Nat), o \in Nat :
          n = Len(ch.eventCH) /\ e = Tail(ch.eventCH) /\ o = Head(ch.eventCH)
    <2>1. Tail(ch.eventCH) \in Seq(Nat) /\ Head(ch.eventCH) \in Nat
      BY <1>1, <1>2
    <2> QED
      BY <1>1, <2>1
  <1>4. n >= 1 /\ Len(e) = n - 1 /\ (\A i \in 1 .. n - 1 : e[i] = ch.eventCH[i + 1]) /\ o = ch.eventCH[1]
    BY <1>1, <1>2, <1>3
  <1>5. o = Routed + 1 /\ o \in 1 .. Len(topic)
    <2>1. 1 \in 1 .. n
      BY <1>4
    <2>2. o = Routed + 1
      BY <1>3, <1>4, <2>1 DEF EventsOK
    <2> QED
      BY <1>1, <1>3, <1>4, <2>2
  <1>6. topic[o] \in Responses /\ topic[o].kind \in {"broadcast", "room", "replay"}
    <2>1. topic[o] \in Responses
      BY <1>5 DEF DataOK
    <2> QED
      BY <2>1 DEF Responses
  <1>7. o \in Msgs => worker[o].ph = "idle"
    <2>1. ASSUME o \in Msgs PROVE worker[o].ph = "idle"
      <3>1. ~IsRouted(o, "broadcast") /\ ~IsRouted(o, "room")
        BY <1>1, <1>5 DEF IsRouted
      <3>2. worker[o].as \in {"none", "broadcast", "room", "replay"} /\ RoleOK(o, worker[o])
        BY <2>1 DEF DataOK, Goroutines, WorkersOK, WorkerOK
      <3> QED
        BY <3>1, <3>2 DEF RoleOK
    <2> QED
      BY <2>1
  <1>8. /\ Append(ch.broadcastCH, o) \in Seq(Nat) /\ Append(ch.roomMsgCH, o) \in Seq(Nat)
        /\ Append(ch.replayMsgCH, o) \in Seq(Nat)
    BY <1>1 DEF Channels
  <1>9. /\ ch' \in Channels /\ ch'.eventCH = e
        /\ ch'.broadcastCH = IF topic[o].kind = "broadcast" THEN Append(ch.broadcastCH, o) ELSE ch.broadcastCH
        /\ ch'.roomMsgCH = IF topic[o].kind = "room" THEN Append(ch.roomMsgCH, o) ELSE ch.roomMsgCH
    <2>1. ch' = [ch EXCEPT !.eventCH = e, ![ChannelOf(topic[o].kind)] = Append(@, o)]
      BY <1>3 DEF Route
    <2>2. CASE topic[o].kind = "broadcast"
      <3>1. ChannelOf(topic[o].kind) = "broadcastCH"
        BY <2>2 DEF ChannelOf
      <3> QED
        BY <1>1, <1>3, <1>8, <2>1, <2>2, <3>1 DEF Channels
    <2>3. CASE topic[o].kind = "room"
      <3>1. ChannelOf(topic[o].kind) = "roomMsgCH"
        BY <2>3 DEF ChannelOf
      <3> QED
        BY <1>1, <1>3, <1>8, <2>1, <2>3, <3>1 DEF Channels
    <2>4. CASE topic[o].kind = "replay"
      <3>1. ChannelOf(topic[o].kind) = "replayMsgCH"
        BY <2>4 DEF ChannelOf
      <3> QED
        BY <1>1, <1>3, <1>8, <2>1, <2>4, <3>1 DEF Channels
    <2> QED
      BY <1>6, <2>2, <2>3, <2>4
  <1>10. Routed' = Routed + 1
    <2>1. Routed' = readPos' - Len(ch'.eventCH)
      BY DEF Routed
    <2>2. readPos' = readPos /\ Len(ch'.eventCH) = n - 1
      BY <1>2, <1>4, <1>9
    <2>3. readPos = Routed + n /\ Routed \in Nat /\ n \in Nat
      BY <1>1, <1>3
    <2>4. Routed' = (Routed + n) - (n - 1)
      BY <2>1, <2>2, <2>3
    <2> QED
      BY <2>3, <2>4
  <1>11. Forward
    BY <1>1, <1>2, <1>10 DEF Forward, Stable, DataOK
  <1>12. DataOK'
    BY <1>2, <1>9 DEF DataOK
  <1>13. EventsOK'
    <2>1. ASSUME NEW i \in 1 .. n - 1 PROVE e[i] = Routed + 1 + i
      <3>1. i + 1 \in 1 .. n
        BY <1>4
      <3>2. ch.eventCH[i + 1] = Routed + (i + 1)
        BY <1>3, <3>1 DEF EventsOK
      <3> QED
        BY <1>1, <1>4, <3>2
    <2> QED
      BY <1>1, <1>4, <1>9, <1>10, <2>1 DEF EventsOK
  <1>14. QueuesOK'
    <2>1. PICK b \in Seq(Nat), r \in Seq(Nat) : b = ch.broadcastCH /\ r = ch.roomMsgCH
      BY <1>1 DEF Channels
    <2>2. QueueOK(b, "broadcast") /\ QueueOK(r, "room")
      BY <2>1 DEF QueuesOK
    <2>3. QueueOK(b, "broadcast")' /\ QueueOK(r, "room")'
      BY <1>2, <1>11, <2>2, QueueStays DEF QueueOK
    <2>4. \A kind : topic[o].kind = kind => IsRouted(o, kind)'
      BY <1>1, <1>2, <1>5, <1>10 DEF IsRouted
    <2>5. topic[o].kind = "broadcast" => QueueOK(Append(b, o), "broadcast")'
      BY <1>2, <1>5, <1>7, <1>11, <2>2, <2>4, QueueAppend
    <2>6. topic[o].kind = "room" => QueueOK(Append(r, o), "room")'
      BY <1>2, <1>5, <1>7, <1>11, <2>2, <2>4, QueueAppend
    <2>7. /\ ch'.broadcastCH = IF topic[o].kind = "broadcast" THEN Append(b, o) ELSE b
          /\ ch'.roomMsgCH = IF topic[o].kind = "room" THEN Append(r, o) ELSE r
      BY <1>9, <2>1
    <2>8. QueueOK(ch.broadcastCH, "broadcast")'
      BY <2>3, <2>5, <2>7 DEF QueueOK, IsRouted
    <2>9. QueueOK(ch.roomMsgCH, "room")'
      BY <2>3, <2>6, <2>7 DEF QueueOK, IsRouted
    <2> QED
      BY <2>8, <2>9 DEF QueuesOK
  <1>15. WorkersOK' /\ SentOK'
    <2>1. WorkersOK'
      BY <1>2, <1>11, WorkerKept DEF WorkersOK
    <2>2. SentOK'
      BY <1>2, <1>11, SentStays DEF SentOK
    <2> QED
      BY <2>1, <2>2
  <1>16. MembersJoined'
    BY <1>2 DEF MembersJoined
  <1>17. BuffersOK'
    BY <1>2, <1>11, BufferStays DEF BuffersOK
  <1> QED
    BY <1>12, <1>13, <1>14, <1>15, <1>16, <1>17


-----------------------------------------------------------------------------
(***************************************************************************)
(* The accept loop changes its maps                                        *)
(***************************************************************************)
LEMMA MapStep ==
  ASSUME ChatInv, MessagesKept, UNCHANGED << topic, readPos, worker, sent >>,
         clients' \in [Clients -> Entry], rooms' \in [Rooms -> RoomStates],
         joined' \in [Rooms -> SUBSET Clients], \A r \in Rooms : joined[r] \subseteq joined'[r],
         \A r \in Rooms, c \in Clients : rooms'[r].clients[c] # "abs" => c \in joined'[r],
         \A r \in Rooms : rooms'[r].msgBuffer \in {rooms[r].msgBuffer, NewRingBuffer}
  PROVE  ChatInv'
  <1> USE DEF ChatInv
  <1>1. Routed' = Routed /\ ch'.eventCH = ch.eventCH
    BY DEF Routed, MessagesKept
  <1>2. Len(topic) \in Nat /\ Routed \in Nat
    BY RoutedFacts
  <1>3. Forward
    BY <1>1, <1>2 DEF Forward, Stable, DataOK
  <1>4. DataOK' /\ MembersJoined' /\ EventsOK'
    BY <1>1 DEF DataOK, MessagesKept, MembersJoined, EventsOK
  <1>5. QueuesOK' /\ WorkersOK' /\ SentOK'
    BY <1>3, QuietStep DEF MessagesKept
  <1>6. BuffersOK'
    <2>1. ASSUME NEW r \in Rooms PROVE BufferOK(r)'
      <3>1. CASE rooms'[r].msgBuffer = rooms[r].msgBuffer
        BY <1>3, <3>1, BufferStays DEF BuffersOK
      <3>2. CASE rooms'[r].msgBuffer = NewRingBuffer
        <4>1. RingOK(NewRingBuffer) /\ \A s \in Slots : NewRingBuffer.buffer[s] = NoMsg
          BY EmptyRing DEF NewRingBuffer
        <4>2. PICK rb : rb = NewRingBuffer
          OBVIOUS
        <4> QED
          BY <3>2, <4>1, <4>2 DEF BufferOK
      <3> QED
        BY <3>1, <3>2
    <2> QED
      BY <2>1 DEF BuffersOK
  <1> QED
    BY <1>4, <1>5, <1>6

Updated(room, c, p, n) == [room EXCEPT !.clients[c] = p, !.clientsCount = n]

LEMMA RoomUpdate ==
  ASSUME NEW room \in RoomStates, NEW c \in Clients, NEW p \in Entry, NEW n \in Int
  PROVE  /\ Updated(room, c, p, n) \in RoomStates
         /\ Updated(room, c, p, n).msgBuffer = room.msgBuffer
         /\ Updated(room, c, p, n).clients[c] = p
         /\ \A d \in Clients : d # c => Updated(room, c, p, n).clients[d] = room.clients[d]
  <1>1. PICK es \in [Clients -> Entry] : es = [room.clients EXCEPT ![c] = p]
    <2>1. room.clients \in [Clients -> Entry]
      BY DEF RoomStates
    <2>2. [room.clients EXCEPT ![c] = p] \in [Clients -> Entry]
      BY <2>1
    <2> QED
      BY <2>2
  <1>2. es[c] = p /\ \A d \in Clients : d # c => es[d] = room.clients[d]
    BY <1>1 DEF RoomStates
  <1>3. Updated(room, c, p, n) = [room EXCEPT !.clients = es, !.clientsCount = n]
    BY <1>1 DEF Updated
  <1>4. /\ Updated(room, c, p, n) \in RoomStates
        /\ Updated(room, c, p, n).msgBuffer = room.msgBuffer /\ Updated(room, c, p, n).clients = es
    BY <1>3 DEF RoomStates
  <1> QED
    BY <1>2, <1>4

LEMMA LoopStep ==
  ASSUME ChatInv, JoinServer \/ LeaveServer \/ JoinRoom \/ LeaveRoom
  PROVE  ChatInv'
  <1> USE DEF ChatInv, loopVars, kafkaVars
  <1>1. /\ ch \in Channels /\ clients \in [Clients -> Entry] /\ rooms \in [Rooms -> RoomStates]
        /\ joined \in [Rooms -> SUBSET Clients]
    BY DEF DataOK
  <1>2. MessagesKept /\ UNCHANGED << topic, readPos, worker, sent >>
    BY <1>1, TakeClient DEF JoinServer, LeaveServer, JoinRoom, LeaveRoom
  <1>3. \A r \in Rooms, c \in Clients : rooms[r].clients[c] # "abs" => c \in joined[r]
    BY DEF MembersJoined
  <1>4. {"abs", "live", "nil"} = Entry
    BY DEF Entry
  <1>5. CASE JoinServer
    <2>1. ch.joinServerCH \in Seq(Clients) /\ ch.joinServerCH # << >>
      BY <1>1, <1>5 DEF JoinServer, Take, Channels
    <2>2. PICK c \in Clients : c = Head(ch.joinServerCH)
      BY <2>1
    <2>3. clients' = [clients EXCEPT ![c] = "live"] /\ UNCHANGED << rooms, joined >>
      BY <1>5, <2>2 DEF JoinServer
    <2>4. clients' \in [Clients -> Entry]
      BY <1>1, <1>4, <2>3
    <2> QED
      BY <1>1, <1>2, <1>3, <2>3, <2>4, MapStep
  <1>6. CASE LeaveServer
    <2>1. ch.leaveServerCH \in Seq(Clients) /\ ch.leaveServerCH # << >>
      BY <1>1, <1>6 DEF LeaveServer, Take, Channels
    <2>2. PICK c \in Clients : c = Head(ch.leaveServerCH)
      BY <2>1
    <2>3. /\ clients' = [clients EXCEPT ![c] = "abs"] /\ UNCHANGED joined
          /\ rooms' = [r \in Rooms |-> [rooms[r] EXCEPT !.clients[c] = "abs"]]
      BY <1>6, <2>2 DEF LeaveServer
    <2>4. clients' \in [Clients -> Entry]
      BY <1>1, <1>4, <2>3
    <2>5. ASSUME NEW r \in Rooms
          PROVE  /\ rooms'[r] \in RoomStates /\ rooms'[r].msgBuffer = rooms[r].msgBuffer
                 /\ \A d \in Clients : rooms'[r].clients[d] # "abs" => rooms[r].clients[d] # "abs"
      <3>1. rooms'[r] = [rooms[r] EXCEPT !.clients[c] = "abs"] /\ rooms[r] \in RoomStates
        BY <1>1, <2>3
      <3> QED
        BY <1>4, <3>1 DEF RoomStates
    <2>6. rooms' \in [Rooms -> RoomStates]
      BY <2>3, <2>5
    <2> QED
      BY <1>1, <1>2, <1>3, <2>3, <2>4, <2>5, <2>6, MapStep
  <1>7. CASE JoinRoom
    <2>1. ch.roomJoinCH \in Seq(RoomRequests) /\ ch.roomJoinCH # << >>
      BY <1>1, <1>7 DEF JoinRoom, Take, Channels
    <2>2. PICK q \in RoomRequests : q = Head(ch.roomJoinCH)
      BY <2>1
    <2>3. PICK c \in Clients, r \in Rooms : c = q.client /\ r = q.room
      BY DEF RoomRequests
    <2>4. PICK p \in Entry : p = IF clients[c] = "live" THEN "live" ELSE "nil"
      BY <1>4
    <2>5. PICK room \in RoomStates :
            /\ room = IF rooms[r].exists THEN rooms[r] ELSE NewRoom
            /\ room.msgBuffer \in {rooms[r].msgBuffer, NewRingBuffer}
            /\ \A d \in Clients : room.clients[d] # "abs" => rooms[r].clients[d] # "abs"
      <3>1. NewRoom \in RoomStates /\ NewRoom.msgBuffer = NewRingBuffer
            /\ \A d \in Clients : NewRoom.clients[d] = "abs"
        BY <1>4, EmptyRing DEF NewRoom, RoomStates
      <3> QED
        BY <1>1, <3>1
    <2>6. PICK new : new = Updated(room, c, p, room.clientsCount + 1)
      OBVIOUS
    <2>7. /\ new \in RoomStates /\ new.msgBuffer = room.msgBuffer
          /\ \A d \in Clients : d # c => new.clients[d] = room.clients[d]
      <3>1. room.clientsCount + 1 \in Int
        BY DEF RoomStates
      <3> QED
        BY <2>6, <3>1, RoomUpdate
    <2>8. /\ clients' = [clients EXCEPT ![c] = p]
          /\ rooms' = [rooms EXCEPT ![r] = new]
          /\ joined' = [joined EXCEPT ![r] = @ \cup {c}]
      BY <1>7, <2>2, <2>3, <2>4, <2>5, <2>6 DEF JoinRoom, Updated
    <2>9. clients' \in [Clients -> Entry] /\ rooms' \in [Rooms -> RoomStates]
          /\ joined' \in [Rooms -> SUBSET Clients]
      BY <1>1, <2>7, <2>8
    <2>10. \A x \in Rooms : joined[x] \subseteq joined'[x]
                            /\ rooms'[x].msgBuffer \in {rooms[x].msgBuffer, NewRingBuffer}
      BY <1>1, <2>5, <2>7, <2>8
    <2>11. \A x \in Rooms, d \in Clients : rooms'[x].clients[d] # "abs" => d \in joined'[x]
      BY <1>1, <1>3, <2>5, <2>7, <2>8
    <2> QED
      BY <1>2, <2>9, <2>10, <2>11, MapStep
  <1>8. CASE LeaveRoom
    <2>1. ch.roomLeaveCH \in Seq(RoomRequests) /\ ch.roomLeaveCH # << >>
      BY <1>1, <1>8 DEF LeaveRoom, Take, Channels
    <2>2. PICK q \in RoomRequests : q = Head(ch.roomLeaveCH)
      BY <2>1
    <2>3. PICK c \in Clients, r \in Rooms : c = q.client /\ r = q.room
      BY DEF RoomRequests
    <2>4. rooms[r] \in RoomStates
      BY <1>1
    <2>5. PICK new : new = Updated(rooms[r], c, "abs", rooms[r].clientsCount - 1)
      OBVIOUS
    <2>6. /\ new \in RoomStates /\ new.msgBuffer = rooms[r].msgBuffer
          /\ \A d \in Clients : new.clients[d] # "abs" => rooms[r].clients[d] # "abs"
      <3>1. "abs" \in Entry /\ rooms[r].clientsCount - 1 \in Int
        BY <1>4, <2>4 DEF RoomStates
      <3> QED
        BY <2>4, <2>5, <3>1, RoomUpdate
    <2>7. rooms' = rooms \/ rooms' = [rooms EXCEPT ![r] = new]
      BY <1>1, <1>8, <2>2, <2>3, <2>5 DEF LeaveRoom, Updated
    <2>8. UNCHANGED << clients, joined >>
      BY <1>8 DEF LeaveRoom
    <2>9. rooms' \in [Rooms -> RoomStates] /\ \A x \in Rooms : rooms'[x].msgBuffer = rooms[x].msgBuffer
      BY <1>1, <2>6, <2>7
    <2>10. \A x \in Rooms, d \in Clients : rooms'[x].clients[d] # "abs" => d \in joined'[x]
      BY <1>1, <1>3, <2>6, <2>7, <2>8
    <2> QED
      BY <1>1, <1>2, <2>8, <2>9, <2>10, MapStep
  <1> QED
    BY <1>5, <1>6, <1>7, <1>8


-----------------------------------------------------------------------------
(***************************************************************************)
(* The sending goroutines                                                  *)
(***************************************************************************)
LEMMA OrderFacts ==
  ASSUME NEW S \in SUBSET Clients, S # {}, NEW f \in SetToSeqs(S)
  PROVE  /\ f \in Seq(Clients) /\ f # << >>
         /\ \A i \in 1 .. Len(f) : f[i] \in S
         /\ \A i, j \in 1 .. Len(f) : f[i] = f[j] => i = j
  <1>1. IsFiniteSet(S)
    BY BoundsAssumption, FS_Subset
  <1>2. PICK n \in Nat : n = Cardinality(S) /\ n # 0
    BY <1>1, FS_CardinalityType, FS_EmptySet
  <1>3. f \in [1 .. n -> S] /\ \A i, j \in 1 .. n : i # j => f[i] # f[j]
    BY <1>2 DEF SetToSeqs
  <1>4. f \in Seq(Clients) /\ Len(f) = n
    <2>1. f \in [1 .. n -> Clients]
      BY <1>3
    <2>2. f \in Seq(Clients) /\ DOMAIN f = 1 .. n
      BY <1>2, <2>1
    <2> QED
      BY <1>2, <2>2, LenProperties
  <1> QED
    BY <1>2, <1>3, <1>4

LEMMA EndedFacts ==
  ASSUME NEW o \in Msgs, NEW w \in Goroutines, w.ph # "idle", WorkerOK(o, w)
  PROVE  /\ Ended(w) \in Goroutines /\ Ended(w).ph = "done" /\ Ended(w).as = w.as
         /\ WorkerOK(o, Ended(w))
  <1>1. /\ Ended(w) \in Goroutines /\ Ended(w).ph = "done" /\ Ended(w).as = w.as
        /\ Ended(w).seen = {}
    <2>1. << >> \in Seq(Nat) /\ << >> \in Seq(Clients)
      OBVIOUS
    <2>2. Idle \in Goroutines /\ Idle.seen = {}
      BY <2>1 DEF Idle, Goroutines
    <2>3. w.as \in {"none", "broadcast", "room", "replay"}
      BY DEF Goroutines
    <2>4. PICK idle \in Goroutines : idle = Idle /\ idle.seen = {}
      BY <2>2
    <2>5. Ended(w) = [idle EXCEPT !.ph = "done", !.as = w.as]
      BY <2>4 DEF Ended
    <2> QED
      BY <2>3, <2>4, <2>5 DEF Goroutines
  <1>2. RoleOK(o, Ended(w))
    BY <1>1 DEF WorkerOK, RoleOK, Busy
  <1> QED
    BY <1>1, <1>2 DEF WorkerOK, OutOK, TodoOK, Busy

\* One goroutine moves on; nothing else does but what it sends and, perhaps, the
\* buffer of a room.
LEMMA GoroutineStep ==
  ASSUME ChatInv, NEW o \in Msgs, NEW w \in Goroutines, worker' = [worker EXCEPT ![o] = w],
         worker[o].ph # "idle", WorkerOK(o, w), UNCHANGED << topic, readPos, ch, clients, joined >>,
         sent' \in [Clients -> Seq(Nat)], rooms' \in [Rooms -> RoomStates],
         \A r \in Rooms : rooms'[r].clients = rooms[r].clients
  PROVE  /\ Forward /\ DataOK' /\ MembersJoined' /\ EventsOK' /\ QueuesOK' /\ WorkersOK'
         /\ \A x \in Msgs : worker'[x] = IF x = o THEN w ELSE worker[x]
  <1> USE DEF ChatInv
  <1>1. worker \in [Msgs -> Goroutines] /\ Len(topic) \in Nat /\ Routed \in Nat
    BY RoutedFacts DEF DataOK
  <1>2. \A x \in Msgs : worker'[x] = IF x = o THEN w ELSE worker[x]
    BY <1>1
  <1>3. Routed' = Routed
    BY DEF Routed
  <1>4. Forward
    BY <1>1, <1>3 DEF Forward, Stable, DataOK
  <1>5. DataOK' /\ MembersJoined' /\ EventsOK'
    <2>1. worker' \in [Msgs -> Goroutines]
      BY <1>1
    <2>2. DataOK'
      BY <2>1 DEF DataOK
    <2>3. MembersJoined'
      BY DEF MembersJoined
    <2> QED
      BY <1>3, <2>2, <2>3 DEF EventsOK
  <1>6. QueuesOK'
    <2>1. PICK b, r : /\ b = ch.broadcastCH /\ b = ch'.broadcastCH
                      /\ r = ch.roomMsgCH /\ r = ch'.roomMsgCH
      OBVIOUS
    <2>2. QueueOK(b, "broadcast") /\ QueueOK(r, "room")
      BY <2>1 DEF QueuesOK
    <2>3. ASSUME NEW q, NEW kind, QueueOK(q, kind) PROVE QueueOK(q, kind)'
      <3>1. ASSUME NEW i \in 1 .. Len(q), q[i] \in Msgs PROVE worker'[q[i]].ph = "idle"
        <4>1. worker[q[i]].ph = "idle"
          BY <2>3, <3>1 DEF QueueOK
        <4>2. q[i] # o
          BY <4>1
        <4> QED
          BY <1>2, <3>1, <4>1, <4>2
      <3> QED
        BY <1>4, <2>3, <3>1, QueueStays
    <2>4. QueueOK(b, "broadcast")' /\ QueueOK(r, "room")'
      BY <2>2, <2>3
    <2> QED
      BY <2>1, <2>4 DEF QueuesOK, QueueOK, IsRouted
  <1>7. WorkersOK'
    <2>1. ASSUME NEW x \in Msgs, x # o PROVE WorkerOK(x, worker[x])'
      BY <1>2, <1>4, <2>1, WorkerKept DEF WorkersOK
    <2>2. WorkerOK(o, worker[o])'
      <3>1. WorkerOK(o, w)'
        BY <1>4, WorkerStays
      <3>2. worker'[o] = w
        BY <1>2
      <3> QED
        BY <3>1, <3>2 DEF WorkerOK, RoleOK, OutOK, TodoOK, IsRouted
    <2> QED
      BY <2>1, <2>2 DEF WorkersOK
  <1> QED
    BY <1>2, <1>4, <1>5, <1>6, <1>7

\* A goroutine that has not sent yet, or goes on without sending.
LEMMA SilentStep ==
  ASSUME ChatInv, NEW o \in Msgs, NEW w \in Goroutines, worker' = [worker EXCEPT ![o] = w],
         worker[o].ph \in {"spawn", "collect"}, WorkerOK(o, w),
         UNCHANGED << topic, readPos, ch, clients, joined, sent >>,
         rooms' \in [Rooms -> RoomStates], \A r \in Rooms : rooms'[r].clients = rooms[r].clients,
         \A r \in Rooms : rooms'[r].msgBuffer # rooms[r].msgBuffer => BufferOK(r)'
  PROVE  ChatInv'
  <1> USE DEF ChatInv
  <1>1. worker[o].ph # "idle" /\ sent \in [Clients -> Seq(Nat)]
    BY DEF DataOK
  <1>2. /\ Forward /\ DataOK' /\ MembersJoined' /\ EventsOK' /\ QueuesOK' /\ WorkersOK'
        /\ \A x \in Msgs : worker'[x] = IF x = o THEN w ELSE worker[x]
    BY <1>1, GoroutineStep
  <1>3. SentOK'
    <2>1. \A c : ~Passed(worker[o], c)
      BY DEF Passed
    <2>2. \A c, m : m \in Msgs /\ Passed(worker[m], c) => Passed(worker'[m], c)
      BY <1>2, <2>1
    <2> QED
      BY <1>2, <2>2, SentStays DEF SentOK
  <1>4. BuffersOK'
    <2>1. ASSUME NEW r \in Rooms, rooms'[r].msgBuffer = rooms[r].msgBuffer PROVE BufferOK(r)'
      BY <1>2, <2>1, BufferStays DEF BuffersOK
    <2> QED
      BY <2>1 DEF BuffersOK
  <1> QED
    BY <1>2, <1>3, <1>4


Collecting(v, out, must) == [v EXCEPT !.ph = "collect", !.out = out, !.must = must]

LEMMA CollectingFacts ==
  ASSUME NEW v \in Goroutines, NEW out \in Seq(Nat), NEW must \in SUBSET Clients
  PROVE  LET w == Collecting(v, out, must)
         IN  w \in Goroutines /\ w.ph = "collect" /\ w.as = v.as /\ w.seen = v.seen /\ w.out = out
  BY DEF Collecting, Goroutines

LEMMA BeginStep ==
  ASSUME ChatInv, NEW o \in Msgs, BeginSend(o)
  PROVE  ChatInv'
  <1> USE DEF ChatInv
  <1>1. /\ worker[o].ph = "spawn" /\ UNCHANGED << topic, readPos, ch, clients, rooms, joined, sent >>
        /\ worker[o] \in Goroutines /\ worker \in [Msgs -> Goroutines] /\ rooms \in [Rooms -> RoomStates]
        /\ WorkerOK(o, worker[o])
    BY DEF BeginSend, workerKeeps, kafkaVars, mapVars, DataOK, WorkersOK
  <1>2. ASSUME NEW w \in Goroutines, WorkerOK(o, w), worker' = [worker EXCEPT ![o] = w]
        PROVE  ChatInv'
    BY <1>1, <1>2, SilentStep
  <1>3. PICK must \in SUBSET Clients : must = Keys(Receivers(o))
    BY DEF Keys
  <1>4. CASE worker' = [worker EXCEPT ![o] = Ended(@)]
    BY <1>1, <1>2, <1>4, EndedFacts
  <1>5. ASSUME NEW out \in Seq(Nat), OutOK(o, Collecting(worker[o], out, must)),
               worker' = [worker EXCEPT ![o].ph = "collect", ![o].out = out, ![o].must = must]
        PROVE  ChatInv'
    <2>1. PICK w : w = Collecting(worker[o], out, must)
      OBVIOUS
    <2>2. w \in Goroutines /\ w.ph = "collect" /\ w.as = worker[o].as /\ w.seen = worker[o].seen
      BY <1>1, <2>1, CollectingFacts
    <2>3. worker' = [worker EXCEPT ![o] = w]
      BY <1>1, <1>5, <2>1 DEF Collecting
    <2>4. RoleOK(o, w) /\ TodoOK(o, w)
      BY <1>1, <2>2 DEF WorkerOK, RoleOK, TodoOK, Busy
    <2> QED
      BY <1>2, <1>5, <2>1, <2>2, <2>3, <2>4 DEF WorkerOK
  <1>6. CASE worker[o].as # "replay" /\ worker' = [worker EXCEPT ![o].ph = "collect", ![o].out = << o >>, ![o].must = must]
    <2>1. << o >> \in Seq(Nat)
      BY BoundsAssumption DEF Msgs
    <2>2. OutOK(o, Collecting(worker[o], << o >>, must))
      BY <1>1, <1>6, <2>1, CollectingFacts DEF OutOK
    <2> QED
      BY <1>5, <1>6, <2>1, <2>2
  <1>7. CASE /\ worker[o].as = "replay"
             /\ worker' = [worker EXCEPT ![o].ph = "collect",
                             ![o].out = GetFromOffset(RoomOf(o).msgBuffer, o), ![o].must = must]
    <2>1. IsRouted(o, "room")
      BY <1>1, <1>7 DEF WorkerOK, RoleOK
    <2>2. PICK r \in Rooms : r = topic[o].room
      BY <2>1, RoutedFacts DEF IsRouted, Responses
    <2>3. PICK rb : rb = rooms[r].msgBuffer
      OBVIOUS
    <2>4. rb \in Buffers /\ RingOK(rb) /\ \A s \in Slots : rb.buffer[s] # NoMsg => StoredOK(r, rb.buffer[s])
      BY <1>1, <2>3 DEF RoomStates, BuffersOK, BufferOK
    <2>5. PICK out : out = GetFromOffset(rb, o)
      OBVIOUS
    <2>6. \A i \in 1 .. Len(out) : StoredOK(r, out[i])
      <3>1. o \in Nat
        BY BoundsAssumption DEF Msgs
      <3> QED
        BY <2>4, <2>5, <3>1, ReplayFacts
    <2>7. out \in Seq(Nat)
      <3>1. CASE out = << >>
        BY <3>1
      <3>2. CASE out = << Nth(rb, rb.count - 1) >>
        <4>1. PICK x : x = Nth(rb, rb.count - 1)
          OBVIOUS
        <4>2. StoredOK(r, x)
          BY <2>6, <3>2, <4>1
        <4>3. x \in Nat
          BY <4>2, BoundsAssumption DEF StoredOK, Msgs
        <4> QED
          BY <3>2, <4>1, <4>3
      <3> QED
        BY <2>5, <3>1, <3>2 DEF GetFromOffset
    <2>8. OutOK(o, Collecting(worker[o], out, must))
      <3>1. PICK w : w = Collecting(worker[o], out, must) /\ w.out = out /\ w.as = "replay"
        BY <1>1, <1>7, <2>7, CollectingFacts
      <3>2. OutOK(o, w)
        BY <2>2, <2>6, <3>1 DEF OutOK, StoredOK
      <3> QED
        BY <3>1, <3>2
    <2>9. worker' = [worker EXCEPT ![o].ph = "collect", ![o].out = out, ![o].must = must]
      BY <1>7, <2>2, <2>3, <2>5 DEF RoomOf
    <2> QED
      BY <1>5, <2>7, <2>8, <2>9
  <1> QED
    BY <1>3, <1>4, <1>6, <1>7 DEF BeginSend


Visiting(v, c, nils) == [v EXCEPT !.seen = @ \cup {c}, !.nils = nils]

LEMMA VisitingFacts ==
  ASSUME NEW v \in Goroutines, NEW c \in Clients, NEW nils \in SUBSET Clients
  PROVE  LET w == Visiting(v, c, nils)
         IN  /\ w \in Goroutines /\ w.ph = v.ph /\ w.as = v.as /\ w.seen = v.seen \cup {c}
             /\ w.out = v.out
  <1>1. PICK seen \in SUBSET Clients : seen = v.seen \cup {c}
    BY DEF Goroutines
  <1>2. Visiting(v, c, nils) = [v EXCEPT !.seen = seen, !.nils = nils]
    BY <1>1 DEF Visiting
  <1> QED
    BY <1>1, <1>2 DEF Goroutines

LEMMA VisitStep ==
  ASSUME ChatInv, NEW o \in Msgs, NEW c \in Clients, Visit(o, c)
  PROVE  ChatInv'
  <1> USE DEF ChatInv
  <1>1. /\ worker[o].ph = "collect" /\ UNCHANGED << topic, readPos, ch, clients, rooms, joined, sent >>
        /\ worker[o] \in Goroutines /\ worker \in [Msgs -> Goroutines] /\ rooms \in [Rooms -> RoomStates]
        /\ WorkerOK(o, worker[o])
    BY DEF Visit, workerKeeps, kafkaVars, mapVars, DataOK, WorkersOK
  <1>2. PICK nils \in SUBSET Clients :
          nils = IF Receivers(o)[c] = "nil" THEN worker[o].nils \cup {c} ELSE worker[o].nils
    BY <1>1 DEF Goroutines
  <1>3. PICK w : w = Visiting(worker[o], c, nils)
    OBVIOUS
  <1>4. /\ w \in Goroutines /\ w.ph = "collect" /\ w.as = worker[o].as
        /\ w.seen = worker[o].seen \cup {c} /\ w.out = worker[o].out
    BY <1>1, <1>3, VisitingFacts
  <1>5. worker' = [worker EXCEPT ![o] = w]
    BY <1>1, <1>2, <1>3 DEF Visit, Visiting
  <1>6. w.as \in {"room", "replay"} => c \in joined[topic[o].room]
    <2>1. SUFFICES ASSUME w.as \in {"room", "replay"} PROVE c \in joined[topic[o].room]
      OBVIOUS
    <2>2. IsRouted(o, "room")
      BY <1>1, <1>4, <2>1 DEF WorkerOK, RoleOK
    <2>3. topic[o].room \in Rooms
      BY <2>2, RoutedFacts DEF IsRouted, Responses
    <2>4. rooms[topic[o].room].clients[c] # "abs"
      BY <1>4, <2>1 DEF Visit, Keys, Receivers, RoomOf
    <2> QED
      BY <2>3, <2>4 DEF MembersJoined
  <1>7. WorkerOK(o, w)
    <2>1. RoleOK(o, w)
      BY <1>1, <1>4, <1>6 DEF WorkerOK, RoleOK, Busy
    <2>2. OutOK(o, w)
      BY <1>1, <1>4 DEF WorkerOK, OutOK, Busy
    <2> QED
      BY <1>4, <2>1, <2>2 DEF WorkerOK, TodoOK
  <1> QED
    BY <1>1, <1>4, <1>5, <1>7, SilentStep

Sending(v, order) == [v EXCEPT !.ph = "send", !.must = {}, !.todo = order]

LEMMA SendingFacts ==
  ASSUME NEW v \in Goroutines, NEW order \in Seq(Clients)
  PROVE  LET w == Sending(v, order)
         IN  /\ w \in Goroutines /\ w.ph = "send" /\ w.as = v.as /\ w.seen = v.seen /\ w.out = v.out
             /\ w.todo = order
  BY DEF Sending, Goroutines

LEMMA TargetsFacts ==
  ASSUME NEW o, worker[o] \in Goroutines
  PROVE  /\ Targets(o) \in SUBSET Clients /\ Targets(o) \subseteq worker[o].seen
         /\ worker[o].as # "replay" => topic[o].client \notin Targets(o)
  BY DEF Targets, Goroutines

LEMMA CollectStep ==
  ASSUME ChatInv, NEW o \in Msgs, EndCollect(o)
  PROVE  ChatInv'
  <1> USE DEF ChatInv
  <1>1. /\ worker[o].ph = "collect" /\ UNCHANGED << topic, readPos, ch, clients, joined, sent >>
        /\ worker[o] \in Goroutines /\ worker \in [Msgs -> Goroutines] /\ rooms \in [Rooms -> RoomStates]
        /\ WorkerOK(o, worker[o])
    BY DEF EndCollect, IterationMayEnd, workerKeeps, kafkaVars, DataOK, WorkersOK
  <1>2. PICK w \in Goroutines : /\ worker' = [worker EXCEPT ![o] = w] /\ WorkerOK(o, w)
                                 /\ w.as = worker[o].as /\ w.ph \in {"send", "done"}
    <2>1. CASE worker' = [worker EXCEPT ![o] = Ended(@)]
      <3>1. PICK w : w = Ended(worker[o])
        OBVIOUS
      <3>2. w \in Goroutines /\ w.ph = "done" /\ w.as = worker[o].as /\ WorkerOK(o, w)
        BY <1>1, <3>1, EndedFacts
      <3>3. worker' = [worker EXCEPT ![o] = w]
        BY <2>1, <3>1
      <3> QED
        BY <3>2, <3>3
    <2>2. ASSUME Targets(o) # {}, worker[o].out # << >>, NEW order \in SetToSeqs(Targets(o)),
                 worker' = [worker EXCEPT ![o].ph = "send", ![o].must = {}, ![o].todo = order]
          PROVE  \E w \in Goroutines : /\ worker' = [worker EXCEPT ![o] = w] /\ WorkerOK(o, w)
                                        /\ w.as = worker[o].as /\ w.ph \in {"send", "done"}
      <3>1. PICK S \in SUBSET Clients :
              /\ S = Targets(o) /\ S # {} /\ S \subseteq worker[o].seen
              /\ worker[o].as # "replay" => topic[o].client \notin S
        BY <1>1, <2>2, TargetsFacts
      <3>2. /\ order \in Seq(Clients) /\ order # << >>
            /\ \A i \in 1 .. Len(order) : order[i] \in S
            /\ \A i, j \in 1 .. Len(order) : order[i] = order[j] => i = j
        BY <2>2, <3>1, OrderFacts
      <3>3. PICK w : w = Sending(worker[o], order)
        OBVIOUS
      <3>4. /\ w \in Goroutines /\ w.ph = "send" /\ w.as = worker[o].as /\ w.seen = worker[o].seen
            /\ w.out = worker[o].out /\ w.todo = order
        BY <1>1, <3>2, <3>3, SendingFacts
      <3>5. worker' = [worker EXCEPT ![o] = w]
        BY <1>1, <2>2, <3>3 DEF Sending
      <3>6. RoleOK(o, w)
        BY <1>1, <3>4 DEF WorkerOK, RoleOK, Busy
      <3>7. OutOK(o, w)
        BY <1>1, <3>4 DEF WorkerOK, OutOK, Busy
      <3>8. TodoOK(o, w)
        BY <2>2, <3>1, <3>2, <3>4 DEF TodoOK
      <3> QED
        BY <3>4, <3>5, <3>6, <3>7, <3>8 DEF WorkerOK
    <2> QED
      BY <2>1, <2>2 DEF EndCollect
  <1>3. CASE worker[o].as # "room"
    <2>1. rooms' = rooms
      BY <1>3 DEF EndCollect
    <2> QED
      BY <1>1, <1>2, <2>1, SilentStep
  <1>4. CASE worker[o].as = "room"
    <2>1. IsRouted(o, "room")
      BY <1>1, <1>4 DEF WorkerOK, RoleOK
    <2>2. PICK r \in Rooms : r = topic[o].room
      BY <2>1, RoutedFacts DEF IsRouted, Responses
    <2>3. PICK rb : rb = rooms[r].msgBuffer
      OBVIOUS
    <2>4. rb \in Buffers /\ RingOK(rb) /\ \A s \in Slots : rb.buffer[s] # NoMsg => StoredOK(r, rb.buffer[s])
      BY <1>1, <2>3 DEF RoomStates, BuffersOK, BufferOK
    <2>5. o \in Nat
      BY BoundsAssumption DEF Msgs
    <2>6. \A s \in Slots : rb.buffer[s] # o
      BY <1>1, <2>4, <2>5 DEF StoredOK, NoMsg
    <2>7. PICK new : new = Push(rb, o)
      OBVIOUS
    <2>8. new \in Buffers /\ RingOK(new)
      BY <2>4, <2>5, <2>6, <2>7, PushFacts, PushRing
    <2>9. \A s \in Slots : new.buffer[s] = o \/ new.buffer[s] = rb.buffer[s]
      BY <2>4, <2>5, <2>7, PushFacts
    <2>10. rooms' = [rooms EXCEPT ![r].msgBuffer = new]
      BY <1>4, <2>2, <2>3, <2>7 DEF EndCollect
    <2>11. /\ rooms' \in [Rooms -> RoomStates] /\ rooms'[r].msgBuffer = new
           /\ \A x \in Rooms : /\ rooms'[x].clients = rooms[x].clients
                               /\ x # r => rooms'[x].msgBuffer = rooms[x].msgBuffer
      BY <1>1, <2>8, <2>10 DEF RoomStates
    <2>12. BufferOK(r)'
      <3>1. Routed' = Routed /\ topic' = topic
        BY <1>1 DEF Routed
      <3>2. \A x \in Msgs : worker'[x] = IF x = o THEN w ELSE worker[x]
        BY <1>1, <1>2
      <3>3. StoredOK(r, o)'
        BY <1>2, <1>4, <2>1, <2>2, <3>1, <3>2 DEF StoredOK, IsRouted
      <3>4. ASSUME NEW m, m # o, StoredOK(r, m) PROVE StoredOK(r, m)'
        <4>1. m \in Msgs /\ worker'[m] = worker[m]
          BY <3>2, <3>4 DEF StoredOK
        <4> QED
          BY <3>1, <3>4, <4>1 DEF StoredOK, IsRouted
      <3>5. \A s \in Slots : new.buffer[s] # NoMsg => StoredOK(r, new.buffer[s])'
        <4>1. ASSUME NEW s \in Slots, new.buffer[s] # NoMsg PROVE StoredOK(r, new.buffer[s])'
          <5>1. CASE new.buffer[s] = o
            BY <3>3, <5>1
          <5>2. CASE new.buffer[s] = rb.buffer[s]
            BY <2>4, <2>6, <3>4, <4>1, <5>2
          <5> QED
            BY <2>9, <5>1, <5>2
        <4> QED
          BY <4>1
      <3>6. rooms'[r].msgBuffer = new
        BY <2>11
      <3> QED
        BY <2>8, <3>5, <3>6 DEF BufferOK, StoredOK, IsRouted
    <2> QED
      BY <1>1, <1>2, <2>11, <2>12, SilentStep
  <1> QED
    BY <1>3, <1>4


\* What the goroutine is after it sent to the next receiver c.
Moved(o, w, c) ==
  /\ WorkerOK(o, w) /\ w.as = worker[o].as /\ w.ph \in {"send", "done"}
  /\ w.as # "replay" => Passed(w, c) /\ \A d : Passed(worker[o], d) => Passed(w, d)

LEMMA SendMoves ==
  ASSUME ChatInv, NEW o \in Msgs, Send(o), NEW c, c = Head(worker[o].todo)
  PROVE  \E w \in Goroutines : Moved(o, w, c) /\ worker' = [worker EXCEPT ![o] = w]
  <1> USE DEF ChatInv
  <1>1. /\ worker[o] \in Goroutines /\ worker \in [Msgs -> Goroutines] /\ WorkerOK(o, worker[o])
        /\ worker[o].ph = "send"
    BY DEF Send, DataOK, WorkersOK
  <1>2. PICK v : v = worker[o]
    OBVIOUS
  <1>3. /\ v \in Goroutines /\ v.ph = "send" /\ RoleOK(o, v) /\ OutOK(o, v) /\ TodoOK(o, v)
    BY <1>1, <1>2 DEF WorkerOK
  <1>4. /\ v.todo \in Seq(Clients) /\ v.todo # << >> /\ v.out \in Seq(Nat) /\ v.out # << >>
    BY <1>3 DEF Goroutines, TodoOK
  <1>5. PICK n \in Nat : n = Len(v.todo) /\ n >= 1 /\ c = v.todo[1]
    BY <1>2, <1>4
  <1>6. \A i \in 1 .. n : v.todo[i] \in v.seen /\ (v.as # "replay" => v.todo[i] # topic[o].client)
    BY <1>3, <1>5 DEF TodoOK
  <1>7. \A i, j \in 1 .. n : v.todo[i] = v.todo[j] => i = j
    BY <1>3, <1>5 DEF TodoOK
  <1>8. CASE n > 1 /\ worker' = [worker EXCEPT ![o].todo = Tail(@)]
    <2>1. PICK rest \in Seq(Clients) : rest = Tail(v.todo)
      <3>1. Tail(v.todo) \in Seq(Clients)
        BY <1>4
      <3> QED
        BY <3>1
    <2>2. Len(rest) = n - 1 /\ \A i \in 1 .. n - 1 : i + 1 \in 1 .. n /\ rest[i] = v.todo[i + 1]
      BY <1>4, <1>5, <2>1
    <2>3. PICK w : w = [v EXCEPT !.todo = rest]
      OBVIOUS
    <2>4. /\ w \in Goroutines /\ w.ph = "send" /\ w.as = v.as /\ w.seen = v.seen /\ w.out = v.out
          /\ w.todo = rest
      BY <1>3, <2>3 DEF Goroutines
    <2>5. worker' = [worker EXCEPT ![o] = w]
      BY <1>1, <1>2, <1>8, <2>1, <2>3
    <2>6. rest # << >>
      BY <1>5, <1>8, <2>2
    <2>7. \A i \in 1 .. n - 1 : rest[i] \in v.seen /\ (v.as # "replay" => rest[i] # topic[o].client)
      BY <1>6, <2>2
    <2>8. ASSUME NEW i \in 1 .. n - 1, NEW j \in 1 .. n - 1, rest[i] = rest[j] PROVE i = j
      <3>1. i + 1 = j + 1
        BY <1>7, <2>2, <2>8
      <3> QED
        BY <3>1
    <2>9. TodoOK(o, w)
      BY <1>4, <2>2, <2>4, <2>6, <2>7, <2>8 DEF TodoOK
    <2>10. RoleOK(o, w) /\ OutOK(o, w)
      BY <1>3, <2>4 DEF RoleOK, OutOK, Busy
    <2>11. \A i \in 1 .. n - 1 : rest[i] # c
      <3>1. \A i \in 1 .. n - 1 : i + 1 # 1 /\ 1 \in 1 .. n
        BY <1>5
      <3> QED
        BY <1>5, <1>7, <2>2, <3>1
    <2>12. Passed(w, c) /\ \A d : Passed(v, d) => Passed(w, d)
      BY <1>3, <1>5, <2>2, <2>4, <2>11 DEF Passed
    <2> QED
      BY <1>2, <2>4, <2>5, <2>9, <2>10, <2>12 DEF Moved, WorkerOK
  <1>9. CASE worker' = [worker EXCEPT ![o] = Ended(@)]
    <2>1. PICK w : w = Ended(v)
      OBVIOUS
    <2>2. w \in Goroutines /\ w.ph = "done" /\ w.as = v.as /\ WorkerOK(o, w)
      BY <1>3, <2>1, EndedFacts DEF WorkerOK
    <2>3. worker' = [worker EXCEPT ![o] = w]
      BY <1>2, <1>9, <2>1
    <2>4. \A d : Passed(w, d)
      BY <2>2 DEF Passed
    <2> QED
      BY <1>2, <2>2, <2>3, <2>4 DEF Moved
  <1>10. ASSUME Len(v.out) # 1, NEW order \in SetToSeqs(Targets(o)),
                worker' = [worker EXCEPT ![o].out = Tail(@), ![o].todo = order]
         PROVE  \E w \in Goroutines : Moved(o, w, c) /\ worker' = [worker EXCEPT ![o] = w]
    <2>1. v.as = "replay"
      <3>1. Busy(v)
        BY <1>3 DEF Busy
      <3>2. v.as # "replay" => v.out = << o >>
        BY <1>3, <3>1 DEF OutOK
      <3>3. Len(<< o >>) = 1
        OBVIOUS
      <3> QED
        BY <1>10, <3>2, <3>3
    <2>2. PICK S \in SUBSET Clients : S = Targets(o) /\ S = v.seen
      BY <1>2, <1>3, <2>1 DEF Targets, Goroutines
    <2>3. S # {}
      BY <1>5, <1>6, <2>2
    <2>4. /\ order \in Seq(Clients) /\ order # << >>
          /\ \A i \in 1 .. Len(order) : order[i] \in S
          /\ \A i, j \in 1 .. Len(order) : order[i] = order[j] => i = j
      BY <1>10, <2>2, <2>3, OrderFacts
    <2>5. PICK k \in Nat, out \in Seq(Nat) : k = Len(v.out) /\ out = Tail(v.out)
      <3>1. Len(v.out) \in Nat /\ Tail(v.out) \in Seq(Nat)
        BY <1>4
      <3> QED
        BY <3>1
    <2>6. k > 1 /\ Len(out) = k - 1 /\ \A i \in 1 .. k - 1 : i + 1 \in 1 .. k /\ out[i] = v.out[i + 1]
      <3>1. k > 1
        <4>1. k # 0
          BY <1>4, <2>5
        <4>2. k # 1
          BY <1>10, <2>5
        <4> QED
          BY <4>1, <4>2
      <3>2. Len(out) = k - 1 /\ \A i \in 1 .. k - 1 : out[i] = v.out[i + 1]
        BY <1>4, <2>5
      <3> QED
        BY <3>1, <3>2
    <2>7. PICK w : w = [v EXCEPT !.out = out, !.todo = order]
      OBVIOUS
    <2>8. /\ w \in Goroutines /\ w.ph = "send" /\ w.as = v.as /\ w.seen = v.seen /\ w.out = out
          /\ w.todo = order
      BY <1>3, <2>4, <2>7 DEF Goroutines
    <2>9. worker' = [worker EXCEPT ![o] = w]
      BY <1>1, <1>2, <1>10, <2>5, <2>7
    <2>10. RoleOK(o, w)
      BY <1>3, <2>8 DEF RoleOK, Busy
    <2>11. OutOK(o, w)
      <3>1. \A i \in 1 .. k : IsRouted(v.out[i], "room") /\ topic[v.out[i]].room = topic[o].room
        BY <1>3, <2>1, <2>5 DEF OutOK, Busy
      <3>2. \A i \in 1 .. k - 1 : IsRouted(out[i], "room") /\ topic[out[i]].room = topic[o].room
        BY <2>6, <3>1
      <3> QED
        BY <2>1, <2>6, <2>8, <3>2 DEF OutOK
    <2>12. TodoOK(o, w)
      <3>1. out # << >>
        BY <2>6
      <3> QED
        BY <2>1, <2>2, <2>4, <2>8, <3>1 DEF TodoOK
    <2> QED
      BY <1>2, <2>1, <2>8, <2>9, <2>10, <2>11, <2>12 DEF Moved, WorkerOK
  <1>11. CASE Len(v.todo) > 1
    BY <1>2, <1>5, <1>8, <1>11 DEF Send
  <1> QED
    BY <1>2, <1>9, <1>10, <1>11 DEF Send


LEMMA SendStep ==
  ASSUME ChatInv, NEW o \in Msgs, Send(o)
  PROVE  ChatInv'
  <1> USE DEF ChatInv
  <1>1. /\ UNCHANGED << topic, readPos, ch, clients, rooms, joined >> /\ worker[o].ph = "send"
        /\ WorkerOK(o, worker[o]) /\ worker[o] \in Goroutines /\ sent \in [Clients -> Seq(Nat)]
        /\ rooms \in [Rooms -> RoomStates]
    BY DEF Send, workerKeeps, kafkaVars, mapVars, DataOK, WorkersOK
  <1>2. PICK v \in Goroutines : v = worker[o] /\ v.ph = "send"
    BY <1>1
  <1>3. RoleOK(o, v) /\ OutOK(o, v) /\ TodoOK(o, v)
    BY <1>1, <1>2 DEF WorkerOK
  <1>4. v.todo \in Seq(Clients) /\ v.todo # << >> /\ v.out \in Seq(Nat) /\ v.out # << >>
    BY <1>2, <1>3 DEF Goroutines, TodoOK
  <1>5. PICK c \in Clients, m \in Nat : c = Head(v.todo) /\ m = Head(v.out)
    <2>1. Head(v.todo) \in Clients /\ Head(v.out) \in Nat
      BY <1>4
    <2> QED
      BY <2>1
  <1>6. c = v.todo[1] /\ 1 \in 1 .. Len(v.todo) /\ m = v.out[1] /\ 1 \in 1 .. Len(v.out)
    BY <1>4, <1>5
  <1>7. PICK w \in Goroutines : Moved(o, w, c) /\ worker' = [worker EXCEPT ![o] = w]
    BY <1>2, <1>5, SendMoves
  <1>8. PICK n \in Nat, q \in Seq(Nat) : n = Len(sent[c]) /\ q = Append(sent[c], m)
    <2>1. sent[c] \in Seq(Nat)
      BY <1>1
    <2>2. Len(sent[c]) \in Nat /\ Append(sent[c], m) \in Seq(Nat)
      BY <2>1
    <2> QED
      BY <2>2
  <1>9. Len(q) = n + 1 /\ q[n + 1] = m /\ \A i \in 1 .. n : q[i] = sent[c][i]
    BY <1>1, <1>8
  <1>10. sent' = [sent EXCEPT ![c] = q]
    BY <1>1, <1>2, <1>5, <1>8 DEF Send
  <1>11. /\ sent' \in [Clients -> Seq(Nat)] /\ sent'[c] = q
         /\ \A d \in Clients : d # c => sent'[d] = sent[d]
    BY <1>1, <1>10
  <1>12. /\ Forward /\ DataOK' /\ MembersJoined' /\ EventsOK' /\ QueuesOK' /\ WorkersOK'
         /\ \A x \in Msgs : worker'[x] = IF x = o THEN w ELSE worker[x]
    <2>1. worker[o].ph # "idle" /\ WorkerOK(o, w)
      BY <1>1, <1>7 DEF Moved
    <2>2. \A r \in Rooms : rooms'[r].clients = rooms[r].clients
      BY <1>1
    <2> QED
      BY <1>1, <1>7, <1>11, <2>1, <2>2, GoroutineStep
  <1>13. Routed' = Routed
    BY <1>1 DEF Routed
  <1>14. \A x, kind : IsRouted(x, kind)' <=> IsRouted(x, kind)
    BY <1>1, <1>13 DEF IsRouted
  <1>15. v.as \in {"broadcast", "room", "replay"}
    BY <1>2, <1>3 DEF RoleOK, Goroutines
  <1>16. IsRouted(o, "broadcast") => v.as = "broadcast"
    BY <1>3, <1>15 DEF RoleOK, IsRouted
  <1>17. ASSUME NEW x \in Msgs, NEW d, IsRouted(x, "broadcast"), Passed(worker[x], d)
         PROVE  Passed(worker'[x], d)
    <2>1. CASE x = o
      BY <1>2, <1>7, <1>12, <1>16, <1>17, <2>1 DEF Moved
    <2>2. CASE x # o
      BY <1>12, <1>17, <2>2
    <2> QED
      BY <2>1, <2>2
  <1>18. BuffersOK'
    <2>1. w.as = worker[o].as /\ w.ph \in {"send", "done"}
      BY <1>7 DEF Moved
    <2> QED
      BY <1>1, <1>12, <2>1, BufferStays DEF BuffersOK
  <1>19. IsRouted(m, "broadcast") => m = o /\ v.as = "broadcast"
    <2>1. v.as = "replay" => IsRouted(m, "room")
      BY <1>2, <1>3, <1>6 DEF OutOK, Busy
    <2>2. v.as # "replay" => m = o
      BY <1>2, <1>3, <1>6 DEF OutOK, Busy
    <2> QED
      BY <1>15, <1>16, <2>1, <2>2 DEF IsRouted
  <1>20. ~Passed(v, c)
    BY <1>2, <1>6 DEF Passed
  <1>21. ASSUME NEW i \in 1 .. n PROVE SentTo(c, i)'
    <2>1. PICK x : x = sent[c][i] /\ x = q[i]
      BY <1>9
    <2>2. CASE IsRouted(x, "room") /\ c \in joined[topic[x].room]
      BY <1>1, <1>11, <1>14, <2>1, <2>2 DEF SentTo, IsRouted
    <2>3. CASE /\ IsRouted(x, "broadcast") /\ topic[x].client # c
               /\ x \in Msgs /\ Passed(worker[x], c)
               /\ \A j \in 1 .. n : sent[c][j] = x => i = j
      <3>1. x # m
        BY <1>2, <1>19, <1>20, <2>3
      <3>2. \A j \in 1 .. n + 1 : q[j] = x => i = j
        <4>1. \A j \in 1 .. n + 1 : j \in 1 .. n \/ j = n + 1
          OBVIOUS
        <4> QED
          BY <1>9, <2>3, <3>1, <4>1
      <3>3. Passed(worker'[x], c)
        BY <1>17, <2>3
      <3>4. IsRouted(x, "broadcast")' /\ topic'[x].client # c
        BY <1>1, <1>14, <2>3
      <3> QED
        BY <1>9, <1>11, <2>1, <2>3, <3>2, <3>3, <3>4 DEF SentTo, IsRouted
    <2> QED
      BY <1>8, <2>1, <2>2, <2>3 DEF SentOK, SentTo
  <1>22. SentTo(c, n + 1)'
    <2>1. c \in v.seen /\ (v.as # "replay" => c # topic[o].client)
      BY <1>2, <1>3, <1>6 DEF TodoOK
    <2>2. CASE v.as \in {"room", "replay"}
      <3>1. c \in joined[topic[o].room]
        BY <1>3, <2>1, <2>2 DEF RoleOK
      <3>2. IsRouted(m, "room") /\ topic[m].room = topic[o].room
        <4>1. CASE v.as = "room"
          BY <1>2, <1>3, <1>6, <4>1 DEF OutOK, Busy, RoleOK
        <4>2. CASE v.as = "replay"
          BY <1>2, <1>3, <1>6, <4>2 DEF OutOK, Busy
        <4> QED
          BY <2>2, <4>1, <4>2
      <3>3. IsRouted(m, "room")' /\ c \in joined'[topic'[m].room]
        BY <1>1, <1>14, <3>1, <3>2
      <3>4. sent'[c][n + 1] = m
        BY <1>9, <1>11
      <3> QED
        BY <3>3, <3>4 DEF SentTo, IsRouted
    <2>3. CASE v.as = "broadcast"
      <3>1. m = o
        BY <1>2, <1>3, <1>6, <2>3 DEF OutOK, Busy
      <3>2. IsRouted(o, "broadcast") /\ topic[o].client # c
        BY <1>3, <2>1, <2>3 DEF RoleOK
      <3>3. \A j \in 1 .. n + 1 : q[j] = o => j = n + 1
        <4>1. ASSUME NEW j \in 1 .. n, sent[c][j] = o PROVE FALSE
          <5>1. SentTo(c, j)
            BY <1>8 DEF SentOK
          <5>2. Passed(worker[o], c)
            BY <3>2, <4>1, <5>1 DEF SentTo, IsRouted
          <5> QED
            BY <1>2, <1>20, <5>2
        <4>2. \A j \in 1 .. n + 1 : j \in 1 .. n \/ j = n + 1
          OBVIOUS
        <4> QED
          BY <1>9, <4>1, <4>2
      <3>4. Passed(worker'[o], c)
        BY <1>2, <1>7, <1>12, <2>3 DEF Moved
      <3>5. IsRouted(o, "broadcast")' /\ topic'[o].client # c
        BY <1>1, <1>14, <3>2
      <3>6. sent'[c][n + 1] = o /\ sent'[c] = q /\ Len(q) = n + 1
        BY <1>9, <1>11, <3>1
      <3> QED
        BY <3>3, <3>4, <3>5, <3>6 DEF SentTo, IsRouted
    <2> QED
      BY <1>15, <2>2, <2>3
  <1>23. SentOK'
    <2>1. ASSUME NEW d \in Clients, d # c, NEW i \in 1 .. Len(sent[d]) PROVE SentTo(d, i)'
      <3>1. SentTo(d, i) /\ sent'[d] = sent[d]
        BY <1>11, <2>1 DEF SentOK
      <3> QED
        BY <1>12, <1>17, <3>1, SentStays
    <2>2. \A i \in 1 .. n + 1 : i \in 1 .. n \/ i = n + 1
      OBVIOUS
    <2>3. \A i \in 1 .. Len(sent'[c]) : SentTo(c, i)'
      BY <1>9, <1>11, <1>21, <1>22, <2>2
    <2> QED
      BY <1>11, <2>1, <2>3 DEF SentOK
  <1> QED
    BY <1>12, <1>18, <1>23


-----------------------------------------------------------------------------
(***************************************************************************)
(* The accept loop starts a goroutine                                      *)
(***************************************************************************)
LEMMA QueueTail ==
  ASSUME NEW q \in Seq(Nat), q # << >>, NEW kind, QueueOK(q, kind)
  PROVE  /\ QueueOK(Tail(q), kind) /\ Tail(q) \in Seq(Nat) /\ Head(q) \in Nat
         /\ \A i \in 1 .. Len(Tail(q)) : Tail(q)[i] # Head(q)
         /\ IsRouted(Head(q), kind) /\ (Head(q) \in Msgs => worker[Head(q)].ph = "idle")
  <1>1. PICK n \in Nat, rest \in Seq(Nat) : n = Len(q) /\ n >= 1 /\ rest = Tail(q)
    <2>1. Len(q) \in Nat /\ Len(q) >= 1 /\ Tail(q) \in Seq(Nat)
      OBVIOUS
    <2> QED
      BY <2>1
  <1>2. Len(rest) = n - 1 /\ \A i \in 1 .. n - 1 : i + 1 \in 1 .. n /\ i + 1 # 1 /\ rest[i] = q[i + 1]
    BY <1>1
  <1>3. Head(q) = q[1] /\ 1 \in 1 .. n /\ Tail(q) \in Seq(Nat) /\ Head(q) \in Nat
    BY <1>1
  <1>4. \A i \in 1 .. n : IsRouted(q[i], kind) /\ (q[i] \in Msgs => worker[q[i]].ph = "idle")
    BY <1>1 DEF QueueOK
  <1>5. \A i, j \in 1 .. n : q[i] = q[j] => i = j
    BY <1>1 DEF QueueOK
  <1>6. \A i \in 1 .. n - 1 : rest[i] # Head(q)
    BY <1>2, <1>3, <1>5
  <1>7. ASSUME NEW i \in 1 .. n - 1, NEW j \in 1 .. n - 1, rest[i] = rest[j] PROVE i = j
    <2>1. i + 1 = j + 1
      BY <1>2, <1>5, <1>7
    <2> QED
      BY <2>1
  <1>8. QueueOK(rest, kind)
    BY <1>2, <1>4, <1>7 DEF QueueOK
  <1> QED
    BY <1>1, <1>2, <1>3, <1>4, <1>6, <1>8

Spawned(v, as) == [v EXCEPT !.ph = "spawn", !.as = as]

LEMMA SpawnStep ==
  ASSUME ChatInv, NEW o \in Nat, NEW as \in {"broadcast", "room", "replay"}, Spawn(o, as),
         IsRouted(o, IF as = "broadcast" THEN "broadcast" ELSE "room"),
         o \in Msgs => worker[o].ph = "idle", ch' \in Channels, ch'.eventCH = ch.eventCH,
         NEW b, b = ch'.broadcastCH, QueueOK(b, "broadcast"), \A i \in 1 .. Len(b) : b[i] # o,
         NEW r, r = ch'.roomMsgCH, QueueOK(r, "room"), \A i \in 1 .. Len(r) : r[i] # o
  PROVE  ChatInv'
  <1> USE DEF ChatInv
  <1>1. UNCHANGED << topic, readPos, clients, rooms, joined, sent >>
    BY DEF Spawn, kafkaVars, mapVars
  <1>2. worker \in [Msgs -> Goroutines] /\ Len(topic) \in Nat /\ Routed \in Nat
    BY RoutedFacts DEF DataOK
  <1>3. Routed' = Routed
    BY <1>1 DEF Routed
  <1>4. Forward
    BY <1>1, <1>2, <1>3 DEF Forward, Stable, DataOK
  <1>5. /\ worker' \in [Msgs -> Goroutines]
        /\ \A x \in Msgs : worker'[x] = IF x = o THEN Spawned(worker[o], as) ELSE worker[x]
    <2>1. CASE o \in Msgs
      <3>1. PICK w : w = Spawned(worker[o], as)
        OBVIOUS
      <3>2. w \in Goroutines
        BY <1>2, <2>1, <3>1 DEF Spawned, Goroutines
      <3>3. worker' = [worker EXCEPT ![o] = w]
        BY <1>2, <2>1, <3>1 DEF Spawn, Spawned
      <3> QED
        BY <1>2, <2>1, <3>1, <3>2, <3>3
    <2>2. CASE o \notin Msgs
      BY <1>2, <2>2 DEF Spawn
    <2> QED
      BY <2>1, <2>2
  <1>6. DataOK' /\ MembersJoined' /\ EventsOK'
    <2>1. DataOK'
      BY <1>1, <1>5 DEF DataOK
    <2>2. MembersJoined'
      BY <1>1 DEF MembersJoined
    <2> QED
      BY <1>3, <2>1, <2>2 DEF EventsOK
  <1>7. QueuesOK'
    <2>1. ASSUME NEW q, NEW kind, QueueOK(q, kind), \A i \in 1 .. Len(q) : q[i] # o
          PROVE  QueueOK(q, kind)'
      <3>1. \A i \in 1 .. Len(q) : q[i] \in Msgs => worker'[q[i]].ph = "idle"
        BY <1>5, <2>1 DEF QueueOK
      <3> QED
        BY <1>4, <2>1, <3>1, QueueStays
    <2>2. QueueOK(b, "broadcast")' /\ QueueOK(r, "room")'
      BY <2>1
    <2> QED
      BY <2>2 DEF QueuesOK, QueueOK, IsRouted
  <1>8. WorkersOK'
    <2>1. ASSUME NEW x \in Msgs, x # o PROVE WorkerOK(x, worker[x])'
      BY <1>4, <1>5, <2>1, WorkerKept DEF WorkersOK
    <2>2. ASSUME o \in Msgs PROVE WorkerOK(o, worker[o])'
      <3>1. PICK w : w = Spawned(worker[o], as) /\ w = worker'[o]
        BY <1>5, <2>2
      <3>2. worker[o] \in Goroutines /\ worker[o].ph = "idle" /\ RoleOK(o, worker[o])
        BY <1>2, <2>2 DEF WorkersOK, WorkerOK
      <3>3. w \in Goroutines /\ w.ph = "spawn" /\ w.as = as /\ w.seen = worker[o].seen
        BY <3>1, <3>2 DEF Spawned, Goroutines
      <3>4. RoleOK(o, w)
        BY <3>2, <3>3 DEF RoleOK, Busy
      <3>5. WorkerOK(o, w)
        BY <3>3, <3>4 DEF WorkerOK, OutOK, TodoOK, Busy
      <3>6. WorkerOK(o, w)'
        BY <1>4, <3>3, <3>5, WorkerStays
      <3> QED
        BY <3>1, <3>6 DEF WorkerOK, RoleOK, OutOK, TodoOK, IsRouted
    <2> QED
      BY <2>1, <2>2 DEF WorkersOK
  <1>9. SentOK'
    <2>1. \A c, m : m \in Msgs /\ Passed(worker[m], c) => Passed(worker'[m], c)
      BY <1>5 DEF Passed
    <2> QED
      BY <1>1, <1>4, <2>1, SentStays DEF SentOK
  <1>10. BuffersOK'
    <2>1. \A m \in Msgs : worker[m].ph \in {"send", "done"} => worker'[m] = worker[m]
      BY <1>5
    <2> QED
      BY <1>1, <1>4, <2>1, BufferStays DEF BuffersOK
  <1> QED
    BY <1>6, <1>7, <1>8, <1>9, <1>10

LEMMA AcceptStep ==
  ASSUME ChatInv, AcceptBroadcast \/ AcceptRoomMsg
  PROVE  ChatInv'
  <1> USE DEF ChatInv
  <1>1. ch \in Channels /\ ch.broadcastCH \in Seq(Nat) /\ ch.roomMsgCH \in Seq(Nat)
    BY DEF DataOK, Channels
  <1>2. QueueOK(ch.broadcastCH, "broadcast") /\ QueueOK(ch.roomMsgCH, "room")
    BY DEF QueuesOK
  <1>3. CASE AcceptBroadcast
    <2>1. PICK q \in Seq(Nat) : q = ch.broadcastCH /\ q # << >>
      BY <1>1, <1>3 DEF AcceptBroadcast, Take
    <2>2. PICK o, b : o = Head(q) /\ b = Tail(q)
      OBVIOUS
    <2>3. /\ QueueOK(b, "broadcast") /\ b \in Seq(Nat) /\ o \in Nat /\ \A i \in 1 .. Len(b) : b[i] # o
          /\ IsRouted(o, "broadcast") /\ (o \in Msgs => worker[o].ph = "idle")
      BY <1>2, <2>1, <2>2, QueueTail
    <2>4. PICK r : r = ch.roomMsgCH
      OBVIOUS
    <2>5. QueueOK(r, "room") /\ \A i \in 1 .. Len(r) : r[i] # o
      BY <1>2, <2>3, <2>4 DEF QueueOK, IsRouted
    <2>6. Spawn(o, "broadcast") /\ ch' = [ch EXCEPT !.broadcastCH = b]
      BY <1>3, <2>1, <2>2 DEF AcceptBroadcast, Take
    <2>7. ch' \in Channels /\ ch'.eventCH = ch.eventCH /\ ch'.broadcastCH = b /\ ch'.roomMsgCH = r
      BY <1>1, <2>3, <2>4, <2>6 DEF Channels
    <2> QED
      BY <2>3, <2>5, <2>6, <2>7, SpawnStep
  <1>4. CASE AcceptRoomMsg
    <2>1. PICK q \in Seq(Nat) : q = ch.roomMsgCH /\ q # << >>
      BY <1>1, <1>4 DEF AcceptRoomMsg, Take
    <2>2. PICK o, r : o = Head(q) /\ r = Tail(q)
      OBVIOUS
    <2>3. /\ QueueOK(r, "room") /\ r \in Seq(Nat) /\ o \in Nat /\ \A i \in 1 .. Len(r) : r[i] # o
          /\ IsRouted(o, "room") /\ (o \in Msgs => worker[o].ph = "idle")
      BY <1>2, <2>1, <2>2, QueueTail
    <2>4. PICK b : b = ch.broadcastCH
      OBVIOUS
    <2>5. QueueOK(b, "broadcast") /\ \A i \in 1 .. Len(b) : b[i] # o
      BY <1>2, <2>3, <2>4 DEF QueueOK, IsRouted
    <2>6. ch' = [ch EXCEPT !.roomMsgCH = r] /\ \E as \in {"room", "replay"} : Spawn(o, as)
      BY <1>4, <2>1, <2>2 DEF AcceptRoomMsg, Take
    <2>7. ch' \in Channels /\ ch'.eventCH = ch.eventCH /\ ch'.broadcastCH = b /\ ch'.roomMsgCH = r
      BY <1>1, <2>3, <2>4, <2>6 DEF Channels
    <2> QED
      BY <2>3, <2>5, <2>6, <2>7, SpawnStep
  <1> QED
    BY <1>3, <1>4

-----------------------------------------------------------------------------
(***************************************************************************)
(* The theorems                                                            *)
(***************************************************************************)
LEMMA ChatUnchanged ==
  ASSUME ChatInv, UNCHANGED << topic, readPos, ch, clients, rooms, joined, worker, sent >>
  PROVE  ChatInv'
  <1>1. MessagesKept
    BY DEF MessagesKept, ChatInv, DataOK
  <1>2. /\ clients' \in [Clients -> Entry] /\ rooms' \in [Rooms -> RoomStates]
        /\ joined' \in [Rooms -> SUBSET Clients]
    BY DEF ChatInv, DataOK
  <1>3. \A r \in Rooms, c \in Clients : rooms'[r].clients[c] # "abs" => c \in joined'[r]
    BY DEF ChatInv, MembersJoined
  <1> QED
    BY <1>1, <1>2, <1>3, MapStep

LEMMA ChatInit ==
  Init => ChatInv
  <1> SUFFICES ASSUME Init PROVE ChatInv
    OBVIOUS
  <1> USE DEF Init
  <1>1. << >> \in Seq(Nat) /\ << >> \in Seq(Clients) /\ << >> \in Seq(Responses)
        /\ << >> \in Seq(RoomRequests) /\ Len(<< >>) = 0
    OBVIOUS
  <1>2. /\ NoRoom \in RoomStates /\ NoRoom.msgBuffer = NewRingBuffer
        /\ \A c \in Clients : NoRoom.clients[c] = "abs"
    <2>1. PICK room : room = NewRoom
      OBVIOUS
    <2>2. /\ room \in RoomStates /\ room.msgBuffer = NewRingBuffer
          /\ \A c \in Clients : room.clients[c] = "abs"
      BY <2>1, EmptyRing DEF NewRoom, RoomStates, Entry
    <2>3. NoRoom = [room EXCEPT !.exists = FALSE]
      BY <2>1 DEF NoRoom
    <2> QED
      BY <2>2, <2>3 DEF RoomStates
  <1>3. Idle \in Goroutines /\ Idle.ph = "idle" /\ Idle.as = "none" /\ Idle.seen = {}
    BY <1>1 DEF Idle, Goroutines
  <1>4. NewChannels \in Channels /\ NewChannels.eventCH = << >> /\ NewChannels.broadcastCH = << >>
        /\ NewChannels.roomMsgCH = << >>
    BY <1>1 DEF NewChannels, Channels
  <1>5. DataOK
    <2>1. readPos \in 0 .. Len(topic)
      BY <1>1
    <2>2. clients \in [Clients -> Entry] /\ joined \in [Rooms -> SUBSET Clients]
      BY DEF Entry
    <2>3. /\ rooms \in [Rooms -> RoomStates] /\ worker \in [Msgs -> Goroutines]
          /\ sent \in [Clients -> Seq(Nat)]
      BY <1>1, <1>2, <1>3
    <2> QED
      BY <1>1, <1>4, <2>1, <2>2, <2>3 DEF DataOK
  <1>6. MembersJoined
    BY <1>2 DEF MembersJoined
  <1>7. EventsOK
    BY <1>1, <1>4 DEF EventsOK, Routed
  <1>8. QueuesOK
    BY <1>1, <1>4 DEF QueuesOK, QueueOK
  <1>9. WorkersOK
    BY <1>3 DEF WorkersOK, WorkerOK, RoleOK, OutOK, TodoOK, Busy
  <1>10. SentOK
    BY <1>1 DEF SentOK
  <1>11. BuffersOK
    BY <1>2, EmptyRing DEF BuffersOK, BufferOK, NewRingBuffer
  <1> QED
    BY <1>5, <1>6, <1>7, <1>8, <1>9, <1>10, <1>11 DEF ChatInv

LEMMA ChatStep ==
  ChatInv /\ [Next]_vars => ChatInv'
  <1> SUFFICES ASSUME ChatInv, [Next]_vars PROVE ChatInv'
    OBVIOUS
  <1>1. ASSUME NEW c \in Clients, ClientNext(c) PROVE ChatInv'
    BY <1>1, ClientStep
  <1>2. CASE ReadMessage
    BY <1>2, ReadStep
  <1>3. CASE Route
    BY <1>3, RouteStep
  <1>4. CASE AcceptNext
    BY <1>4, LoopStep, AcceptStep DEF AcceptNext
  <1>5. CASE Panic \/ UNCHANGED vars
    <2>1. UNCHANGED << topic, readPos, ch, clients, rooms, joined, worker, sent >>
      BY <1>5 DEF Panic, vars, kafkaVars, mapVars
    <2> QED
      BY <2>1, ChatUnchanged
  <1>6. ASSUME NEW o \in Msgs, WorkerNext(o) PROVE ChatInv'
    <2>1. ASSUME NEW c \in Clients, Visit(o, c) PROVE ChatInv'
      BY <2>1, VisitStep
    <2> QED
      BY <1>5, <1>6, <2>1, BeginStep, CollectStep, SendStep DEF WorkerNext, ReplayPanic, SendPanic
  <1> QED
    BY <1>1, <1>2, <1>3, <1>4, <1>5, <1>6 DEF Next, MapRace

\* The goroutines of the chat server, its accept loop and the consumer of the topic
\* keep the invariant, however they interleave.
THEOREM ChatInvariant == Spec => []ChatInv
  <1>1. Init => ChatInv
    BY ChatInit
  <1>2. ChatInv /\ [Next]_vars => ChatInv'
    BY ChatStep
  <1> QED
    BY <1>1, <1>2, PTL DEF Spec

\* sendRoomMsg and sendRoomMsgReplay queue messages of a room only for clients
\* whose join of the room was handled, although they collect the receivers while
\* the accept loop changes the map.
THEOREM RoomMessagesStay == Spec => []RoomMsgsStayInRoom
  <1>1. ChatInv => RoomMsgsStayInRoom
    BY DEF ChatInv, SentOK, SentTo, IsRouted, RoomMsgsStayInRoom
  <1> QED
    BY <1>1, ChatInvariant, PTL

\* sendBroadcastMsg queues a broadcast at most once for a client and never for the
\* client that sent it.
THEOREM BroadcastsOnce == Spec => []BroadcastOnce
  <1>1. ChatInv => BroadcastOnce
    BY DEF ChatInv, SentOK, SentTo, IsRouted, BroadcastOnce
  <1> QED
    BY <1>1, ChatInvariant, PTL

\* The ring buffer of a room holds messages of that room, each once and each
\* handled by sendRoomMsg, whatever was pushed and overwritten.
THEOREM BuffersOfRooms == Spec => []BufferIsOfRoom
  <1>1. ChatInv => BufferIsOfRoom
    <2> SUFFICES ASSUME ChatInv, NEW r \in Rooms
                 PROVE  LET h == GetAll(rooms[r].msgBuffer)
                        IN  \A i, j \in 1 .. Len(h) :
                              /\ topic[h[i]].room = r /\ topic[h[i]].kind = "room"
                              /\ worker[h[i]].as = "room"
                              /\ h[i] = h[j] => i = j
      BY DEF BufferIsOfRoom
    <2>1. PICK rb : rb = rooms[r].msgBuffer
      OBVIOUS
    <2>2. /\ rb \in Buffers /\ RingOK(rb)
          /\ \A s \in Slots : rb.buffer[s] # NoMsg => StoredOK(r, rb.buffer[s])
      BY <2>1 DEF ChatInv, DataOK, RoomStates, BuffersOK, BufferOK
    <2>3. PICK h : h = GetAll(rb)
      OBVIOUS
    <2>4. /\ Len(h) = rb.count
          /\ \A i \in 1 .. rb.count : \E s \in Slots : rb.buffer[s] # NoMsg /\ h[i] = rb.buffer[s]
          /\ \A i, j \in 1 .. rb.count : h[i] = h[j] => i = j
      BY <2>2, <2>3, GetAllFacts
    <2>5. \A i \in 1 .. Len(h) : StoredOK(r, h[i])
      BY <2>2, <2>4
    <2> QED
      BY <2>1, <2>3, <2>4, <2>5 DEF StoredOK, IsRouted
  <1> QED
    BY <1>1, ChatInvariant, PTL


=============================================================================
