# A TLA+ verification of go-api-practice

`go-api-practice` is a collection of Go services built around three themes:
at-least-once consumption from Kafka with hand-written offset tracking, the
outbox/inbox pattern on PostgreSQL, and WebSocket chat servers; around them
stand a change-data-capture pipeline, a set of protocol demonstrations and a
benchmark.  This directory holds TLA+ models of them, the TLC runs that check
the models on small instances, and proofs, checked by TLAPS, of the properties
that matter most.

`PROJECT.json` lists the runs, maps every definition to the lines of Go it
stands for, and lists the hazards the properties are aimed at.

## The system and its parts

### kafka-outbox (modelled)

Two processes around one database and a Kafka cluster with two topics.

| Part | State it keeps | Operations | Hard because |
|---|---|---|---|
| `PaymentService` | tables `payment_orders`, `events` | `Save`: payment and event in one transaction | failing statements, crash between them, unique order numbers |
| `OutboxService` | status of events | `handlePending` every 30 s: select pending, `Produce` each to every topic, mark produced | produce and mark are not atomic; several servers poll the same rows |
| `KafkaProducer` | librdkafka's local queue | `Produce`, background delivery | delivery fails after the event was marked; the queue dies with the process |
| `KafkaConsumer` | `msgsStateMap`, `Mu`, the channel `MsgCH` | `consumeLoop`, `UpdateState`, `assignPrntCB`, `revokePrtnCB` | callbacks, handlers and commit loops race; states are replaced while others hold them |
| `PartitionState` | `State`, `MaxReceived`, `LastCommited` | `FindLatestToCommit`, `commitOffsetLoop` | the offset is chosen, committed and recorded in three separate steps |
| `InboxService` | table `audit` | `Save`: insert the audit row, report to the consumer | the report precedes the commit; duplicates from two topics and redelivery |

The http-server creates payments from a ticker and relays events; the
msg-server consumes both topics, starts one goroutine per message, and every
handler reports its message to the consumer (`UpdateState`), which commits
offsets every 15 s and when partitions are revoked.

What makes them correct: an offset is committed only when every earlier message
has been reported; a recorded commit is not undone; finished messages are
committed in the end; callbacks return; a payment and its event are saved
together; only real payments are announced; every announced payment is audited
once, and lost only through failures the code has no answer to.

### chat/with-loop-per-client (modelled)

A WebSocket server whose accept loop owns the maps of clients and rooms.

| Part | State it keeps | Operations | Hard because |
|---|---|---|---|
| `Client` | `conn`, `done`, `msgCH`, `pongCounter` | `readMsgLoop`, `writeMsgLoop`, `initPing` | three goroutines and the peer end it in any order |
| `Server.AcceptLoop` | `clients`, `rooms` | `joinServer`, `leaveServer`, `joinRoom`, `leaveRoom` | requests of one client come through several channels and may be taken out of order |
| events | the Kafka topic, `eventCH` | `ProduceData`, `ReadMessageLoop`, `consumerReqMsgLoop` | one full channel stops all kinds of message |
| `sendBroadcastMsg`, `sendRoomMsg`, `sendRoomMsgReplay` | the receivers collected | a goroutine per message | they read maps the accept loop writes, and wait on queues of dead clients |
| `RingBuffer` | `buffer`, `head`, `count` | `Push`, `GetAll`, `GetFromOffset` | wrap-around, empty slots |

What makes it correct: messages stay in their room, broadcasts reach every
connected client once and not their sender, a client that goes away or silent is
cleaned up, and the history of a room is its newest messages in order.

### The other Kafka programs

| Part | State it keeps | Operations | Hard because |
|---|---|---|---|
| `kafka/` | the same consumer with one topic; table `events` | `saveToDB` in `TxClosure` | the report precedes the commit, and an error of the commit is only printed |
| `kafka-cdc/pkg/kafka` | the same consumer, cooperative-sticky, blocking `MsgCH` | as above | a full channel stops the callbacks too |
| `kafka-cdc/internal` | tables `payment`, `inventory`, `event_inbox`; the change topic | `CreatePayment`, `MsgRouter`, `InventoryService.Save` | at-least-once twice (Debezium, consumer); the inbox has no unique column |
| `performance` | three partition states, each driven by three goroutines; `currentTest` | `appendLoop`, `updateLoop`, `commitLoop`, `testCaseHandler` | bounds read outside the lock, an owner goroutine that leaves, requests that share a pointer |

What makes them correct: a committed offset has its row, or a failure the code
has no answer to; redelivery adds nothing; runners leave no pending message
behind the offset where scanning starts, and stop when they are told to.

### The other chat programs

| Part | State it keeps | Operations | Hard because |
|---|---|---|---|
| `chat/client-loop` | `Clients`, `Rooms`, memberships on both sides, broadcast workers | `RegisterLoop`, `JoinRoom`, `LeaveRoom`, `BroadcastMSG`, `SendRoomMSG` | several locks per operation, one kept on an error path |
| `chat/with-workers` | `clients`, `rooms`, `workers`, `activeClients` | `AcceptLoop`, `scaleUp`, `scaleDown`, `ShutdownLoopAtomic` | clients are rehashed while they come and go; clients leave twice or before they join |
| `chat/ratelimiter` | a token bucket per client | `Allow`, `cleanUp` | check then create; buckets deleted while requests hold them |

What makes them correct: room messages stay among members and nothing is
delivered twice; every registered client has exactly one worker, the one its id
hashes to; the count that ends the shutdown is the number of clients; no client
gets more than its burst and its rate.

### protocol-playground

`data-receiver` takes sensor readings from websockets and produces them to a
topic; `data-aggregator` consumes it, publishes every reading on an in-memory
event bus with a goroutine per reading, and its handlers store distances and
send invoices to `invoicer`; a second path streams readings to the invoicer and
receives echoes; `file-sender` uploads files to it.  Hard: publishers blocked on
a full channel hold the bus's lock, closing races with publishing, uploads may
choose one path.

### Not modelled

Listed with the reasons at the end: `kafka-chans`, throttler and back-pressure,
`boids`, browser pages, configuration, generated code.

## Modules

| Module | Models | Notes |
|---|---|---|
| `OffsetScan` | what `FindLatestToCommit` computes | a relation, so that it can be proved about |
| `FindLatestLoop` | the loop of `FindLatestToCommit`, one iteration per step | `Programs_proofs`: the loop computes the relation |
| `AtLeastOnce` | abstract: what a consumer promises of one partition | |
| `PartitionState` | one partition from assignment to revocation | `PartitionState_proofs`: safety and refinement of `AtLeastOnce` (`INSTANCE ... WITH`) |
| `KafkaConsumer` | a consumer process over many assignments | `KafkaConsumer_proofs`, `MCKafkaConsumer` |
| `EventStore` | `kafka/`: `KafkaConsumer` with the handlers that store events | extends `KafkaConsumer`; `EventStore_proofs`, `MCEventStore` |
| `CdcInventory` | `kafka-cdc/`: payments, change topic, inventory server | extends `KafkaConsumer`; `CdcInventory_proofs`, `MCCdcInventory` |
| `Outbox` | http-servers: save, poll, produce, deliver | `MCOutbox` |
| `Inbox` | msg-server: handlers and their transaction | |
| `AuditTrail` | abstract: payments are audited once | |
| `OutboxPipeline` | `Outbox` and `Inbox` sharing the log | `OutboxPipeline_proofs`, also of `Outbox` and `Inbox`; `MCOutboxPipeline`; implements `AuditTrail` (`INSTANCE ... WITH`) |
| `RingBuffer` | the methods of the ring buffer as operators | |
| `RoomHistory` | a buffer under pushes, against its history | `ChatVariants_proofs`, `MCChatVariants` |
| `ChatServer` | `chat/with-loop-per-client`, with `RingBuffer` for the rooms | `ChatServer_proofs`, `MCChatServer` |
| `ClientLoopServer` | `chat/client-loop` | `ChatVariants_proofs`, `MCChatVariants`, `MCServices` |
| `WorkerServer` | `chat/with-workers` | `ChatVariants_proofs`, `MCChatVariants` |
| `RateLimiter` | `chat/ratelimiter` | `ChatVariants_proofs`, `MCChatVariants` |
| `Aggregator` | receiver, topic, event bus, handlers, invoices | `Programs_proofs`, `MCServices` |
| `SensorStream` | websocket, `dataCH` and the stream to the invoicer | `Programs_proofs`, `MCServices` |
| `FileUpload` | `file-sender` and `UploadFile` of the invoicer | `Programs_proofs`, `MCServices` |
| `PerfRunner` | the three runners of `performance` | `Programs_proofs`, `MCPerformance` |
| `PerfServer` | the HTTP server of `performance` | `Programs_proofs`, `MCPerformance` |

Five MC modules run one of several independent programs at a time: the choice is
made in the initial state, so the programs do not interleave and the state
spaces add up.  Names of modules that are combined this way carry a prefix
(`Ag`, `Cl`, `Fu`, `Pf`, `Rl`, `Ss`, `Ts`, `Wk`).

### OffsetScan and FindLatestLoop

`IsLatestToCommit(st, lc, mr, l)` says that the scan of map `st` from
`LastCommited` to `MaxReceived` returns `l`: the first pending offset; else one
past the last key, when nothing but finished keys was found and the map is left
empty; else `MaxReceived`.  `Pruned` is the map it leaves.  `FindLatestLoop`
runs the Go loop on every map and pair of bounds (keys 1..4, bounds 0..5: gaps,
empty ranges and keys outside the range all occur) and `LoopComputesScan` says
that both agree.

### PartitionState

One behaviour is one session: `Init` is the partition state `assignPrntCB`
creates, for every committed offset, every set of messages already reported and
every set of handlers of earlier sessions that still run.  Every critical
section under `ps.Mu` is one action; the commit request is a separate action
that succeeds, fails, or succeeds without an answer.  The broker accepts a
commit only from the owner (`Acceptable`), and after `Fence` another member
consumes under the same rules.  `Log` may have gaps (transaction markers,
compaction), `Poison` is the set of messages `NewMessage` rejects.

### KafkaConsumer

Adds the map from partition NUMBER to state, guarded by `c.Mu`: states are
replaced and removed by the callbacks while handlers hold pointers.
`UpdateState` is two actions, the lookup under the read lock and the write after
it.  A lookup that misses returns without releasing the lock (`leaked`); then
`CanLock` is false for ever.  Callbacks run in the consume loop, one step for
each lock, wait and broker call.  Eager and cooperative assignment are both in
the code and both modelled: `kafka-outbox` uses `range`, `kafka` and `kafka-cdc`
`cooperative-sticky`; the run of `kafka/` has one partition, for which both do the
same.  The calls that end a callback (`Assign`, `Unassign` and their incremental
forms) are modelled as succeeding: the client refuses them only after an error it
does not recover from, and such a consumer is, for the group, one that has crashed.
A process begins by creating each topic, which may
fail and is then only logged; a partition of a topic that does not exist is not
assigned.

### EventStore and CdcInventory

Both extend `KafkaConsumer` and replace its free handlers by what the servers
do.  In `EventStore` a handler inserts, reports and commits in that order
(`excused` are the messages that were dropped, reported as an error, or lost
after the report).  In `CdcInventory` the log is filled by Debezium, which is
external: a committed payment is published at least once, among messages that
are ignored or cannot be decoded.  `Save` inserts the inbox row, then the
inventory row and does not look at the result; the insert of a row that exists
aborts the transaction, so that `TxClosure` fails at the commit.

### Outbox, Inbox, OutboxPipeline

Transactions are sequences of statements whose writes appear at commit.  A
unique index is modelled by its effect: an insert waits while another open
transaction has the key and fails when the key is committed.  Any statement may
fail (`Fault`, bounded).  `gone` and `faulted` are history variables: copies
lost on the way to the broker, messages hit by a failure that the consumer side
cannot repair.  The topics are bags of messages: `PartitionAny` spreads
them, so no order is promised.  In `Inbox` the consumer is what its handlers see
of it.  Messages not committed are read again after a rebalance or restart and not
before.  What is committed depends on the topics: with one, only reported messages
are (`CommitSafety` of the consumer); but `kafka-outbox` consumes two, the map of
states is keyed by the partition number alone, and the offsets of one topic then
decide commits of the other.  `SharesState` says when a message may be subject to
this; such a message is committed without a report, and uncommitted again, at any
time (`CommitOffset`, `Rewind`), which allows every mixture of offsets.  A
rebalance is two steps, `Revoke` and `Assign`, between which the map has no state.
A report that comes then, or from a session whose partitions did not return, is
lost and may keep the read lock of `c.Mu` (`UpdateState`, `locked`); the next
callback waits for that lock for ever (`session = "stopped"`), and with it
everybody who reports, until the context of `handleMsg` rolls the transaction back
(`ReportBlocks`).  The consumer is not looked at inside a callback: what
`revokePrtnCB` commits it has chosen while it had the state, so it is a
`CommitOffset` before the `Revoke`.

### RingBuffer, RoomHistory, ChatServer

A message is its Kafka offset.  Every method of the buffer holds its mutex, so
each is one operator.  `GetFromOffset` is modelled as written: its loop looks at
slot `oldestIdx + 1` in every iteration, so the result is the newest message or
nothing, and a buffer with one message makes it dereference an empty slot.

In `ChatServer` each of the eight channels is a bounded sequence, a send waits for
room, and every case of a select is an action of its own.  `AcceptRoomMsg` has
two outcomes because two cases receive from `roomMsgCH`; no action receives from
`replayMsgCH`.  The goroutine that sends a message goes through the map of
receivers one entry at a time (`Visit`) while the accept loop changes it:
an entry present from start to end is visited, an entry added meanwhile may be.
Reading a map while it is written is a data race; its outcomes are that the
iteration goes on, or that the runtime ends the process (`MapRace`).  A client
that is not registered is a nil pointer, which joins a room like any other
(`"nil"`) and ends the process when a message is sent to it.
`WriteJSON` has no deadline.  A peer in `Stalling` may stop reading while it stays
connected, and the writer may then be held in a write (`WriteBlocks`) until the
connection breaks (`WriteFails`); meanwhile nobody empties the client's queue and
nobody looks at its pong counter.

### ClientLoopServer, WorkerServer, RateLimiter

`ClientLoopServer` keeps every lock: an operation of the registration loop or of
a read loop is a sequence of critical sections, and room memberships are stored
on both sides in different ones.  `clLeaked` is the read lock of `svr.mu` that
`SendRoomMSG` keeps when the room does not exist.  A pong is written by the read
loop itself, without a deadline: `ClPing` begins the write and `ClPongWritten`, of
which no fairness is assumed, ends it.  Panics of the code (sending
on the closed `registerCH`, the shadowed `client` of `LeaveRoom`) end the
process.

In `WorkerServer` the accept loop takes requests from one channel per kind in any
order.  The hash of an id is the parameter `WkHash`; scaling rehashes every
client as `scaleUp` and `scaleDown` do.  A client whose departure was handled
has a nil map of rooms, and joining a room ends the process.

`RateLimiter` counts time in ticks and tokens in whole tokens.  A request is
three steps: look-up, creation, taking a token; a bucket that was replaced or
deleted stays alive for the requests that hold it.

### Aggregator, SensorStream, FileUpload

`Aggregator` starts with the process: signal handler, topic, subscriptions,
connection, read loop.  The consumer starts anywhere in the topic, as a group with a
committed offset does (`AgAssigned`), and reads every message once: a rebalance that
makes Kafka deliver a reading again within one process is left out.
`Publish` is a goroutine per reading and event that
holds the bus's read lock while it waits for room in the channel.  `FileUpload`
gives files as sequences of chunks and paths as time stamps: uploads of one file
name with one stamp share a path, and `os.Create` truncates.

### PerfRunner and PerfServer

The three variants share their loops and differ in how the map is reached: under
a lock, entry by entry in a `sync.Map`, or by a channel to the goroutine that
owns it.  The lock and `sync.Map` scans use `OffsetScan`'s notion of a pending
offset, and each `Load`, `Delete` and count of the `sync.Map` is a step, as are the
two loads `updateLoop` chooses its offset from.  The commit loop of the channel
variant checks its context, waits for room in the queue and waits for the answer
in three steps.  In `PerfServer` each statement of the handler that touches
`s.currentTest` is an action.  Nothing validates a request: `TsUnrunnable` are those
with an unknown scenario or an interval `time.NewTicker` panics on, which always end
the process once their test is reached, `TsBadRange` those with a range
`rand.Int64N` panics on, which end it if the update loop gets that far.

## Runs

| Run | Checks | Bounds |
|---|---|---|
| `performance` | `LoopComputesScan`; `PfNoPendingBehind`, `PfExits`; `TsCrashNeedsOverlap` | 4 keys, 6 bounds; offsets to 3, update range 2, queue of 1; 4 requests: one with a bad body, one that no runner can serve, one with a bad range |
| `partition_session` | `CommitSafety`, `AckedIsDurable`, refinement of `AtLeastOnce`, `FinishedIsCommitted` | offsets 0, 1, 3 (3 undecodable) |
| `consumer_and_store` | `CommitSafety`, `PendingHasHandler` for a consumer with another member; `StoreCommittedIsStored` for the server of `kafka/` | 3 messages (1 undecodable), or 1 message under the server; 2 states, 1 crash |
| `consumer_two_topics` | `AssignedIsTracked` when two topics share a number | 1 message each (one undecodable), 2 states, 1 crash, another member |
| `consumer_cooperative_cdc` | `AssignedIsTracked`, `RebalanceEnds` with incremental rebalancing; `CommittedIsReserved`, `InboxMatchesInventory` for the inventory server | 2 partitions with 1 message, 2 states; or 2 orders (the log begins with a fixed one, as they are interchangeable), 2 messages, 1 state per process, 1 crash |
| `outbox` | atomic save, produced means every topic had its copy | 2 servers, 2 orders, 2 topics, 1 fault |
| `pipeline` | `DoneIsAudited`, `LostOnlyInEveryTopic`, refinement of `AuditTrail`, `PaidIsAudited` | 1 order, 2 handlers, 2 topics with 1 message each, 1 fault on each side |
| `chat_rooms` | `RoomMsgsStayInRoom`, `BufferIsOfRoom` | 2 clients, 2 rooms, 4 requests, buffers and queues of 2 |
| `chat_delivery` | `BroadcastOnce`, `BroadcastReaches`, `DepartureCompletes`, `SilentIsDropped` | 3 clients, 1 of them with timers, a connection that may break and a peer that may stop reading; 1 broadcast or replay request by a client that is already connected, queues of 1 |
| `chat_room_delivery` | `RoomMsgReaches`: violated | 2 clients, 2 requests |
| `chat_variants` | `GetAllIsLatest`, `ReplayIsNew`; `ClDelivery`; `WkAssigned`, `WkActiveMatches`; `RlWithinRate` | 3 slots, 6 pushes, 4 offsets in any order; 2 clients, 2 workers, 2 messages; 2 clients with 2 messages or 3 clients with up to 5 workers; 1 client, 2 requests, burst 2, 3 ticks |
| `services` | `AgNoneLost`, `AgDistancesFormPath`, `AgStops`; `SsEchoesInOrder`; `FuReportedIsStored`; `ClShutsDown` | 2 readings, queue of 1; 3 readings, queue of 2; 2 uploads of 0 to 2 chunks, 2 stamps; 2 clients, 1 message, 1 lost connection |

Why the bounds suffice: one offset below, at and above the scan's ends, a gap
and a stuck message produce every branch of `FindLatestToCommit`; two
partition states are what a late report needs to hit the wrong one; two servers
and two handlers are what two transactions need to wait for each other; one
fault on each side separates every pair of steps; the two copies of an event are
the two messages that race for its row and share a state.  The sizes are otherwise
irrelevant to the guards.
In the chat runs channels and queues of one element are full as soon as two
messages (or a message and a ping) meet,
three clients are what a dead receiver needs to hold up a live
one, and four requests (a join and three messages) are what a replay needs to
find something to send.  Broadcasts and room requests are in different runs,
because together they need millions of states, and `chat_delivery` begins with its
sender connected (`ConnectedSpec`) for the same reason; no broadcast therefore meets the
nil entry of a join that overtook its registration, only room messages do, and
no broadcast waits behind a full channel of replays.
With one client per worker three clients make the server with workers scale up
past them and, starting with four workers, down again, and the hashes 6, 3 and 4
move clients at each change.  Two requests are what replacing a bucket needs;
three ticks let a bucket be deleted and made again.  Two readings on a channel of
one block a publisher while the bus is closed.  Two uploads meet on one path.
Deadlock checking is off: requests run out, sessions end, orders run out, a leaked lock stops
a consumer, and servers are shut down.

What the runs show about the code:

* `CommitSafety` holds for partition numbers that belong to one topic.  With the
  two configured topics the map entry is shared and offsets of one topic decide
  commits of the other; the property is restricted to `Sole` partitions for this
  reason, and `Inbox` models what the sharing costs.
* `AckedIsDurable`: a later commit may move the group's offset back (after a
  commit whose answer was lost) but never below the last recorded commit.
* `FinishedIsCommitted` leaves out the last message received: after a commit
  that covers everything the loop skips until something beyond it arrives.  A
  message that cannot be decoded stays pending and blocks commits for good.
* `RebalanceEnds` holds only as long as no report has missed the map: the early
  return of `UpdateState` keeps its read lock.
* `DoneIsAudited` needs `faulted`: reporting before the transaction commits
  loses the event if the commit fails.  It also needs `Skipped`: a state shared by
  two topics commits messages nobody has reported.  `LostOnlyInEveryTopic`: the copy
  in the second topic repairs such a loss unless it is hit too.
* `PaidIsAudited` needs `Abandoned`: when a transaction cannot be begun nobody
  reports the message, and its partition waits until the next rebalance.  It also
  excuses a consumer that a leaked read lock has stopped.

* `BroadcastReaches` needs `Stuck`: a sending goroutine waits for ever on the full
  queue of a client whose writer has ended or that is connected and does not read,
  and the event loop on `replayMsgCH`, which nobody receives from.
* `SilentIsDropped` leaves out a writer held in `WriteJSON`: it never gets back to
  its pong counter.
* `RoomMsgReaches` is violated (finding): a room message taken by the second
  receive from `roomMsgCH` is handled as a replay of what is newer than itself
  and reaches nobody, while `server_test.go:300` waits until each was received by
  every other member.
* `PanicsOnlyOnOne` (proved): a replay in a room with one message ends the process.
* `StoreCommittedIsStored` needs `excused`: an event of `kafka/` is lost when its
  commit fails after the report, and `kafka/` has no second copy.
* `CommittedIsReserved` needs `failed`: `MsgState_Error` counts as finished, so a
  message whose handling failed is never asked for again; a redelivered payment
  always fails, harmlessly.
* `InboxMatchesInventory` rests on PostgreSQL refusing to commit an aborted
  transaction: the code ignores the failed inventory insert.
* `ClShutsDown` needs `clMissing`: one message to a room that does not exist
  keeps the read lock of `svr.mu`, and neither registrations nor the shutdown
  get past it.  A read loop held in the write of a pong stops the shutdown too.
* `RlWithinRate` leaves out clients with two requests in flight that drew from a
  bucket that was replaced or deleted meanwhile.  It needs the assumption that an
  idle bucket is full before it is deleted, which the constants of
  `http_server.go` satisfy.
* `PfExits` needs `PfAbandoned`: in the channel variant a goroutine may wait for
  the owner that has left, for its answer or for room in its queue.
  `PfNoPendingBehind` needs `pfEarly` and the first
  offset, which a scan can pass before they are appended.
* `TsCrashNeedsOverlap`: requests one after the other end the process only if one
  of them names a scenario without a runner or an interval or range that is not
  positive, which nothing checks; overlapping ones may always.
* `FuReportedIsStored` leaves out uploads that shared a path.
* `AgNoneLost` is about a running process: the readings in the bus when it stops
  are lost.

Every property has a mutant in `PROJECT.json`: an operator (marked "Mutant" in
its module) that changes one definition the way a plausible bug would and breaks
the property.

## Fairness

`PartitionState!LiveSpec`: the ticker of a running loop fires, a request to the
broker ends, requests do not fail for ever (strong fairness of `CommitOk`), a
goroutine waiting for a mutex gets it.  Nothing is assumed of handlers or
deliveries.  `KafkaConsumer!LiveSpec`: the callback's goroutine runs and a
cancelled commit loop goes on until it sees its context.
`OutboxPipeline!LiveSpec`: tickers fire, queued messages are sent, handlers go on
or time out, revoked partitions are assigned again; a message that could be read
again and again is read (strong fairness of `HandleMsg`, because rebalances come in
between and do not always come first); faults are not fair and finitely many.
No fairness of commits, revocations or restarts is assumed, and a consumer that
hangs in a callback reads nothing.
`ChatServer!FairSpec`: goroutines that can run do; each case of the accept loop's
select is weakly fair, because Go picks a ready case at random and a ready case
stays ready; tickers go on.  Taking a message from the queue (`WriteMsg` or
`WriteBlocks`) is strongly fair: the writer enters its
select again and again with the case ready, although between two visits the pong
counter may stand above its limit until a late pong lowers it.
`Send` is strongly fair: Go serves goroutines that wait
on a channel in the order they came, so pings that refill a queue do not keep a
message out.  With weak fairness alone `BroadcastReaches` fails in both ways.
Clients need not connect, send, answer, read or disconnect; a write returns if its
peer has not stopped reading or the connection is closed.
`MCCdcInventory!MCLiveSpec` has the fairness of `KafkaConsumer!LiveSpec`.
`AgFairness`, `ClFairness` and `PfFairness`: goroutines that can run do, and a
select that finds its context done again and again takes that case in the end;
where another goroutine can make the case disappear and return (`PfAppendExit`,
`PfUpdateExit`) the fairness is strong.  Nothing is assumed of signals, readings or
requests, nor that a pong is ever written.

## Proofs

Every theorem holds for all values of the constants that satisfy the named
assumption of its module; the bounds of the runs (sessions, crashes, faults,
messages) are constants too, so a theorem covers every bound.  A property that is
checked by a run and proved is rarely inductive by itself; what follows says what
had to be added and why.

`PartitionState_proofs` proves for every `Log` and `Poison` (assumption
`LogAssumption`: offsets are naturals):

* `TypeCorrect`, `TrackInvariant` and from it `CommitIsSafe`.  `CommitSafety` by
  itself is not inductive: a commit in flight, and the scan that chose it, must
  be covered.  `TrackInv` says everything about the messages not yet reported:
  delivered ones are pending in the map and at most `MaxReceived`; the others
  lie at or beyond `MaxReceived`; `LastCommited`, `committed` and the offset in
  flight are at most any of them.  The lemma on the scan (its result passes no
  unreported message) carries the step.
* `AckedStaysCommitted`, from `AckInv`: an offset in flight is not below
  `LastCommited`, the broker has what is about to be recorded, and the revoke
  callback commits only after the loop has ended.
* `Refinement`: `Spec => ALO!Spec`.

`KafkaConsumer_proofs` (assumption `ConsumerAssumption`) proves `ConsumerInvariant`
and from it `ConsumerCommitSafety`, `AssignedTracked` and `PendingExplained`, for
any topics, partitions, sessions, crashes and other members of the group.  The
argument of `TrackInv` is `Covers`, a predicate of one state, one set of unreported
messages and one fetch position; `TracksOK` asks it of the state in the map of
every partition whose session has begun.  That needs three more parts: `MapOK` (a
state whose commit loop runs is the one in the map, so a replaced state commits
nothing), `SessionsOK` (which partitions have a running state in the middle of a
callback: the assign callback drops the old ones one by one) and `CommitsOK` (the
offsets a callback carries).  Each action's effect on the sequence of states is a
lemma of its own, so that the parts are proved from effects and not from actions.

`CdcInventory_proofs` (assumption `CdcAssumption`: order numbers are not markers,
one topic, as in `kafka-cdc`) proves `ServerRunsConsumer`, `CdcSpec => Spec`, which
brings all theorems of the consumer to this program, and then
`InboxFollowsInventory` and `CommittedReserved`.  The second joins the two: an
offset is committed only over reported messages, and `ReportsOK` says a reported
one is reserved or failed.

`EventStore_proofs` (assumption `StoreAssumption`: one topic, as in `kafka/`) proves
`StoreRunsConsumer`, `StoreInvariant`, and from the consumer's `CommitsOK`
`CommittedStored` and `StoreKeepsCommitted`.  A report is accounted for as long as its
transaction has no handler left, so a second handler with the same message and
session must be excluded: `GivenOut` says that what a session has given out is behind
its fetch position and behind the message in hand, and that a session being opened
has given out nothing, because `assignPrntCB` always makes a new state.

`OutboxPipeline_proofs` (assumptions `OutboxAssumption` and `PipelineAssumption`)
proves for `Outbox` `SaveIsAtomic`, `OnlyPaidIsAnnounced` and `ProducedWasSent`: a
poll works only on saved payments, and an event it is about to mark has had a copy
made for every topic.  For the pipeline it proves `EventAuditedOnce`,
`CommittedIsAudited` (`InboxInv`: the same for every report, because reports come
before commits; what is committed without a report shares its state with another
topic, and goes on doing so because messages do not disappear; a transaction that
holds a row is the only one),
`LossNeedsEveryTopic` and `TrailRefinement`, the refinement of `AuditTrail`.

`ChatServer_proofs` (assumptions `BoundsAssumption`, finitely many clients, and
`SizeAssumption`) proves `RoomMessagesStay`, `BroadcastsOnce` and `BuffersOfRooms`.
`ChatInv` follows a message on its way: it is in `eventCH` once, then in one of the
queues and without a goroutine, then has a goroutine that has seen only clients
that joined and still has to send to clients it has seen, each once; a broadcast
that was queued for a client has passed it.  The ring buffer is filled from slot 0
and stores only messages whose goroutine has collected.

`ChatVariants_proofs` proves

* for every `Size` and set of offsets `RingInvariant`, `HistoryIsLatest`,
  `ReplayPanics` and `ReplaysAreNew`.  `GetAllIsLatest` says nothing about where the
  next message goes, so `RingInv` relates the slots to the head: counting back from
  it one meets the history backwards, and until the buffer is full the slots from
  the head on are empty.  All remainders the code takes are of numbers below twice
  the size (`Wrap`), which removes them from the argument;
* for every hash and `clientsPerWorker` `WorkersAssigned` and `ActiveClientsMatch`
  (`WkAssumption`: finitely many clients, and the bound `WkMaxWorkers` leaves room
  for the workers `scaleUp` adds for all of them, so the bound never stops it;
  the code has no such bound).  `WkPlaced` gives the clients of every worker as a
  function of `srv.clients` and the number of workers, which `scaleUp` and
  `scaleDown` re-establish by moving every client;
* for every rate and burst `WithinRate` (`RlAssumption`: an idle bucket is full
  before it is deleted).  `RlBudget` adds to what was allowed in a window what the
  client could take now, so that a refill is paid for by time and a deleted bucket
  by its idleness; `RlOwned` says a bucket is one client's;
* for all clients, rooms, workers and bounds `ClientLoopDelivery` (`ClAssumption`:
  the bounds are naturals, `registerCH` has a capacity).  A broadcast is written once
  only because one worker has the client, so `ClRegisterOK` follows the registration
  through a goroutine, `registerCH`, `RegisterLoop` and `clientCH` to one worker and
  says it is in one of these places; `ClWorkersOK` does the same for a broadcast on
  its way to a worker, and `ClSendsOK` says whom `SendRoomMSG` still writes to has
  joined, as `ClRoomsOK` says of who is in a room.

`Programs_proofs` proves for `protocol-playground` `EchoesInOrder` (the
four queues of the stream, one after
the other, are the readings; a broken stream is empty), `NoReadingLost` and
`DistancesFormPath` (for each event a reading is in at most one place of the bus,
and in one at least from the subscription on; `AgAssumption`: channels have a
capacity) and `ReportedIsStored` (the stream holds what was sent and not written,
the disk what was written; `FuAssumption`: sizes are naturals, the missing path is
not a time stamp).

For the scan and `performance` it proves

* `LoopCorrect` for all sets of integer keys and bounds (`KeysAssumption`).  `LoopInv`
  says that visited keys were finished and are gone, the rest is untouched, and the
  map was not emptied on the way;
* `NoPendingBehind` (`PfAssumption`): the scan of the sync.Map variant reads
  `MaxReceived` and each key at different times, so `PfInv` says for every place of
  the scan that nothing below it is pending and that nothing being appended will be;
* `CrashNeedsOverlap` (`TsAssumption`): while handlers have not overlapped there is
  one test, which is the current one and whose `exitCH` is open, so that `runTests`
  panics only for what its request asks for.

Only model-checked is liveness (`FinishedIsCommitted`, `RebalanceEnds`, `PaidIsAudited`,
`BroadcastReaches`, `DepartureCompletes`, `SilentIsDropped`, `AgStops`, `ClShutsDown`,
`PfExits`), which is beyond the prover: it rests on fairness and on ENABLED.

No run lists the inductive invariants of the proved modules, nor `AuditedOnce`,
which the refinement of `AuditTrail` implies: the runs keep to what a reader asks of
the system.

## Plan

1. done: offset scan, session of a partition, consumer, outbox, inbox, pipeline,
   chat server with its ring buffer; proofs of the scan, the session and the buffer.
2. done: the servers on the consumer (`kafka/`, `kafka-cdc/`), the other chat
   programs, `protocol-playground`, `performance`; both refinements as instances.
3. done: proofs of the safety of the consumer, the event store, the inventory server,
   outbox, inbox and pipeline with the refinement of `AuditTrail`, the chat server, the
   worker server, the client-loop server, the rate limiter, `protocol-playground` and
   `performance`.

## Not modelled

* `kafka-chans`: `NewPartitionState` leaves `MsgPool` nil, so `acceptMsgLoop`
  panics at the first update, and `main` is commented out: there is no behaviour
  of the program to be faithful to.  `PerfRunner` has a map owned by a goroutine.
* Throttler and back-pressure of `chat/with-loop-per-client`: every call is
  commented out.  Room workers, `ShutdownLoop` and `cleanUp` of
  `chat/with-workers`, and the payment server's message router of `kafka-cdc`,
  are not called either.
* `boids`: a floating-point simulation.
* Byte formats and generated types, logging, metrics, HTTP routing, migrations
  (apart from their unique indexes), database connection set-up, browser pages.
* The broker, PostgreSQL, librdkafka and Debezium are modelled by what the code
  relies on and marked external.
