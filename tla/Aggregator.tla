------------------------------ MODULE Aggregator -----------------------------
(***************************************************************************)
(* protocol-playground: sensor readings go through data-receiver, Kafka    *)
(* and the in-memory event bus of data-aggregator to its two handlers, and *)
(* from the distance handler to the invoicer.  A SIGTERM closes the bus,   *)
(* which ends the read loop and the process.                               *)
(***************************************************************************)
EXTENDS Naturals, Sequences, FiniteSets

CONSTANTS AgReadings,    \* how many readings each websocket client sends
          AgQueueSize    \* capacity of dataCH (32 in the code)

ASSUME AgAssumption == AgReadings \in Nat /\ AgQueueSize \in Nat \ {0}

VARIABLES
  agUp,          \* "off", "start", "wait", "connect", "up", "exited" or "panicked"
  agCreated,     \* the Kafka topic exists
  agSent,        \* readings data-receiver has read from its client
  agProducing,   \* readings with a ProduceData goroutine
  agTopic,       \* the topic's log
  agPos,         \* the consumer's position, or AgNoPos before the assignment
  agSub,         \* per domain event: "none", "on", "cancelled" or "closed"
  agPublish,     \* Publish goroutines: event, reading, and whether the lock is held
  agQueue,       \* sub.dataCH
  agHandled,     \* readings the handler of an event has been called with
  agPoints,      \* svc.points
  agStore,       \* distances of the InMemoryStore, each between two readings
  agInvoices,    \* distances invoiced by the invoicer
  agActive,      \* eb.isActive
  agSignal,      \* a SIGTERM has been received
  agFrom         \* history: the position when an event was subscribed

agBus  == <<agSub, agPublish, agQueue, agHandled, agActive, agFrom>>
agSvc  == <<agPoints, agStore, agInvoices>>
agIn   == <<agSent, agProducing, agTopic, agCreated>>
agVars == <<agUp, agCreated, agSent, agProducing, agTopic, agPos, agSub, agPublish,
            agQueue, agHandled, agPoints, agStore, agInvoices, agActive, agSignal,
            agFrom>>

AgNoPos == AgReadings + 1           \* no partition is assigned yet
AgOrigin == 0                       \* the zero value of svc.points
AgPayment == "calculate-payment"
AgDistance == "aggregate-distance"
AgEvents == <<AgPayment, AgDistance>>          \* in the order main subscribes them
AgEventSet == {AgPayment, AgDistance}

AgInit(up) ==
  /\ agUp \in up /\ agCreated \in BOOLEAN
  /\ agSent = 0 /\ agProducing = {} /\ agTopic = <<>> /\ agPos = AgNoPos
  /\ agSub = [e \in AgEventSet |-> "none"] /\ agPublish = {}
  /\ agQueue = [e \in AgEventSet |-> <<>>] /\ agHandled = [e \in AgEventSet |-> <<>>]
  /\ agPoints = <<AgOrigin, AgOrigin>> /\ agStore = <<>> /\ agInvoices = <<>>
  /\ agActive = TRUE /\ agSignal = FALSE /\ agFrom = [e \in AgEventSet |-> 0]
-----------------------------------------------------------------------------
(* data-receiver: a goroutine per reading, so readings reach Kafka in any  *)
(* order.                                                                  *)
AgAcceptWS ==
  /\ agUp # "off" /\ agSent < AgReadings
  /\ agSent' = agSent + 1 /\ agProducing' = agProducing \cup {agSent + 1}
  /\ UNCHANGED <<agUp, agCreated, agTopic, agPos, agBus, agSvc, agSignal>>

\* The producer may create the topic; its error is printed and the reading lost.
AgProduceData(r) ==
  /\ r \in agProducing /\ agProducing' = agProducing \ {r}
  /\ \/ agTopic' = Append(agTopic, r) /\ agCreated' = TRUE
     \/ UNCHANGED <<agTopic, agCreated>>
  /\ UNCHANGED <<agUp, agSent, agPos, agBus, agSvc, agSignal>>
-----------------------------------------------------------------------------
(* Start of data-aggregator.                                               *)
AgInitializeTopic ==
  /\ agUp = "start" /\ agUp' = "wait" /\ agCreated' = TRUE
  /\ UNCHANGED <<agSent, agProducing, agTopic, agPos, agBus, agSvc, agSignal>>

\* A failed admin call or an unreachable invoicer ends the process.
AgStartFails ==
  /\ agUp \in {"start", "connect"} /\ agUp' = "exited"
  /\ UNCHANGED <<agIn, agPos, agBus, agSvc, agSignal>>

AgTopicReady ==
  /\ agUp = "wait" /\ agCreated /\ agUp' = "connect"
  /\ UNCHANGED <<agIn, agPos, agBus, agSvc, agSignal>>

AgConnect ==
  /\ agUp = "connect" /\ agUp' = "up"
  /\ UNCHANGED <<agIn, agPos, agBus, agSvc, agSignal>>

\* A group without a committed offset starts at the end of the log (auto.offset.
\* reset is latest); one that has committed in an earlier run resumes there.
AgAssigned ==
  /\ agUp = "up" /\ agPos = AgNoPos /\ agPos' \in 0 .. Len(agTopic)
  /\ agFrom' = [e \in AgEventSet |-> agPos']
  /\ UNCHANGED <<agUp, agIn, agSub, agPublish, agQueue, agHandled, agActive, agSvc, agSignal>>

AgLockHeld == \E p \in agPublish : p.locked

AgSubscribe(i) ==
  LET e == AgEvents[i] IN
  /\ agUp = "up" /\ agSub[e] = "none" /\ ~AgLockHeld
  /\ \A j \in 1..(i - 1) : agSub[AgEvents[j]] # "none"
  /\ agSub' = [agSub EXCEPT ![e] = "on"]
  /\ agFrom' = [agFrom EXCEPT ![e] = agPos]
  /\ UNCHANGED <<agUp, agIn, agPos, agPublish, agQueue, agHandled, agSvc, agActive,
                 agSignal>>
-----------------------------------------------------------------------------
(* The event bus.                                                          *)
AgReadMessage ==
  /\ agUp = "up" /\ agActive /\ agPos # AgNoPos /\ agPos < Len(agTopic)
  /\ agPos' = agPos + 1
  /\ agPublish' = agPublish \cup
       {[event |-> e, reading |-> agTopic[agPos + 1], locked |-> FALSE] : e \in AgEventSet}
  /\ UNCHANGED <<agUp, agIn, agSub, agQueue, agHandled, agSvc, agActive, agFrom,
                 agSignal>>

\* An event nobody has subscribed yet is logged and dropped.
AgLookup(p) ==
  /\ agUp = "up" /\ p \in agPublish /\ ~p.locked
  /\ agPublish' = IF agSub[p.event] = "none" THEN agPublish \ {p}
                  ELSE (agPublish \ {p}) \cup {[p EXCEPT !.locked = TRUE]}
  /\ UNCHANGED <<agUp, agIn, agPos, agSub, agQueue, agHandled, agSvc, agActive, agFrom,
                 agSignal>>

AgPanic == agUp' = "panicked" /\ UNCHANGED <<agPublish, agQueue>>

\* Mutant: a full channel drops the reading instead of holding the publisher back.
AgSendDropsFull(p) ==
  /\ agUp = "up" /\ p \in agPublish /\ p.locked
  /\ IF agSub[p.event] = "closed" THEN AgPanic
     ELSE /\ agPublish' = agPublish \ {p} /\ UNCHANGED agUp
          /\ agQueue' = IF Len(agQueue[p.event]) < AgQueueSize
                        THEN [agQueue EXCEPT ![p.event] = Append(@, p.reading)] ELSE agQueue
  /\ UNCHANGED <<agIn, agPos, agSub, agHandled, agSvc, agActive, agFrom, agSignal>>

\* A send on a channel that processEvent has closed panics, and the process ends.
AgSend(p) ==
  /\ agUp = "up" /\ p \in agPublish /\ p.locked
  /\ \/ agSub[p.event] = "closed" /\ AgPanic
     \/ /\ agSub[p.event] # "closed" /\ Len(agQueue[p.event]) < AgQueueSize
        /\ agQueue' = [agQueue EXCEPT ![p.event] = Append(@, p.reading)]
        /\ agPublish' = agPublish \ {p} /\ UNCHANGED agUp
  /\ UNCHANGED <<agIn, agPos, agSub, agHandled, agSvc, agActive, agFrom, agSignal>>

\* Mutant: the new point is stored before the old one is moved.
AgAggregateSwapped(r) ==
  /\ agPoints' = <<r, r>>
  /\ agStore' = Append(agStore, agPoints')
  /\ agInvoices' \in {agInvoices, Append(agInvoices, agPoints')}

\* svc.points is an array, so its length is never 0 and the first distance is
\* taken from the origin.  The error of SaveInvoice is ignored.
AgAggregateDistance(r) ==
  /\ agPoints' = <<r, agPoints[1]>>
  /\ agStore' = Append(agStore, agPoints')
  /\ agInvoices' \in {agInvoices, Append(agInvoices, agPoints')}

AgProcessEvent(e) ==
  /\ agUp = "up" /\ agSub[e] \in {"on", "cancelled"} /\ agQueue[e] # <<>>
  /\ agQueue' = [agQueue EXCEPT ![e] = Tail(@)]
  /\ agHandled' = [agHandled EXCEPT ![e] = Append(@, Head(agQueue[e]))]
  /\ IF e = AgDistance THEN AgAggregateDistance(Head(agQueue[e])) ELSE UNCHANGED agSvc
  /\ UNCHANGED <<agUp, agIn, agPos, agSub, agPublish, agActive, agFrom, agSignal>>

\* SIGTERM: the subscriptions that exist are cancelled; main waits for one signal.
AgClose ==
  /\ agUp \notin {"off", "exited", "panicked"} /\ ~agSignal /\ agSignal' = TRUE
  /\ agSub' = [e \in AgEventSet |-> IF agSub[e] = "on" THEN "cancelled" ELSE agSub[e]]
  /\ UNCHANGED <<agUp, agIn, agPos, agPublish, agQueue, agHandled, agSvc, agActive, agFrom>>

\* Mutant: processEvent ends without taking the bus out of service.
AgDoneStaysActive(e) ==
  /\ agUp = "up" /\ agSub[e] = "cancelled"
  /\ agSub' = [agSub EXCEPT ![e] = "closed"]
  /\ UNCHANGED <<agUp, agIn, agPos, agPublish, agQueue, agHandled, agSvc, agActive, agFrom,
                 agSignal>>

AgDone(e) ==
  /\ agUp = "up" /\ agSub[e] = "cancelled"
  /\ agSub' = [agSub EXCEPT ![e] = "closed"] /\ agActive' = FALSE
  /\ UNCHANGED <<agUp, agIn, agPos, agPublish, agQueue, agHandled, agSvc, agFrom, agSignal>>

AgReadLoopExit ==
  /\ agUp = "up" /\ ~agActive /\ agUp' = "exited"
  /\ UNCHANGED <<agIn, agPos, agBus, agSvc, agSignal>>
AgNext ==
  \/ AgAcceptWS \/ AgInitializeTopic \/ AgStartFails \/ AgTopicReady \/ AgConnect
  \/ AgAssigned \/ AgReadMessage \/ AgClose \/ AgReadLoopExit
  \/ \E r \in 1..AgReadings : AgProduceData(r)
  \/ \E i \in DOMAIN AgEvents : AgSubscribe(i)
  \/ \E p \in agPublish : AgLookup(p) \/ AgSend(p)
  \/ \E e \in AgEventSet : AgProcessEvent(e) \/ AgDone(e)

AgSpec == AgInit({"start"}) /\ [][AgNext]_agVars

\* Every goroutine that can run runs: select serves a cancelled context even
\* while readings are waiting, and the read loop wakes up every 100 ms.
AgFairness ==
  /\ WF_agVars(AgReadLoopExit)
  /\ \A e \in AgEventSet : WF_agVars(AgDone(e))
-----------------------------------------------------------------------------
\* While the process runs, a reading read after its event was subscribed is in
\* a Publish goroutine, in the channel or handled, and only once, for each event
\* whose loop runs: a full channel holds publishers back and drops nothing.
\* (ReadMessageLoop, Publish, processEvent)
AgNoneLost ==
  \A e \in AgEventSet :
    agUp = "up" /\ agSub[e] \in {"on", "cancelled"} /\ agPos # AgNoPos =>
      \A i \in (agFrom[e] + 1)..agPos :
        LET r == agTopic[i] IN
        Cardinality({p \in agPublish : p.event = e /\ p.reading = r})
          + Cardinality({j \in DOMAIN agQueue[e] : agQueue[e][j] = r})
          + Cardinality({j \in DOMAIN agHandled[e] : agHandled[e][j] = r}) = 1

\* The stored distances are one path from the origin through the readings in
\* the order they were handled, and the invoices are for some of them in that
\* order, although readings arrive in any order and SaveInvoice may fail.
\* (AggregateDistance, SaveInvoice)
AgDistancesFormPath ==
  /\ Len(agStore) = Len(agHandled[AgDistance])
  /\ \A i \in DOMAIN agStore :
       agStore[i] = <<agHandled[AgDistance][i],
                      IF i = 1 THEN AgOrigin ELSE agHandled[AgDistance][i - 1]>>
  /\ \E f \in [DOMAIN agInvoices -> DOMAIN agStore] :
       /\ \A i, j \in DOMAIN agInvoices : i < j => f[i] < f[j]
       /\ \A i \in DOMAIN agInvoices : agInvoices[i] = agStore[f[i]]

\* A SIGTERM that finds a subscription ends the process, through os.Exit or a
\* panic of a publisher.  (Close, processEvent, ReadMessageLoop)
AgStops == (\E e \in AgEventSet : agSub[e] = "cancelled") ~> agUp \in {"exited", "panicked"}

=============================================================================
