------------------------------- MODULE Outbox -------------------------------
(***************************************************************************)
(* The http-server of kafka-outbox: payments saved together with an outbox *)
(* event in one transaction, and the loop that polls the pending events,   *)
(* hands them to the Kafka producer and marks them produced.               *)
(*                                                                         *)
(* Any number of servers share one database.  A transaction is a sequence  *)
(* of steps whose writes become visible when it commits (Read Committed);  *)
(* a unique index or a row lock makes a transaction wait for another.      *)
(* Produce only puts a message into the producer's local queue: delivery,  *)
(* its failure and the loss of the queue in a crash come later.  Messages  *)
(* of one topic are spread over its partitions, so their order is left out.*)
(***************************************************************************)
EXTENDS Integers, Sequences

CONSTANTS Orders,      \* order numbers; an event is named by its order
          Topics,      \* config.DefaultTopics, in the order Produce goes through
          Servers,     \* http-server processes
          MaxFaults    \* bound: failed statements, deliveries, crashes

ASSUME OutboxAssumption == /\ Len(Topics) \in Nat
                           /\ MaxFaults \in Nat

VARIABLES
  payments,   \* committed rows of payment_orders
  events,     \* committed rows of events: order -> EventStatus, a partial function
  saving,     \* per server, the open transaction of PaymentService.Save
  polling,    \* per server, the open transaction of handlePending
  queue,      \* per server, copies in the producer's queue: <<order, topic>> -> number
  log,        \* messages the broker has taken: <<order, topic>> -> number
  gone,       \* history: copies lost by a failed delivery or a crash
  faults      \* faults so far

saveVars == <<payments, saving>>
relayVars == <<queue, log, gone>>
outboxVars == <<saveVars, events, polling, relayVars, faults>>

TopicSet == {Topics[i] : i \in 1 .. Len(Topics)}
Copies == Orders \X TopicSet

Pending  == "pending"
Produced == "produced"

NoSave == [stage |-> "idle"]
NoPoll == [stage |-> "idle", batch |-> {}, ids |-> {}]
Empty == [c \in Copies |-> 0]

OutboxInit ==
  /\ payments = {} /\ events = [o \in {} |-> Pending]
  /\ saving = [s \in Servers |-> NoSave]
  /\ polling = [s \in Servers |-> NoPoll]
  /\ queue = [s \in Servers |-> Empty]
  /\ log = Empty /\ gone = {} /\ faults = 0

Fault == faults < MaxFaults /\ faults' = faults + 1

(***************************************************************************)
(* PaymentService.Save under TxClosure                                     *)
(***************************************************************************)
\* The order's uncommitted row in another transaction makes an insert wait.
Inserting(o) == \E s \in Servers : saving[s].stage # "idle" /\ saving[s].order = o

\* paymentRepo.Insert.  A duplicate order number is an error: nothing changes.
InsertPayment(s, o) ==
  /\ saving[s].stage = "idle"
  /\ o \notin payments /\ ~Inserting(o)
  /\ saving' = [saving EXCEPT ![s] = [stage |-> "payment", order |-> o]]
  /\ UNCHANGED <<payments, events, polling, relayVars, faults>>

\* eventRepo.Insert of a pending event
InsertEvent(s) ==
  /\ saving[s].stage = "payment"
  /\ saving' = [saving EXCEPT ![s].stage = "event"]
  /\ UNCHANGED <<payments, events, polling, relayVars, faults>>

\* Mutant: an error of eventRepo.Insert is dropped and TxClosure commits.
SaveCommitEarly(s) ==
  /\ saving[s].stage \in {"payment", "event"}
  /\ payments' = payments \cup {saving[s].order}
  /\ events' = [o \in DOMAIN events \cup
                  (IF saving[s].stage = "event" THEN {saving[s].order} ELSE {}) |->
                  IF o \in DOMAIN events THEN events[o] ELSE Pending]
  /\ saving' = [saving EXCEPT ![s] = NoSave]
  /\ UNCHANGED <<polling, relayVars, faults>>

SaveCommit(s) ==
  /\ saving[s].stage = "event"
  /\ payments' = payments \cup {saving[s].order}
  /\ events' = [o \in DOMAIN events \cup {saving[s].order} |->
                  IF o \in DOMAIN events THEN events[o] ELSE Pending]
  /\ saving' = [saving EXCEPT ![s] = NoSave]
  /\ UNCHANGED <<polling, relayVars, faults>>

\* A statement or the commit fails, or the context expires: rollback.
SaveAbort(s) ==
  /\ saving[s].stage # "idle" /\ Fault
  /\ saving' = [saving EXCEPT ![s] = NoSave]
  /\ UNCHANGED <<payments, events, polling, relayVars>>

(***************************************************************************)
(* handlePending under TxClosure                                           *)
(***************************************************************************)
PendingEvents == {o \in DOMAIN events : events[o] = Pending}

\* A poll that finds nothing ends in an error of sqlx.In and changes nothing.
GetAllPending(s) ==
  /\ polling[s].stage = "idle" /\ PendingEvents # {}
  /\ polling' = [polling EXCEPT ![s] =
       [stage |-> "produce", batch |-> PendingEvents, ids |-> {}]]
  /\ UNCHANGED <<saveVars, events, relayVars, faults>>

\* The first n topics get a copy of the event.
Enqueued(s, o, n) ==
  [queue EXCEPT ![s] = [c \in Copies |->
     IF \E i \in 1 .. n : c = <<o, Topics[i]>> THEN queue[s][c] + 1 ELSE queue[s][c]]]

Produce(s, o) ==
  /\ polling[s].stage = "produce" /\ o \in polling[s].batch
  /\ queue' = Enqueued(s, o, Len(Topics))
  /\ polling' = [polling EXCEPT ![s].batch = @ \ {o}, ![s].ids = @ \cup {o}]
  /\ UNCHANGED <<saveVars, events, log, gone, faults>>

\* Mutant: an event whose Produce failed is marked produced too.
ProduceErrMarked(s, o) ==
  /\ polling[s].stage = "produce" /\ o \in polling[s].batch /\ Fault
  /\ \E n \in 0 .. Len(Topics) - 1 : queue' = Enqueued(s, o, n)
  /\ polling' = [polling EXCEPT ![s].batch = @ \ {o}, ![s].ids = @ \cup {o}]
  /\ UNCHANGED <<saveVars, events, log, gone>>

\* The queue is full at one of the topics, the earlier ones have their copy:
\* the event is skipped and stays pending.
ProduceErr(s, o) ==
  /\ polling[s].stage = "produce" /\ o \in polling[s].batch /\ Fault
  /\ \E n \in 0 .. Len(Topics) - 1 : queue' = Enqueued(s, o, n)
  /\ polling' = [polling EXCEPT ![s].batch = @ \ {o}]
  /\ UNCHANGED <<saveVars, events, log, gone>>

\* UpdateStatusByIds waits for row locks of other polls.
UpdateStatusByIds(s) ==
  /\ polling[s].stage = "produce" /\ polling[s].batch = {} /\ polling[s].ids # {}
  /\ \A t \in Servers : polling[t].stage = "update" =>
       polling[t].ids \cap polling[s].ids = {}
  /\ polling' = [polling EXCEPT ![s].stage = "update"]
  /\ UNCHANGED <<saveVars, events, relayVars, faults>>

PollCommit(s) ==
  /\ polling[s].stage = "update"
  /\ events' = [o \in DOMAIN events |->
                  IF o \in polling[s].ids THEN Produced ELSE events[o]]
  /\ polling' = [polling EXCEPT ![s] = NoPoll]
  /\ UNCHANGED <<saveVars, relayVars, faults>>

\* Mutant: outboxLoop returns when handlePending fails.
PollAbortReturns(s) ==
  /\ polling[s].stage # "idle" /\ Fault
  /\ polling' = [polling EXCEPT ![s] = [NoPoll EXCEPT !.stage = "returned"]]
  /\ UNCHANGED <<saveVars, events, relayVars>>

\* A statement or the commit fails, or the context expires: the events stay
\* pending although their copies are on their way.
PollAbort(s) ==
  /\ polling[s].stage # "idle" /\ Fault
  /\ polling' = [polling EXCEPT ![s] = NoPoll]
  /\ UNCHANGED <<saveVars, events, relayVars>>

\* Every event of the batch failed: sqlx.In refuses the empty list of ids.
NothingProduced(s) ==
  /\ polling[s].stage = "produce" /\ polling[s].batch = {} /\ polling[s].ids = {}
  /\ polling' = [polling EXCEPT ![s] = NoPoll]
  /\ UNCHANGED <<saveVars, events, relayVars, faults>>

(***************************************************************************)
(* The producer's background delivery, and the process                     *)
(***************************************************************************)
Deliver(s, c) ==
  /\ queue[s][c] > 0
  /\ queue' = [queue EXCEPT ![s][c] = @ - 1]
  /\ log' = [log EXCEPT ![c] = @ + 1]
  /\ UNCHANGED <<saveVars, events, polling, gone, faults>>

\* "Delivery failed" is logged and nothing else happens.
DeliveryFailed(s, c) ==
  /\ queue[s][c] > 0 /\ Fault
  /\ queue' = [queue EXCEPT ![s][c] = @ - 1]
  /\ gone' = gone \cup {c}
  /\ UNCHANGED <<saveVars, events, polling, log>>

ServerCrash(s) ==
  /\ Fault
  /\ saving' = [saving EXCEPT ![s] = NoSave]
  /\ polling' = [polling EXCEPT ![s] = NoPoll]
  /\ queue' = [queue EXCEPT ![s] = Empty]
  /\ gone' = gone \cup {c \in Copies : queue[s][c] > 0}
  /\ UNCHANGED <<payments, events, log>>

Save(s) == \/ \E o \in Orders : InsertPayment(s, o)
           \/ InsertEvent(s) \/ SaveCommit(s) \/ SaveAbort(s)

HandlePending(s) ==
  \/ GetAllPending(s)
  \/ \E o \in Orders : Produce(s, o) \/ ProduceErr(s, o)
  \/ UpdateStatusByIds(s) \/ PollCommit(s) \/ PollAbort(s) \/ NothingProduced(s)

Delivery(s) == \E c \in Copies : Deliver(s, c) \/ DeliveryFailed(s, c)

OutboxNext ==
  \E s \in Servers : Save(s) \/ HandlePending(s) \/ Delivery(s) \/ ServerCrash(s)

OutboxSpec == OutboxInit /\ [][OutboxNext]_outboxVars
-----------------------------------------------------------------------------
Stages == {"idle", "payment", "event"}

\* Types.  (event-repo.go:35-44, outbox.service.go:15-18)
OutboxTypeOK ==
  /\ payments \subseteq Orders
  /\ DOMAIN events \subseteq Orders /\ \A o \in DOMAIN events : events[o] \in {Pending, Produced}
  /\ saving \in [Servers -> {NoSave} \cup [stage : {"payment", "event"}, order : Orders]]
  /\ polling \in [Servers -> [stage : {"idle", "produce", "update"},
                              batch : SUBSET Orders, ids : SUBSET Orders]]
  /\ queue \in [Servers -> [Copies -> Nat]]
  /\ log \in [Copies -> Nat] /\ gone \subseteq Copies /\ faults \in Nat

\* PaymentService.Save is atomic: there is a payment for every event and an
\* event for every payment, however transactions fail, wait or crash.
PaymentHasEvent == payments = DOMAIN events

\* A copy that waits in a producer's queue.
Queued(c) == \E s \in Servers : queue[s][c] > 0
Delivered(c) == log[c] > 0

\* Nothing is announced that did not happen: every copy on its way or at the
\* broker is of a committed payment, although Produce runs inside a
\* transaction that may still roll back.
AnnouncedIsPaid ==
  \A c \in Copies : Queued(c) \/ Delivered(c) => c[1] \in payments

\* handlePending marks an event produced only when every topic has its copy:
\* the copy waits in a queue, has reached the broker, or was lost on the way
\* by a failed delivery or a crash.
ProducedHasCopies ==
  \A o \in DOMAIN events : events[o] = Produced =>
    \A t \in TopicSet : Queued(<<o, t>>) \/ Delivered(<<o, t>>) \/ <<o, t>> \in gone
-----------------------------------------------------------------------------
(***************************************************************************)
(* The inductive invariant: polled events exist, and the ones about to be  *)
(* marked have had a copy made for every topic.                            *)
(***************************************************************************)
Made(c) == Queued(c) \/ Delivered(c) \/ c \in gone

PolledIsMade ==
  \A s \in Servers : /\ polling[s].batch \subseteq payments
                     /\ \A o \in polling[s].ids : o \in payments /\ \A t \in TopicSet : Made(<<o, t>>)

\* The row lock on an order number: what is being saved is not saved yet, and
\* no two transactions save the same order.
OrderLocked ==
  /\ \A s, t \in Servers : saving[s].stage # "idle" /\ saving[t].stage # "idle"
                             /\ saving[s].order = saving[t].order => s = t
  /\ \A s \in Servers : saving[s].stage # "idle" => saving[s].order \notin payments

OutboxInv == PolledIsMade /\ OrderLocked

=============================================================================
