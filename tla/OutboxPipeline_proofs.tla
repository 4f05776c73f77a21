------------------------ MODULE OutboxPipeline_proofs ------------------------
(***************************************************************************)
(* Proofs about kafka-outbox, for any number of orders, topics, servers,   *)
(* handlers and faults.                                                    *)
(*                                                                         *)
(* First the producing side, Outbox: a payment and its event are saved     *)
(* together, only what was paid is announced, and an event marked produced *)
(* has had a copy made for every topic.  Then both sides: an event is      *)
(* audited at most once, an offset is committed only for what was audited, *)
(* hit by a failure or skipped by a state that two topics share, an event  *)
(* that was produced is lost only when every topic's copy is, and the two  *)
(* tables follow AuditTrail.                                               *)
(***************************************************************************)
EXTENDS OutboxPipeline, TLAPS

(***************************************************************************)
(* The producing side                                                      *)
(***************************************************************************)
\* What the steps preserve together.
OutboxIInv ==
  OutboxTypeOK /\ PaymentHasEvent /\ AnnouncedIsPaid /\ ProducedHasCopies /\ OutboxInv

-----------------------------------------------------------------------------
\* The copies Produce makes of an event are copies.
LEMMA CopyOfTopic ==
  ASSUME NEW o \in Orders, NEW i \in 1 .. Len(Topics)
  PROVE  <<o, Topics[i]>> \in Copies
  BY DEF Copies, TopicSet

\* What Produce puts into a server's queue: numbers only grow, only copies of
\* the event are added, and the first n topics have one.
LEMMA EnqueuedFacts ==
  ASSUME queue \in [Servers -> [Copies -> Nat]],
         NEW s \in Servers, NEW o \in Orders, NEW n \in 0 .. Len(Topics)
  PROVE  /\ Enqueued(s, o, n) \in [Servers -> [Copies -> Nat]]
         /\ \A u \in Servers, c \in Copies :
              /\ Enqueued(s, o, n)[u][c] >= queue[u][c]
              /\ Enqueued(s, o, n)[u][c] > queue[u][c] => c[1] = o
         /\ \A i \in 1 .. n : Enqueued(s, o, n)[s][<<o, Topics[i]>>] > 0
  <1> DEFINE row == [c \in Copies |->
               IF \E i \in 1 .. n : c = <<o, Topics[i]>> THEN queue[s][c] + 1 ELSE queue[s][c]]
  <1>1. row \in [Copies -> Nat]
    OBVIOUS
  <1>2. /\ Enqueued(s, o, n) \in [Servers -> [Copies -> Nat]]
        /\ Enqueued(s, o, n)[s] = row
        /\ \A u \in Servers : u # s => Enqueued(s, o, n)[u] = queue[u]
    BY <1>1 DEF Enqueued
  <1>3. \A c \in Copies : /\ row[c] >= queue[s][c]
                          /\ row[c] > queue[s][c] => c[1] = o
    OBVIOUS
  <1>4. ASSUME NEW i \in 1 .. n PROVE row[<<o, Topics[i]>>] > 0
    <2>1. <<o, Topics[i]>> \in Copies
      <3>1. i \in 1 .. Len(Topics)
        BY OutboxAssumption
      <3> QED
        BY <3>1, CopyOfTopic
    <2>2. PICK c \in Copies : c = <<o, Topics[i]>>
      BY <2>1
    <2>3. row[c] = queue[s][c] + 1
      BY <2>2
    <2>4. queue[s][c] \in Nat
      OBVIOUS
    <2> QED
      BY <2>2, <2>3, <2>4
  <1>5. \A u \in Servers, c \in Copies : queue[u][c] \in Nat
    OBVIOUS
  <1> HIDE DEF row
  <1>6. ASSUME NEW u \in Servers, NEW c \in Copies
        PROVE  /\ Enqueued(s, o, n)[u][c] >= queue[u][c]
               /\ Enqueued(s, o, n)[u][c] > queue[u][c] => c[1] = o
    <2>1. CASE u = s
      BY <2>1, <1>2, <1>3
    <2>2. CASE u # s
      BY <2>2, <1>2, <1>5
    <2> QED
      BY <2>1, <2>2
  <1>7. \A i \in 1 .. n : Enqueued(s, o, n)[s][<<o, Topics[i]>>] > 0
    BY <1>2, <1>4
  <1> QED
    BY <1>2, <1>6, <1>7

\* An open transaction of PaymentService.Save names its order.
LEMMA SavingFacts ==
  ASSUME OutboxTypeOK, NEW s \in Servers
  PROVE  /\ saving[s].stage \in Stages
         /\ saving[s].stage # "idle" => /\ saving[s] \in [stage : {"payment", "event"}, order : Orders]
                                        /\ saving[s].order \in Orders
  BY DEF OutboxTypeOK, NoSave, Stages

-----------------------------------------------------------------------------
LEMMA InitTyped == OutboxInit => OutboxTypeOK
  BY DEF OutboxInit, OutboxTypeOK, NoSave, NoPoll, Empty

\* The rows and queues keep their types.
LEMMA NextTyped ==
  ASSUME OutboxTypeOK, [OutboxNext]_outboxVars
  PROVE  OutboxTypeOK'
  <1> USE DEF saveVars, relayVars, Fault
  <1>0. CASE UNCHANGED outboxVars
    BY <1>0 DEF OutboxTypeOK, outboxVars
  <1>1. ASSUME NEW s \in Servers, Save(s) PROVE OutboxTypeOK'
    <2>1. ASSUME NEW o \in Orders, InsertPayment(s, o) PROVE OutboxTypeOK'
      BY <2>1 DEF OutboxTypeOK, InsertPayment
    <2>2. CASE InsertEvent(s)
      <3>1. saving[s] \in [stage : {"payment", "event"}, order : Orders]
        BY <2>2, SavingFacts DEF InsertEvent
      <3> QED
        BY <2>2, <3>1 DEF OutboxTypeOK, InsertEvent
    <2>3. CASE SaveCommit(s)
      BY <2>3, SavingFacts DEF OutboxTypeOK, SaveCommit
    <2>4. CASE SaveAbort(s)
      BY <2>4 DEF OutboxTypeOK, SaveAbort
    <2> QED
      BY <1>1, <2>1, <2>2, <2>3, <2>4 DEF Save
  <1>2. ASSUME NEW s \in Servers, HandlePending(s) PROVE OutboxTypeOK'
    <2>1. CASE GetAllPending(s)
      BY <2>1 DEF OutboxTypeOK, GetAllPending, PendingEvents
    <2>2. ASSUME NEW o \in Orders, Produce(s, o) PROVE OutboxTypeOK'
      <3>1. Len(Topics) \in 0 .. Len(Topics)
        BY OutboxAssumption
      <3>2. queue' \in [Servers -> [Copies -> Nat]]
        BY <2>2, <3>1, EnqueuedFacts DEF OutboxTypeOK, Produce
      <3> QED
        BY <2>2, <3>2 DEF OutboxTypeOK, Produce
    <2>3. ASSUME NEW o \in Orders, ProduceErr(s, o) PROVE OutboxTypeOK'
      <3>1. PICK n \in 0 .. Len(Topics) - 1 : queue' = Enqueued(s, o, n)
        BY <2>3 DEF ProduceErr
      <3>2. n \in 0 .. Len(Topics)
        BY OutboxAssumption
      <3>3. queue' \in [Servers -> [Copies -> Nat]]
        BY <3>1, <3>2, EnqueuedFacts DEF OutboxTypeOK
      <3>4. polling' \in [Servers -> [stage : {"idle", "produce", "update"},
                                      batch : SUBSET Orders, ids : SUBSET Orders]]
        BY <2>3 DEF OutboxTypeOK, ProduceErr
      <3>5. faults' \in Nat /\ UNCHANGED <<payments, saving, events, log, gone>>
        BY <2>3 DEF OutboxTypeOK, ProduceErr
      <3> QED
        BY <3>3, <3>4, <3>5 DEF OutboxTypeOK
    <2>4. CASE UpdateStatusByIds(s)
      BY <2>4 DEF OutboxTypeOK, UpdateStatusByIds
    <2>5. CASE PollCommit(s)
      BY <2>5 DEF OutboxTypeOK, PollCommit, NoPoll
    <2>6. CASE PollAbort(s)
      BY <2>6 DEF OutboxTypeOK, PollAbort, NoPoll
    <2>7. CASE NothingProduced(s)
      BY <2>7 DEF OutboxTypeOK, NothingProduced, NoPoll
    <2> QED
      BY <1>2, <2>1, <2>2, <2>3, <2>4, <2>5, <2>6, <2>7 DEF HandlePending
  <1>3. ASSUME NEW s \in Servers, Delivery(s) PROVE OutboxTypeOK'
    <2>1. ASSUME NEW c \in Copies, Deliver(s, c) PROVE OutboxTypeOK'
      BY <2>1 DEF OutboxTypeOK, Deliver
    <2>2. ASSUME NEW c \in Copies, DeliveryFailed(s, c) PROVE OutboxTypeOK'
      BY <2>2 DEF OutboxTypeOK, DeliveryFailed
    <2> QED
      BY <1>3, <2>1, <2>2 DEF Delivery
  <1>4. ASSUME NEW s \in Servers, ServerCrash(s) PROVE OutboxTypeOK'
    BY <1>4 DEF OutboxTypeOK, ServerCrash, NoPoll, Empty
  <1> QED
    BY <1>0, <1>1, <1>2, <1>3, <1>4 DEF OutboxNext

-----------------------------------------------------------------------------
\* A server's step, by what it does to the relay: nothing, or it queues copies
\* of an event of its batch, or it sends, drops or loses what its queue holds.
RelayKept == UNCHANGED relayVars
RelayGrows ==
  \E s \in Servers, o \in Orders, n \in 0 .. Len(Topics) :
    /\ polling[s].stage = "produce" /\ o \in polling[s].batch
    /\ queue' = Enqueued(s, o, n)
    /\ UNCHANGED <<payments, events, log, gone>>
RelayMoves ==
  \E s \in Servers :
    \/ \E c \in Copies : Deliver(s, c) \/ DeliveryFailed(s, c)
    \/ ServerCrash(s)

LEMMA RelaySteps ==
  ASSUME [OutboxNext]_outboxVars
  PROVE  RelayKept \/ RelayGrows \/ RelayMoves
  <1>0. CASE UNCHANGED outboxVars
    BY <1>0 DEF outboxVars, RelayKept
  <1>1. ASSUME NEW s \in Servers, Save(s) PROVE RelayKept
    BY <1>1 DEF Save, InsertPayment, InsertEvent, SaveCommit, SaveAbort, RelayKept
  <1>2. ASSUME NEW s \in Servers, HandlePending(s) PROVE RelayKept \/ RelayGrows
    <2>1. ASSUME NEW o \in Orders, Produce(s, o) PROVE RelayGrows
      <3>1. Len(Topics) \in 0 .. Len(Topics)
        BY OutboxAssumption
      <3> QED
        BY <2>1, <3>1 DEF Produce, RelayGrows, saveVars
    <2>2. ASSUME NEW o \in Orders, ProduceErr(s, o) PROVE RelayGrows
      <3>1. PICK n \in 0 .. Len(Topics) - 1 : queue' = Enqueued(s, o, n)
        BY <2>2 DEF ProduceErr
      <3>2. n \in 0 .. Len(Topics)
        BY OutboxAssumption
      <3>3. /\ polling[s].stage = "produce" /\ o \in polling[s].batch
            /\ UNCHANGED <<payments, events, log, gone>>
        BY <2>2 DEF ProduceErr, saveVars
      <3> QED
        BY <3>1, <3>2, <3>3 DEF RelayGrows
    <2>3. CASE GetAllPending(s) \/ UpdateStatusByIds(s) \/ PollCommit(s)
                 \/ PollAbort(s) \/ NothingProduced(s)
      BY <2>3 DEF GetAllPending, UpdateStatusByIds, PollCommit, PollAbort,
                  NothingProduced, RelayKept
    <2> QED
      BY <1>2, <2>1, <2>2, <2>3 DEF HandlePending
  <1> QED
    BY <1>0, <1>1, <1>2 DEF OutboxNext, Delivery, RelayMoves

\* A copy that was made stays accounted for: it waits, is at the broker or is
\* known to be lost.
LEMMA MadeStays ==
  ASSUME OutboxTypeOK, [OutboxNext]_outboxVars, NEW c \in Copies, Made(c)
  PROVE  Made(c)'
  <1> USE DEF Made, Queued, Delivered
  <1>1. CASE RelayKept
    BY <1>1 DEF RelayKept, relayVars
  <1>2. CASE RelayGrows
    <2>1. PICK s \in Servers, o \in Orders, n \in 0 .. Len(Topics) :
            queue' = Enqueued(s, o, n) /\ UNCHANGED <<log, gone>>
      BY <1>2 DEF RelayGrows
    <2>2. \A u \in Servers : queue'[u][c] >= queue[u][c]
      BY <2>1, EnqueuedFacts DEF OutboxTypeOK
    <2>3. \A u \in Servers : queue[u][c] \in Nat /\ queue'[u][c] \in Nat
      BY NextTyped DEF OutboxTypeOK
    <2> QED
      BY <2>1, <2>2, <2>3
  <1>3. ASSUME NEW s \in Servers, NEW d \in Copies, Deliver(s, d) PROVE Made(c)'
    BY <1>3 DEF Deliver, OutboxTypeOK
  <1>4. ASSUME NEW s \in Servers, NEW d \in Copies, DeliveryFailed(s, d) PROVE Made(c)'
    BY <1>4 DEF DeliveryFailed, OutboxTypeOK
  <1>5. ASSUME NEW s \in Servers, ServerCrash(s) PROVE Made(c)'
    BY <1>5 DEF ServerCrash, OutboxTypeOK
  <1> QED
    BY <1>1, <1>2, <1>3, <1>4, <1>5, RelaySteps DEF RelayMoves

\* Payments are never deleted.
LEMMA PaymentsStay ==
  ASSUME [OutboxNext]_outboxVars
  PROVE  payments \subseteq payments'
  BY DEF OutboxNext, outboxVars, saveVars, Save, InsertPayment, InsertEvent, SaveCommit,
         SaveAbort, HandlePending, GetAllPending, Produce, ProduceErr, UpdateStatusByIds,
         PollCommit, PollAbort, NothingProduced, Delivery, Deliver, DeliveryFailed, ServerCrash

\* Save puts both rows there in one step, and polls change no key of events.
LEMMA NextPaymentHasEvent ==
  ASSUME PaymentHasEvent, [OutboxNext]_outboxVars
  PROVE  PaymentHasEvent'
  BY DEF PaymentHasEvent, OutboxNext, outboxVars, saveVars, Save, InsertPayment, InsertEvent,
         SaveCommit, SaveAbort, HandlePending, GetAllPending, Produce, ProduceErr,
         UpdateStatusByIds, PollCommit, PollAbort, NothingProduced, Delivery, Deliver,
         DeliveryFailed, ServerCrash

\* Only events of a batch are produced, and a batch holds saved payments.
LEMMA NextAnnouncedIsPaid ==
  ASSUME OutboxIInv, [OutboxNext]_outboxVars
  PROVE  AnnouncedIsPaid'
  <1> SUFFICES ASSUME NEW c \in Copies, Queued(c)' \/ Delivered(c)'
               PROVE  c[1] \in payments'
    BY DEF AnnouncedIsPaid
  <1> USE DEF Queued, Delivered
  <1>0. OutboxTypeOK /\ OutboxTypeOK' /\ payments \subseteq payments'
    BY NextTyped, PaymentsStay DEF OutboxIInv
  <1>1. CASE Queued(c) \/ Delivered(c)
    BY <1>0, <1>1 DEF OutboxIInv, AnnouncedIsPaid
  <1>2. CASE ~(Queued(c) \/ Delivered(c))
    <2>1. \A u \in Servers : queue[u][c] = 0
      BY <1>0, <1>2 DEF OutboxTypeOK
    <2>2. log[c] = 0
      BY <1>0, <1>2 DEF OutboxTypeOK
    <2>3. CASE RelayKept
      BY <2>1, <2>2, <2>3 DEF RelayKept, relayVars
    <2>4. CASE RelayGrows
      <3>1. PICK s \in Servers, o \in Orders, n \in 0 .. Len(Topics) :
              /\ o \in polling[s].batch
              /\ queue' = Enqueued(s, o, n) /\ UNCHANGED log
        BY <2>4 DEF RelayGrows
      <3>2. PICK u \in Servers : queue'[u][c] > 0
        BY <2>2, <3>1
      <3>3. c[1] = o
        BY <1>0, <2>1, <3>1, <3>2, EnqueuedFacts DEF OutboxTypeOK
      <3> QED
        BY <1>0, <3>1, <3>3 DEF OutboxIInv, OutboxInv, PolledIsMade
    <2>5. CASE RelayMoves
      <3>1. ASSUME NEW s \in Servers, NEW d \in Copies, Deliver(s, d) PROVE FALSE
        <4>1. d # c
          BY <2>1, <3>1 DEF Deliver
        <4>2. log'[c] = 0
          BY <1>0, <2>2, <3>1, <4>1 DEF Deliver, OutboxTypeOK
        <4>3. \A u \in Servers : queue'[u][c] = 0
          BY <1>0, <2>1, <3>1, <4>1 DEF Deliver, OutboxTypeOK
        <4> QED
          BY <4>2, <4>3
      <3>2. ASSUME NEW s \in Servers, NEW d \in Copies, DeliveryFailed(s, d) PROVE FALSE
        <4>1. d # c
          BY <2>1, <3>2 DEF DeliveryFailed
        <4>2. \A u \in Servers : queue'[u][c] = 0
          BY <1>0, <2>1, <3>2, <4>1 DEF DeliveryFailed, OutboxTypeOK
        <4> QED
          BY <2>2, <3>2, <4>2 DEF DeliveryFailed
      <3>3. ASSUME NEW s \in Servers, ServerCrash(s) PROVE FALSE
        <4>1. \A u \in Servers : queue'[u][c] = 0
          BY <1>0, <2>1, <3>3 DEF ServerCrash, OutboxTypeOK, Empty
        <4> QED
          BY <2>2, <3>3, <4>1 DEF ServerCrash
      <3> QED
        BY <2>5, <3>1, <3>2, <3>3 DEF RelayMoves
    <2> QED
      BY <2>3, <2>4, <2>5, RelaySteps
  <1> QED
    BY <1>1, <1>2

\* PollCommit marks the ids of its transaction, which have had their copies.
LEMMA NextProducedHasCopies ==
  ASSUME OutboxIInv, [OutboxNext]_outboxVars
  PROVE  ProducedHasCopies'
  <1> SUFFICES ASSUME NEW o \in DOMAIN events', events'[o] = Produced, NEW t \in TopicSet
               PROVE  Made(<<o, t>>)'
    BY DEF ProducedHasCopies, Made
  <1>0. OutboxTypeOK /\ OutboxTypeOK'
    BY NextTyped DEF OutboxIInv
  <1>1. <<o, t>> \in Copies
    BY <1>0 DEF OutboxTypeOK, Copies
  <1>2. SUFFICES Made(<<o, t>>)
    BY <1>0, <1>1, <1>2, MadeStays
  <1>3. CASE o \in DOMAIN events /\ events[o] = Produced
    BY <1>3 DEF OutboxIInv, ProducedHasCopies, Made
  <1>4. CASE ~(o \in DOMAIN events /\ events[o] = Produced)
    <2>1. ASSUME NEW s \in Servers, SaveCommit(s) PROVE FALSE
      BY <1>4, <2>1 DEF SaveCommit, Pending, Produced
    <2>2. ASSUME NEW s \in Servers, PollCommit(s) PROVE o \in polling[s].ids
      BY <1>4, <2>2 DEF PollCommit
    <2>3. \/ UNCHANGED events
          \/ \E s \in Servers : SaveCommit(s) \/ PollCommit(s)
      BY DEF OutboxNext, outboxVars, Save, InsertPayment, InsertEvent, SaveAbort,
             HandlePending, GetAllPending, Produce, ProduceErr, UpdateStatusByIds, PollAbort,
             NothingProduced, Delivery, Deliver, DeliveryFailed, ServerCrash
    <2>4. PICK s \in Servers : PollCommit(s)
      BY <1>4, <2>1, <2>3
    <2> QED
      BY <2>2, <2>4 DEF OutboxIInv, OutboxInv, PolledIsMade
  <1> QED
    BY <1>3, <1>4

\* InsertPayment waits for the row of the same order, so the lock is exclusive.
LEMMA NextOrderLocked ==
  ASSUME OutboxIInv, [OutboxNext]_outboxVars
  PROVE  OrderLocked'
  <1> USE DEF NoSave, Fault, saveVars
  <1>0. OutboxTypeOK /\ OrderLocked
    BY DEF OutboxIInv, OutboxInv
  <1>1. CASE UNCHANGED saveVars
    BY <1>0, <1>1 DEF OrderLocked
  <1>2. ASSUME NEW u \in Servers, NEW o \in Orders, InsertPayment(u, o)
        PROVE  /\ saving' = [saving EXCEPT ![u] = [stage |-> "payment", order |-> o]]
               /\ o \notin payments /\ payments' = payments
               /\ \A s \in Servers : saving[s].stage # "idle" => saving[s].order # o
    BY <1>2 DEF InsertPayment, Inserting
  <1>3. ASSUME NEW u \in Servers, InsertEvent(u)
        PROVE  /\ payments' = payments
               /\ \A s \in Servers : s # u => saving'[s] = saving[s]
               /\ saving'[u].order = saving[u].order /\ saving[u].stage # "idle"
    <2>1. saving[u] \in [stage : {"payment", "event"}, order : Orders]
      BY <1>0, <1>3, SavingFacts DEF InsertEvent
    <2> QED
      BY <1>0, <1>3, <2>1 DEF InsertEvent, OutboxTypeOK
  <1>4. ASSUME NEW u \in Servers, SaveCommit(u)
        PROVE  /\ payments' = payments \cup {saving[u].order} /\ saving[u].stage # "idle"
               /\ saving' = [saving EXCEPT ![u] = NoSave]
    BY <1>4 DEF SaveCommit
  <1>5. ASSUME NEW u \in Servers, SaveAbort(u) \/ ServerCrash(u)
        PROVE  payments' = payments /\ saving' = [saving EXCEPT ![u] = NoSave]
    BY <1>5 DEF SaveAbort, ServerCrash
  <1>6. \/ UNCHANGED saveVars
        \/ \E u \in Servers : \/ \E o \in Orders : InsertPayment(u, o)
                              \/ InsertEvent(u) \/ SaveCommit(u)
                              \/ SaveAbort(u) \/ ServerCrash(u)
    BY DEF OutboxNext, outboxVars, Save, HandlePending, GetAllPending, Produce, ProduceErr,
           UpdateStatusByIds, PollCommit, PollAbort, NothingProduced, Delivery, Deliver,
           DeliveryFailed
  <1>7. DOMAIN saving = Servers
    BY <1>0 DEF OutboxTypeOK
  <1>8. ASSUME NEW u \in Servers, NEW o \in Orders, InsertPayment(u, o)
        PROVE  OrderLocked'
    BY <1>0, <1>2, <1>7, <1>8 DEF OrderLocked
  <1>9. ASSUME NEW u \in Servers, InsertEvent(u)
        PROVE  OrderLocked'
    BY <1>0, <1>3, <1>9 DEF OrderLocked
  <1>10. ASSUME NEW u \in Servers, SaveCommit(u)
        PROVE  OrderLocked'
    BY <1>0, <1>4, <1>7, <1>10 DEF OrderLocked
  <1>11. ASSUME NEW u \in Servers, SaveAbort(u) \/ ServerCrash(u)
        PROVE  OrderLocked'
    BY <1>0, <1>5, <1>7, <1>11 DEF OrderLocked
  <1> QED
    BY <1>1, <1>6, <1>8, <1>9, <1>10, <1>11

\* A poll's batch and ids stay payments, and its ids stay made, whatever other
\* servers deliver, lose or crash meanwhile.
LEMMA NextPolledIsMade ==
  ASSUME OutboxIInv, [OutboxNext]_outboxVars
  PROVE  PolledIsMade'
  <1> USE DEF saveVars
  <1>0. /\ OutboxTypeOK /\ OutboxTypeOK' /\ PaymentHasEvent /\ PolledIsMade
        /\ payments \subseteq payments'
    BY NextTyped, PaymentsStay DEF OutboxIInv, OutboxInv
  <1>1. ASSUME NEW s \in Servers,
               polling'[s].batch \subseteq payments /\ polling'[s].ids \subseteq polling[s].ids
        PROVE  /\ polling'[s].batch \subseteq payments'
               /\ \A o \in polling'[s].ids :
                    o \in payments' /\ \A t \in TopicSet : Made(<<o, t>>)'
    <2> SUFFICES ASSUME NEW o \in polling'[s].ids, NEW t \in TopicSet
                 PROVE  o \in payments' /\ Made(<<o, t>>)'
      BY <1>0, <1>1 DEF PolledIsMade
    <2>1. o \in payments /\ Made(<<o, t>>)
      BY <1>0, <1>1 DEF PolledIsMade
    <2>2. <<o, t>> \in Copies
      BY <1>0, <2>1 DEF OutboxTypeOK, Copies
    <2> QED
      BY <1>0, <2>1, <2>2, MadeStays
  <1>2. SUFFICES ASSUME NEW s \in Servers
                 PROVE  /\ polling'[s].batch \subseteq payments'
                        /\ \A o \in polling'[s].ids :
                             o \in payments' /\ \A t \in TopicSet : Made(<<o, t>>)'
    BY DEF PolledIsMade
  <1>3. CASE polling'[s] = polling[s]
    BY <1>0, <1>1, <1>3 DEF PolledIsMade
  <1>4. CASE \E u \in Servers : GetAllPending(u) \/ PollCommit(u) \/ PollAbort(u)
                                  \/ NothingProduced(u) \/ ServerCrash(u)
    <2>1. polling'[s] # polling[s] => polling'[s].batch \subseteq payments /\ polling'[s].ids = {}
      BY <1>0, <1>4 DEF GetAllPending, PollCommit, PollAbort, NothingProduced, ServerCrash,
                        NoPoll, OutboxTypeOK, PendingEvents, PaymentHasEvent
    <2> QED
      BY <1>1, <1>3, <2>1
  <1>5. ASSUME NEW u \in Servers, UpdateStatusByIds(u) PROVE
          polling'[s].batch = polling[s].batch /\ polling'[s].ids = polling[s].ids
    BY <1>0, <1>5 DEF UpdateStatusByIds, OutboxTypeOK
  <1>6. ASSUME NEW u \in Servers, NEW o \in Orders, ProduceErr(u, o) PROVE
          polling'[s].batch \subseteq polling[s].batch /\ polling'[s].ids = polling[s].ids
    BY <1>0, <1>6 DEF ProduceErr, OutboxTypeOK
  <1>7. ASSUME NEW u \in Servers, NEW o \in Orders, Produce(u, o)
        PROVE  /\ polling'[s].batch \subseteq payments'
               /\ \A p \in polling'[s].ids :
                    p \in payments' /\ \A t \in TopicSet : Made(<<p, t>>)'
    <2>1. /\ polling'[s].batch \subseteq polling[s].batch
          /\ polling'[s].ids \subseteq polling[s].ids \cup {o}
          /\ o \in payments /\ payments' = payments
      BY <1>0, <1>7 DEF Produce, OutboxTypeOK, PolledIsMade
    <2>2. ASSUME NEW t \in TopicSet PROVE Made(<<o, t>>)'
      <3>1. PICK i \in 1 .. Len(Topics) : t = Topics[i]
        BY DEF TopicSet
      <3>2. Len(Topics) \in 0 .. Len(Topics)
        BY OutboxAssumption
      <3>3. queue'[u][<<o, t>>] > 0
        BY <1>0, <1>7, <3>1, <3>2, EnqueuedFacts DEF Produce, OutboxTypeOK
      <3> QED
        BY <3>3 DEF Made, Queued
    <2>3. ASSUME NEW p \in polling[s].ids, NEW t \in TopicSet PROVE Made(<<p, t>>)'
      <3>1. p \in payments /\ Made(<<p, t>>)
        BY <1>0 DEF PolledIsMade
      <3>2. <<p, t>> \in Copies
        BY <1>0, <3>1 DEF OutboxTypeOK, Copies
      <3> QED
        BY <1>0, <3>1, <3>2, MadeStays
    <2> QED
      BY <1>0, <2>1, <2>2, <2>3 DEF PolledIsMade
  <1>8. \/ UNCHANGED polling
        \/ \E u \in Servers : GetAllPending(u) \/ PollCommit(u) \/ PollAbort(u)
                                \/ NothingProduced(u) \/ ServerCrash(u)
        \/ \E u \in Servers : \/ UpdateStatusByIds(u)
                              \/ \E o \in Orders : ProduceErr(u, o) \/ Produce(u, o)
    BY DEF OutboxNext, outboxVars, Save, InsertPayment, InsertEvent, SaveCommit, SaveAbort,
           HandlePending, Delivery, Deliver, DeliveryFailed
  <1>9. CASE \E u \in Servers : UpdateStatusByIds(u) \/ \E o \in Orders : ProduceErr(u, o)
    BY <1>0, <1>1, <1>5, <1>6, <1>9 DEF PolledIsMade
  <1> QED
    BY <1>3, <1>4, <1>7, <1>8, <1>9

-----------------------------------------------------------------------------
LEMMA InitInvariant == OutboxInit => OutboxIInv
  <1> SUFFICES ASSUME OutboxInit PROVE OutboxIInv
    OBVIOUS
  <1>1. OutboxTypeOK
    BY InitTyped
  <1>2. PaymentHasEvent
    BY DEF OutboxInit, PaymentHasEvent
  <1>3. AnnouncedIsPaid
    BY DEF OutboxInit, AnnouncedIsPaid, Queued, Delivered, Empty
  <1>4. ProducedHasCopies
    BY DEF OutboxInit, ProducedHasCopies
  <1>5. OutboxInv
    BY DEF OutboxInit, OutboxInv, PolledIsMade, OrderLocked, NoPoll, NoSave
  <1> QED
    BY <1>1, <1>2, <1>3, <1>4, <1>5 DEF OutboxIInv

LEMMA NextInvariant == OutboxIInv /\ [OutboxNext]_outboxVars => OutboxIInv'
  <1> SUFFICES ASSUME OutboxIInv, [OutboxNext]_outboxVars PROVE OutboxIInv'
    OBVIOUS
  <1>1. OutboxTypeOK' /\ PaymentHasEvent'
    BY NextTyped, NextPaymentHasEvent DEF OutboxIInv
  <1>2. AnnouncedIsPaid' /\ ProducedHasCopies'
    BY NextAnnouncedIsPaid, NextProducedHasCopies
  <1>3. OutboxInv'
    BY NextPolledIsMade, NextOrderLocked DEF OutboxInv
  <1> QED
    BY <1>1, <1>2, <1>3 DEF OutboxIInv

\* The relay's invariant holds: rows keep their types, a poll works on saved
\* payments, and the events it is about to mark have had all their copies made.
THEOREM OutboxInvariant == OutboxSpec => []OutboxIInv
  BY InitInvariant, NextInvariant, PTL DEF OutboxSpec

\* PaymentService.Save is atomic for any number of servers and faults.
THEOREM SaveIsAtomic == OutboxSpec => []PaymentHasEvent
  <1>1. OutboxIInv => PaymentHasEvent
    BY DEF OutboxIInv
  <1> QED
    BY <1>1, OutboxInvariant, PTL

\* What is announced was paid, although handlePending produces inside a
\* transaction that may roll back.
THEOREM OnlyPaidIsAnnounced == OutboxSpec => []AnnouncedIsPaid
  <1>1. OutboxIInv => AnnouncedIsPaid
    BY DEF OutboxIInv
  <1> QED
    BY <1>1, OutboxInvariant, PTL

\* handlePending marks an event produced only when every topic has had its copy.
THEOREM ProducedWasSent == OutboxSpec => []ProducedHasCopies
  <1>1. OutboxIInv => ProducedHasCopies
    BY DEF OutboxIInv
  <1> QED
    BY <1>1, OutboxInvariant, PTL

-----------------------------------------------------------------------------
(***************************************************************************)
(* Both sides                                                              *)
(***************************************************************************)
HandlerStages == {"insert", "inserted", "reported"}

\* The inbox keeps its types; it knows only messages the broker has.
PipeTypeOK ==
  /\ given \subseteq In!Messages /\ done \subseteq In!Messages
  /\ reported \subseteq In!Messages /\ faulted \subseteq In!Messages
  /\ handling \in [Handlers -> {In!Idle} \cup [stage : HandlerStages, msg : In!Messages]]
  /\ audit \in [In!Events -> Nat]

\* What the steps of both sides preserve together.
PipeInv == OutboxIInv /\ PipeTypeOK /\ In!InboxInv

-----------------------------------------------------------------------------
\* An audit row is about an order: there is at least one topic.
LEMMA EventsAreOrders == In!Events = Orders
  <1>1. 1 \in 1 .. Len(Topics)
    BY OutboxAssumption, PipelineAssumption
  <1>2. \A o \in Orders : <<o, Topics[1]>> \in Copies
    BY <1>1, CopyOfTopic
  <1>3. \A o \in Orders : \E c \in Copies : o = c[1]
    BY <1>2
  <1>4. \A c \in Copies : c[1] \in Orders
    BY DEF Copies
  <1> QED
    BY <1>3, <1>4 DEF In!Events

\* The parts of a message.
LEMMA MessageFacts ==
  ASSUME OutboxTypeOK, NEW m \in In!Messages
  PROVE  /\ m[1] \in Copies /\ Delivered(m[1])
         /\ In!Event(m) = m[1][1] /\ In!Event(m) \in In!Events
  BY DEF In!Messages, In!Event, In!Events, OutboxTypeOK, Delivered

\* The broker keeps its messages.
LEMMA MessagesStay ==
  ASSUME OutboxTypeOK, [OutboxNext]_outboxVars
  PROVE  In!Messages \subseteq In!Messages'
  <1>1. \A c \in Copies : log'[c] >= log[c] /\ log[c] \in Nat /\ log'[c] \in Nat
    <2>1. CASE RelayKept
      BY <2>1 DEF RelayKept, relayVars, OutboxTypeOK
    <2>2. CASE RelayGrows
      BY <2>2 DEF RelayGrows, OutboxTypeOK
    <2>3. CASE RelayMoves
      BY <2>3 DEF RelayMoves, Deliver, DeliveryFailed, ServerCrash, OutboxTypeOK
    <2> QED
      BY <2>1, <2>2, <2>3, RelaySteps
  <1> QED
    BY <1>1 DEF In!Messages

-----------------------------------------------------------------------------
LEMMA PipeInit == Init => PipeInv
  <1> SUFFICES ASSUME Init PROVE PipeInv
    OBVIOUS
  <1>1. OutboxIInv
    BY InitInvariant DEF Init
  <1>2. PipeTypeOK
    BY DEF Init, In!InboxInit, PipeTypeOK
  <1>3. In!InboxInv
    BY DEF Init, In!InboxInit, In!InboxInv, In!ReportedIsAccounted, In!SkippedIsShared,
           In!Skipped, In!HoldsAlone, In!Idle, In!AuditedOnce
  <1> QED
    BY <1>1, <1>2, <1>3 DEF PipeInv

\* A handler that is at work knows its message.
LEMMA HandlerFacts ==
  ASSUME PipeTypeOK, OutboxTypeOK, NEW h \in Handlers, handling[h].stage # "idle"
  PROVE  /\ handling[h] \in [stage : HandlerStages, msg : In!Messages]
         /\ handling[h].msg \in In!Messages
         /\ In!Event(handling[h].msg) \in In!Events
  <1>1. handling[h] \in [stage : HandlerStages, msg : In!Messages]
    BY DEF PipeTypeOK, In!Idle
  <1> QED
    BY <1>1, MessageFacts

\* The steps of the inbox keep the types.
LEMMA InboxStepTyped ==
  ASSUME PipeTypeOK, OutboxTypeOK, In!InboxNext, UNCHANGED outboxVars
  PROVE  PipeTypeOK'
  <1> USE DEF In!consumerVars, In!lockVars, In!InboxFault, In!UpdateState
  <1>0. UNCHANGED log /\ In!Messages' = In!Messages /\ In!Events' = In!Events
    BY DEF outboxVars, relayVars, In!Messages, In!Events
  <1>1. ASSUME NEW h \in Handlers, In!InboxSave(h) PROVE PipeTypeOK'
    <2>1. handling[h].stage # "idle"
      BY <1>1 DEF In!InboxSave, In!BeginFails, In!Insert, In!AlreadyExists, In!InsertFails,
                  In!Report, In!ReportBlocks, In!TxCommit, In!TxCommitFails
    <2>2. /\ handling[h] \in [stage : HandlerStages, msg : In!Messages]
          /\ handling[h].msg \in In!Messages
          /\ In!Event(handling[h].msg) \in In!Events
      BY <2>1, HandlerFacts
    <2>3. CASE In!Insert(h) \/ In!Report(h)
      <3>1. \E st \in HandlerStages : handling' = [handling EXCEPT ![h].stage = st]
        BY <2>3 DEF In!Insert, In!Report, HandlerStages
      <3>2. PICK st \in HandlerStages : handling' = [handling EXCEPT ![h].stage = st]
        BY <3>1
      <3>3. [handling[h] EXCEPT !.stage = st] \in [stage : HandlerStages, msg : In!Messages]
        BY <2>2
      <3>4. handling' \in [Handlers -> {In!Idle} \cup [stage : HandlerStages, msg : In!Messages]]
        BY <3>2, <3>3 DEF PipeTypeOK
      <3> QED
        BY <1>0, <2>2, <2>3, <3>4 DEF In!Insert, In!Report, PipeTypeOK
    <2>4. CASE In!TxCommit(h)
      <3>1. audit' \in [In!Events -> Nat]
        BY <2>2, <2>4 DEF In!TxCommit, PipeTypeOK
      <3> QED
        BY <1>0, <2>4, <3>1 DEF In!TxCommit, PipeTypeOK
    <2>5. CASE \/ In!BeginFails(h) \/ In!AlreadyExists(h) \/ In!InsertFails(h)
               \/ In!ReportBlocks(h) \/ In!TxCommitFails(h)
      <3>1. handling' \in [Handlers -> {In!Idle} \cup [stage : HandlerStages, msg : In!Messages]]
        BY <2>5 DEF In!BeginFails, In!AlreadyExists, In!InsertFails, In!ReportBlocks,
                    In!TxCommitFails, PipeTypeOK
      <3> QED
        BY <1>0, <2>2, <2>5, <3>1
           DEF In!BeginFails, In!AlreadyExists, In!InsertFails, In!ReportBlocks,
               In!TxCommitFails, PipeTypeOK
    <2> QED
      BY <1>1, <2>3, <2>4, <2>5 DEF In!InboxSave
  <1>2. ASSUME NEW h \in Handlers, NEW m \in In!Messages, In!HandleMsg(h, m) PROVE PipeTypeOK'
    BY <1>0, <1>2 DEF In!HandleMsg, PipeTypeOK, HandlerStages
  <1>3. ASSUME NEW m \in In!Messages, In!DropMessage(m) \/ In!CommitOffset(m) \/ In!Rewind(m)
        PROVE  PipeTypeOK'
    BY <1>0, <1>3 DEF In!DropMessage, In!CommitOffset, In!Rewind, PipeTypeOK
  <1>4. CASE In!Revoke \/ In!Assign
    BY <1>0, <1>4 DEF In!Revoke, In!Assign, PipeTypeOK
  <1>5. CASE In!ConsumerCrash
    <2>1. faulted' \subseteq In!Messages
      BY <1>5 DEF In!ConsumerCrash, PipeTypeOK
    <2> QED
      BY <1>0, <1>5, <2>1 DEF In!ConsumerCrash, PipeTypeOK
  <1> QED
    BY <1>1, <1>2, <1>3, <1>4, <1>5 DEF In!InboxNext

\* What was accounted for stays so: a handler leaves the stage "reported" by
\* committing the row or by a failure that is recorded.
LEMMA AccountedStays ==
  ASSUME PipeTypeOK, OutboxTypeOK, In!InboxNext, UNCHANGED outboxVars,
         NEW m \in In!Messages, In!Accounted(m)
  PROVE  In!Accounted(m)'
  <1> USE DEF In!Accounted, In!consumerVars, In!lockVars, In!Idle, In!InboxFault, In!UpdateState
  <1>0. In!Event(m) \in In!Events
    BY MessageFacts
  <1>1. ASSUME NEW h \in Handlers, In!InboxSave(h) PROVE In!Accounted(m)'
    <2>1. handling[h].stage # "idle"
      BY <1>1 DEF In!InboxSave, In!BeginFails, In!Insert, In!AlreadyExists, In!InsertFails,
                  In!Report, In!ReportBlocks, In!TxCommit, In!TxCommitFails
    <2>2. /\ handling[h] \in [stage : HandlerStages, msg : In!Messages]
          /\ In!Event(handling[h].msg) \in In!Events
      BY <2>1, HandlerFacts
    <2>3. CASE \/ In!Insert(h) \/ In!BeginFails(h) \/ In!AlreadyExists(h) \/ In!InsertFails(h)
               \/ In!ReportBlocks(h)
      BY <2>3 DEF In!Insert, In!BeginFails, In!AlreadyExists, In!InsertFails, In!ReportBlocks,
                  PipeTypeOK
    <2>4. CASE In!Report(h)
      BY <2>2, <2>4 DEF In!Report, PipeTypeOK
    <2>5. CASE In!TxCommit(h)
      <3>1. \A e \in In!Events : audit[e] > 0 => audit'[e] > 0
        BY <2>2, <2>5 DEF In!TxCommit, PipeTypeOK
      <3>2. audit'[In!Event(handling[h].msg)] > 0
        BY <2>2, <2>5 DEF In!TxCommit, PipeTypeOK
      <3>3. \A g \in Handlers : g # h => handling'[g] = handling[g]
        BY <2>5 DEF In!TxCommit, PipeTypeOK
      <3>4. UNCHANGED faulted
        BY <2>5 DEF In!TxCommit
      <3> QED
        BY <1>0, <3>1, <3>2, <3>3, <3>4
    <2>6. CASE In!TxCommitFails(h)
      BY <2>6 DEF In!TxCommitFails, PipeTypeOK
    <2> QED
      BY <1>1, <2>3, <2>4, <2>5, <2>6 DEF In!InboxSave
  <1>2. ASSUME NEW h \in Handlers, NEW n \in In!Messages, In!HandleMsg(h, n) PROVE In!Accounted(m)'
    BY <1>2 DEF In!HandleMsg, PipeTypeOK
  <1>3. ASSUME NEW n \in In!Messages, In!DropMessage(n) \/ In!CommitOffset(n) \/ In!Rewind(n)
        PROVE  In!Accounted(m)'
    BY <1>3 DEF In!DropMessage, In!CommitOffset, In!Rewind
  <1>4. CASE In!Revoke \/ In!Assign
    BY <1>4 DEF In!Revoke, In!Assign
  <1>5. CASE In!ConsumerCrash
    BY <1>5 DEF In!ConsumerCrash
  <1> QED
    BY <1>1, <1>2, <1>3, <1>4, <1>5 DEF In!InboxNext

\* Whoever reports a message accounts for it.
LEMMA NextReportedIsAccounted ==
  ASSUME PipeTypeOK, OutboxTypeOK, In!ReportedIsAccounted, In!InboxNext, UNCHANGED outboxVars
  PROVE  In!ReportedIsAccounted'
  <1> USE DEF In!consumerVars, In!lockVars, In!InboxFault, In!UpdateState
  <1>0. PipeTypeOK'
    BY InboxStepTyped
  <1>1. ASSUME NEW m \in reported' \ reported
        PROVE  In!Accounted(m)'
    <2>1. ASSUME NEW h \in Handlers, In!Report(h) PROVE In!Accounted(m)'
      <3>1. m = handling[h].msg /\ handling[h].stage # "idle"
        BY <1>1, <2>1 DEF In!Report
      <3>2. handling'[h].stage = "reported" /\ handling'[h].msg = m
        BY <2>1, <3>1, HandlerFacts DEF In!Report, PipeTypeOK
      <3> QED
        BY <3>2 DEF In!Accounted
    <2>2. ASSUME NEW h \in Handlers, In!AlreadyExists(h) PROVE In!Accounted(m)'
      BY <1>1, <2>2 DEF In!AlreadyExists, In!Accounted, In!Event
    <2>3. ASSUME NEW h \in Handlers, In!InsertFails(h) PROVE In!Accounted(m)'
      BY <1>1, <2>3 DEF In!InsertFails, In!Accounted
    <2>4. ASSUME NEW n \in In!Messages, In!DropMessage(n) PROVE In!Accounted(m)'
      BY <1>1, <2>4 DEF In!DropMessage, In!Accounted
    <2>5. ASSUME NEW h \in Handlers,
                 \/ In!BeginFails(h) \/ In!Insert(h) \/ In!ReportBlocks(h)
                 \/ In!TxCommit(h) \/ In!TxCommitFails(h)
          PROVE  FALSE
      BY <1>1, <2>5 DEF In!BeginFails, In!Insert, In!ReportBlocks, In!TxCommit, In!TxCommitFails
    <2>6. ASSUME NEW n \in In!Messages, In!CommitOffset(n) \/ In!Rewind(n)
          PROVE  FALSE
      BY <1>1, <2>6 DEF In!CommitOffset, In!Rewind
    <2>7. ASSUME NEW h \in Handlers, NEW n \in In!Messages, In!HandleMsg(h, n)
          PROVE  FALSE
      BY <1>1, <2>7 DEF In!HandleMsg
    <2>8. CASE In!Revoke \/ In!Assign \/ In!ConsumerCrash
      BY <1>1, <2>8 DEF In!Revoke, In!Assign, In!ConsumerCrash
    <2> QED
      BY <2>1, <2>2, <2>3, <2>4, <2>5, <2>6, <2>7, <2>8 DEF In!InboxNext, In!InboxSave
  <1>2. ASSUME NEW m \in reported PROVE In!Accounted(m)'
    BY AccountedStays DEF In!ReportedIsAccounted, PipeTypeOK
  <1> QED
    BY <1>1, <1>2 DEF In!ReportedIsAccounted

\* A state that other offsets share stays shared.
LEMMA SharedStays ==
  ASSUME OutboxTypeOK, [OutboxNext]_outboxVars, NEW m \in In!Messages, In!SharesState(m)
  PROVE  In!SharesState(m)'
  BY MessagesStay DEF In!SharesState, In!Topic

\* Only a state that other offsets share commits what nobody has reported.
LEMMA NextSkippedIsShared ==
  ASSUME In!SkippedIsShared, In!InboxNext, UNCHANGED outboxVars
  PROVE  In!SkippedIsShared'
  <1> USE DEF In!consumerVars, In!lockVars, In!UpdateState, In!Skipped
  <1>0. In!Messages' = In!Messages
    BY DEF outboxVars, relayVars, In!Messages
  <1>1. \A m : In!SharesState(m)' = In!SharesState(m)
    BY <1>0 DEF In!SharesState, In!Topic
  <1>2. ASSUME NEW n \in In!Messages, In!CommitOffset(n) PROVE In!SkippedIsShared'
    BY <1>1, <1>2 DEF In!CommitOffset, In!SkippedIsShared
  <1>3. ASSUME done' \ reported' \subseteq done \ reported PROVE In!SkippedIsShared'
    BY <1>1, <1>3 DEF In!SkippedIsShared
  <1>4. ASSUME NEW h \in Handlers, In!InboxSave(h) PROVE done' \ reported' \subseteq done \ reported
    BY <1>4 DEF In!InboxSave, In!BeginFails, In!Insert, In!AlreadyExists, In!InsertFails,
                In!Report, In!ReportBlocks, In!TxCommit, In!TxCommitFails
  <1>5. ASSUME NEW h \in Handlers, NEW n \in In!Messages, In!HandleMsg(h, n)
        PROVE  done' \ reported' \subseteq done \ reported
    BY <1>5 DEF In!HandleMsg
  <1>6. ASSUME NEW n \in In!Messages, In!DropMessage(n) \/ In!Rewind(n)
        PROVE  done' \ reported' \subseteq done \ reported
    BY <1>6 DEF In!DropMessage, In!Rewind
  <1>7. CASE In!Revoke \/ In!Assign \/ In!ConsumerCrash
    BY <1>3, <1>7 DEF In!Revoke, In!Assign, In!ConsumerCrash
  <1> QED
    BY <1>2, <1>3, <1>4, <1>5, <1>6, <1>7 DEF In!InboxNext

\* The unique index on outbox_event_id: an insert waits for a rival and finds
\* its row, so a transaction that holds a row is alone with it.
LEMMA NextHoldsAlone ==
  ASSUME PipeTypeOK, OutboxTypeOK, In!HoldsAlone, In!AuditedOnce,
         In!InboxNext, UNCHANGED outboxVars
  PROVE  In!HoldsAlone' /\ In!AuditedOnce'
  <1> USE DEF In!consumerVars, In!lockVars, In!InboxFault, In!UpdateState
  <1> DEFINE Holder(h) == handling[h].stage \in {"inserted", "reported"}
             Of(h) == In!Event(handling[h].msg)
             Apart == \A g, h \in Handlers : Holder(g) /\ Holder(h) /\ Of(g) = Of(h) => g = h
             Fresh == \A h \in Handlers : Holder(h) => audit[Of(h)] = 0
  <1>0. Apart /\ Fresh
    BY DEF In!HoldsAlone, In!Holding
  <1>1. Apart' /\ Fresh' => In!HoldsAlone'
    BY DEF In!HoldsAlone, In!Holding
  <1>2. ASSUME NEW h \in Handlers, In!Insert(h) PROVE Apart' /\ Fresh' /\ In!AuditedOnce'
    <2>1. handling[h] \in [stage : HandlerStages, msg : In!Messages]
      BY <1>2, HandlerFacts DEF In!Insert
    <2>2. /\ handling'[h].stage = "inserted" /\ handling'[h].msg = handling[h].msg
          /\ \A g \in Handlers : g # h => handling'[g] = handling[g]
      BY <1>2, <2>1 DEF In!Insert, PipeTypeOK
    <2>3. \A g \in Handlers : Holder(g) => Of(g) # Of(h)
      BY <1>2 DEF In!Insert, In!Holding
    <2>4. audit[Of(h)] = 0 /\ audit' = audit
      BY <1>2 DEF In!Insert
    <2> QED
      BY <1>0, <2>2, <2>3, <2>4 DEF In!AuditedOnce, In!Event
  <1>3. ASSUME NEW h \in Handlers, In!Report(h) PROVE Apart' /\ Fresh' /\ In!AuditedOnce'
    <2>1. handling[h] \in [stage : HandlerStages, msg : In!Messages]
      BY <1>3, HandlerFacts DEF In!Report
    <2>2. /\ handling'[h].stage = "reported" /\ handling'[h].msg = handling[h].msg
          /\ \A g \in Handlers : g # h => handling'[g] = handling[g]
      BY <1>3, <2>1 DEF In!Report, PipeTypeOK
    <2>3. Holder(h) /\ audit' = audit
      BY <1>3 DEF In!Report
    <2> QED
      BY <1>0, <2>2, <2>3 DEF In!AuditedOnce, In!Event
  <1>4. ASSUME NEW h \in Handlers, In!TxCommit(h) PROVE Apart' /\ Fresh' /\ In!AuditedOnce'
    <2>1. Holder(h) /\ Of(h) \in In!Events
      BY <1>4, HandlerFacts DEF In!TxCommit
    <2>2. /\ handling'[h] = In!Idle
          /\ \A g \in Handlers : g # h => handling'[g] = handling[g]
      BY <1>4 DEF In!TxCommit, PipeTypeOK
    <2>3. /\ audit'[Of(h)] = 1
          /\ \A e \in In!Events : e # Of(h) => audit'[e] = audit[e]
          /\ \A e : e # Of(h) => audit'[e] = audit[e]
      BY <1>0, <1>4, <2>1 DEF In!TxCommit, PipeTypeOK
    <2>4. ~Holder(h)'
      BY <2>2 DEF In!Idle
    <2> QED
      BY <1>0, <2>1, <2>2, <2>3, <2>4 DEF In!AuditedOnce, In!Event
  <1>5. ASSUME UNCHANGED audit,
               \A g \in Handlers : handling'[g] = handling[g] \/ handling'[g].stage \in {"idle", "insert"}
        PROVE  Apart' /\ Fresh' /\ In!AuditedOnce'
    BY <1>0, <1>5 DEF In!AuditedOnce, In!Event
  <1>6. ASSUME NEW h \in Handlers,
               \/ In!BeginFails(h) \/ In!AlreadyExists(h) \/ In!InsertFails(h)
               \/ In!ReportBlocks(h) \/ In!TxCommitFails(h)
        PROVE  Apart' /\ Fresh' /\ In!AuditedOnce'
    <2>1. \A g \in Handlers : handling'[g] = handling[g] \/ handling'[g] = In!Idle
      BY <1>6 DEF In!BeginFails, In!AlreadyExists, In!InsertFails, In!ReportBlocks,
                  In!TxCommitFails, PipeTypeOK
    <2>2. UNCHANGED audit
      BY <1>6 DEF In!BeginFails, In!AlreadyExists, In!InsertFails, In!ReportBlocks,
                  In!TxCommitFails
    <2> QED
      BY <1>5, <2>1, <2>2 DEF In!Idle
  <1>7. ASSUME NEW h \in Handlers, NEW m \in In!Messages, In!HandleMsg(h, m)
        PROVE  Apart' /\ Fresh' /\ In!AuditedOnce'
    <2>1. \A g \in Handlers :
            handling'[g] = handling[g] \/ handling'[g] = [stage |-> "insert", msg |-> m]
      BY <1>7 DEF In!HandleMsg, PipeTypeOK
    <2>2. UNCHANGED audit
      BY <1>7 DEF In!HandleMsg
    <2> QED
      BY <1>5, <2>1, <2>2
  <1>8. ASSUME NEW m \in In!Messages, In!DropMessage(m) \/ In!CommitOffset(m) \/ In!Rewind(m)
        PROVE  Apart' /\ Fresh' /\ In!AuditedOnce'
    BY <1>5, <1>8 DEF In!DropMessage, In!CommitOffset, In!Rewind
  <1>9. CASE In!Revoke \/ In!Assign \/ In!ConsumerCrash
    <2>1. \A g \in Handlers : handling'[g] = handling[g] \/ handling'[g] = In!Idle
      BY <1>9 DEF In!Revoke, In!Assign, In!ConsumerCrash
    <2>2. UNCHANGED audit
      BY <1>9 DEF In!Revoke, In!Assign, In!ConsumerCrash
    <2> QED
      BY <1>1, <1>5, <2>1, <2>2 DEF In!Idle
  <1> HIDE DEF Apart, Fresh
  <1> QED
    BY <1>1, <1>2, <1>3, <1>4, <1>6, <1>7, <1>8, <1>9 DEF In!InboxNext, In!InboxSave

-----------------------------------------------------------------------------
LEMMA PipeNext == PipeInv /\ [Next]_vars => PipeInv'
  <1> SUFFICES ASSUME PipeInv, [Next]_vars PROVE PipeInv'
    OBVIOUS
  <1>0. OutboxIInv /\ OutboxTypeOK /\ PipeTypeOK /\ In!InboxInv
    BY DEF PipeInv, OutboxIInv
  <1>1. CASE OutboxStep \/ UNCHANGED vars
    <2>1. [OutboxNext]_outboxVars /\ UNCHANGED inVars
      BY <1>1 DEF OutboxStep, vars
    <2>2. In!Messages \subseteq In!Messages'
      BY <1>0, <2>1, MessagesStay
    <2>3. In!InboxInv'
      <3>1. In!ReportedIsAccounted' /\ In!HoldsAlone' /\ In!AuditedOnce'
        BY <1>0, <2>1 DEF inVars, In!InboxInv, In!ReportedIsAccounted, In!Accounted,
                          In!HoldsAlone, In!Holding, In!AuditedOnce, In!Event, In!Events
      <3>2. In!SkippedIsShared'
        BY <1>0, <2>1, SharedStays DEF inVars, PipeTypeOK, In!InboxInv, In!SkippedIsShared,
                                       In!Skipped
      <3> QED
        BY <3>1, <3>2 DEF In!InboxInv
    <2>4. PipeTypeOK'
      <3>1. handling' \in [Handlers -> {In!Idle} \cup [stage : HandlerStages, msg : In!Messages']]
        BY <1>0, <2>1, <2>2 DEF inVars, PipeTypeOK
      <3> QED
        BY <1>0, <2>1, <2>2, <3>1 DEF inVars, PipeTypeOK, In!Events
    <2> QED
      BY <1>0, <2>1, <2>3, <2>4, NextInvariant DEF PipeInv
  <1>2. CASE InboxStep
    <2>1. In!InboxNext /\ UNCHANGED outboxVars
      BY <1>2 DEF InboxStep
    <2>2. OutboxIInv'
      BY <1>0, <2>1, NextInvariant
    <2>3. PipeTypeOK'
      BY <1>0, <2>1, InboxStepTyped
    <2>4. In!InboxInv'
      BY <1>0, <2>1, NextReportedIsAccounted, NextSkippedIsShared, NextHoldsAlone DEF In!InboxInv
    <2> QED
      BY <2>2, <2>3, <2>4 DEF PipeInv
  <1> QED
    BY <1>1, <1>2 DEF Next

\* Relay and inbox together keep their invariants, whatever handlePending produces and
\* InboxService.Save is given.
THEOREM PipelineInvariant == Spec => []PipeInv
  BY PipeInit, PipeNext, PTL DEF Spec

\* InboxService.Save enters an event at most once, however messages are
\* redelivered, duplicated over topics or handled concurrently.
THEOREM EventAuditedOnce == Spec => []In!AuditedOnce
  <1>1. PipeInv => In!AuditedOnce
    BY DEF PipeInv, In!InboxInv
  <1> QED
    BY <1>1, PipelineInvariant, PTL

\* A committed offset means an audit row, unless a recorded failure has hit the
\* message after its early report, or nobody has reported the message and the
\* offsets of another topic, in the same partition state, have decided the commit:
\* with one topic there is no such exception.
THEOREM CommittedIsAudited == Spec => []DoneIsAudited
  <1>1. PipeInv => DoneIsAudited
    BY DEF PipeInv, In!InboxInv, In!ReportedIsAccounted, In!SkippedIsShared, In!Skipped,
           DoneIsAudited, In!DoneIsAudited
  <1> QED
    BY <1>1, PipelineInvariant, PTL

\* The fate of a copy once it was made: its event is audited, or the copy can
\* still lead to a row, or it is destroyed: by a failure, or by a commit that
\* skipped it.
LEMMA FateOfCopy ==
  ASSUME PipeInv, NEW c \in Copies, Made(c)
  PROVE  audit[c[1]] > 0 \/ Alive(c) \/ Destroyed(c)
  <1>0. OutboxTypeOK /\ PipeTypeOK /\ In!ReportedIsAccounted
    BY DEF PipeInv, OutboxIInv, In!InboxInv
  <1>1. CASE Queued(c)
    BY <1>1 DEF Alive
  <1>2. CASE c \in gone
    BY <1>2 DEF Destroyed
  <1>3. CASE Delivered(c)
    <2> DEFINE m == <<c, 1>>
    <2>1. m \in In!Messages /\ m[1] = c /\ In!Event(m) = c[1]
      BY <1>0, <1>3, PipelineAssumption DEF OutboxTypeOK, Delivered, In!Messages, In!Event
    <2> HIDE DEF m
    <2>2. CASE m \notin done
      BY <2>1, <2>2 DEF Alive
    <2>3. CASE m \in done /\ m \in reported
      <3>1. In!Accounted(m)
        BY <1>0, <2>3 DEF In!ReportedIsAccounted
      <3> QED
        BY <2>1, <3>1 DEF In!Accounted, Alive, Destroyed
    <2>4. CASE m \in done /\ m \notin reported
      BY <2>1, <2>4 DEF Destroyed, In!Skipped
    <2> QED
      BY <2>2, <2>3, <2>4
  <1> QED
    BY <1>1, <1>2, <1>3 DEF Made

\* An event that was produced is lost only when its copy in EVERY topic is: on the
\* way to the broker, after an early report, or by a commit of the shared partition
\* state before anybody reported it.
THEOREM LossNeedsEveryTopic == Spec => []LostOnlyInEveryTopic
  <1>1. ASSUME PipeInv PROVE LostOnlyInEveryTopic
    <2> SUFFICES ASSUME NEW o \in DOMAIN events, events[o] = Produced,
                        ~(audit[o] > 0), \A t \in TopicSet : ~Alive(<<o, t>>),
                        NEW t \in TopicSet
                 PROVE  Destroyed(<<o, t>>)
      BY DEF LostOnlyInEveryTopic
    <2>1. PICK c \in Copies : c = <<o, t>>
      BY <1>1 DEF PipeInv, OutboxIInv, OutboxTypeOK, Copies
    <2>2. Made(c)
      BY <1>1, <2>1 DEF PipeInv, OutboxIInv, ProducedHasCopies, Made
    <2> QED
      BY <1>1, <2>1, <2>2, FateOfCopy
  <1> QED
    BY <1>1, PipelineInvariant, PTL

-----------------------------------------------------------------------------
\* A step of the pipeline pays an order, enters one that was paid, or changes
\* neither table.
LEMMA TrailStep ==
  ASSUME PipeInv, [Next]_vars
  PROVE  [Trail!Next]_<<payments, audit>>
  <1>0. /\ OutboxTypeOK /\ OrderLocked /\ AnnouncedIsPaid
        /\ PipeTypeOK /\ In!HoldsAlone
    BY DEF PipeInv, OutboxIInv, OutboxInv, In!InboxInv
  <1>1. CASE UNCHANGED vars
    BY <1>1 DEF vars, outboxVars, saveVars, inVars
  <1>2. CASE OutboxStep
    <2>1. UNCHANGED audit
      BY <1>2 DEF OutboxStep, inVars
    <2>2. ASSUME NEW s \in Servers, SaveCommit(s) PROVE Trail!Next
      <3>1. /\ saving[s].order \in Orders /\ saving[s].order \notin payments
            /\ payments' = payments \cup {saving[s].order}
        BY <1>0, <2>2, SavingFacts DEF SaveCommit, OrderLocked
      <3> QED
        BY <2>1, <3>1 DEF Trail!Next, Trail!Pay
    <2>3. UNCHANGED payments \/ \E s \in Servers : SaveCommit(s)
      BY <1>2 DEF OutboxStep, OutboxNext, saveVars, Save, InsertPayment, InsertEvent,
                  SaveAbort, HandlePending, GetAllPending, Produce, ProduceErr,
                  UpdateStatusByIds, PollCommit, PollAbort, NothingProduced, Delivery,
                  Deliver, DeliveryFailed, ServerCrash
    <2> QED
      BY <2>1, <2>2, <2>3
  <1>3. CASE InboxStep
    <2>1. UNCHANGED payments
      BY <1>3 DEF InboxStep, outboxVars, saveVars
    <2>2. ASSUME NEW h \in Handlers, In!TxCommit(h) PROVE Trail!Next
      <3> DEFINE o == In!Event(handling[h].msg)
      <3>1. handling[h].stage = "reported" /\ handling[h].msg \in In!Messages
        BY <1>0, <2>2, HandlerFacts DEF In!TxCommit
      <3>2. o \in Orders /\ o \in payments
        BY <1>0, <3>1, MessageFacts, EventsAreOrders DEF AnnouncedIsPaid
      <3>3. audit[o] = 0
        BY <1>0, <3>1 DEF In!HoldsAlone
      <3>4. audit' = [audit EXCEPT ![o] = 1]
        BY <2>2, <3>3 DEF In!TxCommit
      <3> HIDE DEF o
      <3> QED
        BY <2>1, <3>2, <3>3, <3>4 DEF Trail!Next, Trail!Enter
    <2>3. UNCHANGED audit \/ \E h \in Handlers : In!TxCommit(h)
      BY <1>3 DEF InboxStep, In!InboxNext, In!InboxSave, In!BeginFails, In!Insert,
                  In!AlreadyExists, In!InsertFails, In!Report, In!ReportBlocks, In!TxCommitFails,
                  In!HandleMsg, In!DropMessage, In!CommitOffset, In!Rewind, In!Revoke,
                  In!Assign, In!consumerVars, In!ConsumerCrash
    <2> QED
      BY <2>1, <2>2, <2>3
  <1> QED
    BY <1>1, <1>2, <1>3 DEF Next

\* Whoever looks only at the two tables sees AuditTrail: payments are made, and
\* a payment that was made is entered at most once.
THEOREM TrailRefinement == Spec => ImplementsAuditTrail
  <1>1. Init => Trail!Init
    BY EventsAreOrders DEF Init, OutboxInit, In!InboxInit, Trail!Init
  <1>2. PipeInv /\ [Next]_vars => [Trail!Next]_<<payments, audit>>
    BY TrailStep
  <1> QED
    BY <1>1, <1>2, PipelineInvariant, PTL DEF Spec, ImplementsAuditTrail, Trail!Spec

=============================================================================
