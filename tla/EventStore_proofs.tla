------------------------- MODULE EventStore_proofs --------------------------
(***************************************************************************)
(* Proofs about the server of kafka/, for any partitions, messages and     *)
(* number of sessions and crashes.  The server runs the consumer of        *)
(* KafkaConsumer, so no offset is committed over a message that was not    *)
(* reported; here a reported message is a row, has an excuse, or belongs   *)
(* to a transaction that its handler has left to TxClosure.  That rests on *)
(* a handler being alone with its message and session.                     *)
(***************************************************************************)
EXTENDS MCEventStore, KafkaConsumer_proofs

(***************************************************************************)
(* The inductive invariant, one part per idea                              *)
(***************************************************************************)
Transactions == [tp : TPs, off : Offsets, session : Nat, res : {"inserted", "duplicate", "failed"}]

\* A duplicate was a row when it was met.
TxOK ==
  /\ tx \subseteq Transactions
  /\ \A t \in tx : t.res = "duplicate" => Msg(t) \in stored

\* The message the consume loop holds is the last one it has received.
CurrentOK == pc = "send" => cur[1] \in assigned /\ cur[2] < position[cur[1]]

\* A message o given out in the session s is behind what the session has received;
\* a session that is being opened has given out nothing.
GivenOut(tp, o, s) ==
  /\ s \in 1 .. Len(ps)
  /\ s = StateOf(tp) /\ Opened(tp) =>
       /\ tp \in assigned /\ o < position[tp]
       /\ pc = "send" /\ cur[1] = tp => o < cur[2]

SameKey(r, q) == r.tp = q.tp /\ r.off = q.off /\ r.session = q.session

KeysOK ==
  /\ \A r \in handlers \cup tx : GivenOut(r.tp, r.off, r.session)
  /\ \A h, k \in handlers : SameKey(h, k) => h = k

\* What was reported is a row, is excused, or will be one of both by TxClosure.
Accounted(m) ==
  \/ m \in stored \cup excused
  \/ \E t \in tx : Msg(t) = m /\ t.res = "inserted" /\ Reported(t)

ReportsOK == \A m \in reported : Accounted(m)

StoreInv == crashes \in Nat /\ TxOK /\ CurrentOK /\ KeysOK /\ ReportsOK

-----------------------------------------------------------------------------
(***************************************************************************)
(* The server runs the consumer                                            *)
(***************************************************************************)
\* The steps of the consumer inside the server.
ConsumerStep ==
  StartConsumer \/ ConsumeLoop \/ CommitOffsetLoop \/ RebalanceCB \/ AssignPrntCB \/ RevokePrtnCB

LEMMA ConsumerStepIsNext ==
  ASSUME ConsumerStep
  PROVE  Next
  BY DEF ConsumerStep, StartConsumer, ConsumeLoop, CommitOffsetLoop, RebalanceCB,
     AssignPrntCB, RevokePrtnCB, Next, Rebalance

\* saveToDB reports once, and takes back a transaction that has not inserted.
Reports(h, t) ==
  /\ t \in TxOf(h)
  /\ reported' = reported \cup {Msg(h)} /\ handlers' = handlers \ {h}
  /\ tx' = IF t.res = "inserted" THEN tx ELSE tx \ {t}
  /\ excused' = IF t.res = "failed" THEN excused \cup {Msg(t)} ELSE excused

LEMMA SaveEffect ==
  ASSUME NEW h \in handlers, SaveToDB(h)
  PROVE  /\ Next /\ UNCHANGED stored
         /\ \/ /\ UNCHANGED <<reported, tx, excused>>
               /\ handlers' = (handlers \ {h}) \cup {[h EXCEPT !.ps = StateOf(h.tp)]}
            \/ \E t \in tx : Reports(h, t)
  <1>1. Success \in MsgState /\ Error \in MsgState
    BY DEF MsgState
  <1>2. PICK t \in TxOf(h) :
          /\ \/ Lookup(h) /\ UNCHANGED <<tx, excused>>
             \/ /\ UpdateState(h, IF t.res = "failed" THEN Error ELSE Success)
                /\ tx' = IF t.res = "inserted" THEN tx ELSE tx \ {t}
                /\ excused' = IF t.res = "failed" THEN excused \cup {Msg(t)} ELSE excused
          /\ UNCHANGED stored
    BY DEF SaveToDB
  <1>3. CASE Lookup(h) /\ UNCHANGED <<tx, excused>>
    BY <1>2, <1>3 DEF Lookup, Next
  <1>4. CASE /\ UpdateState(h, IF t.res = "failed" THEN Error ELSE Success)
             /\ tx' = IF t.res = "inserted" THEN tx ELSE tx \ {t}
             /\ excused' = IF t.res = "failed" THEN excused \cup {Msg(t)} ELSE excused
    <2> DEFINE s == IF t.res = "failed" THEN Error ELSE Success
    <2>1. s \in MsgState
      BY <1>1
    <2> HIDE DEF s
    <2>2. LookupMissing(h) \/ WriteState(h, s)
      BY <1>4 DEF UpdateState, s
    <2>3. Next
      BY <2>1, <2>2 DEF Next
    <2>4. reported' = reported \cup {<<h.tp, h.off>>} /\ handlers' = handlers \ {h}
      BY <2>2 DEF LookupMissing, WriteState
    <2>5. Reports(h, t)
      BY <1>2, <1>4, <2>4 DEF Reports, Msg
    <2> QED
      BY <1>2, <2>3, <2>5 DEF TxOf
  <1> QED
    BY <1>2, <1>3, <1>4

\* Every step of the server is a step of the consumer, or none.
LEMMA StoreStepIsConsumerStep ==
  ASSUME [StoreNext]_<<vars, storeVars>>
  PROVE  [Next]_vars
  <1>1. CASE UNCHANGED <<vars, storeVars>>
    BY <1>1
  <1>2. ASSUME NEW h \in handlers, Insert(h) PROVE UNCHANGED vars
    BY <1>2 DEF Insert
  <1>3. ASSUME NEW h \in handlers, SaveToDB(h) PROVE Next
    BY <1>3, SaveEffect
  <1>4. ASSUME NEW t \in tx, TxClosure(t) PROVE UNCHANGED vars
    BY <1>4 DEF TxClosure
  <1>5. CASE StoreDrop \/ StoreCrash
    BY <1>5 DEF StoreDrop, StoreCrash, Next
  <1>6. CASE ConsumerStep
    BY <1>6, ConsumerStepIsNext
  <1> QED
    BY <1>1, <1>2, <1>3, <1>4, <1>5, <1>6 DEF StoreNext, ConsumerStep

\* The server of kafka/ implements the consumer's specification, so at-least-once
\* and the other theorems about the consumer hold of it.
THEOREM StoreRunsConsumer == StoreSpec => Spec
  <1>1. StoreInit => Init
    BY DEF StoreInit
  <1>2. [StoreNext]_<<vars, storeVars>> => [Next]_vars
    BY StoreStepIsConsumerStep
  <1> QED
    BY <1>1, <1>2, PTL DEF StoreSpec, Spec

-----------------------------------------------------------------------------
(***************************************************************************)
(* Messages and their sessions                                             *)
(***************************************************************************)
LEMMA OneTopic == \A tp \in TPs : Sole(tp)
  BY StoreAssumption, TPFacts DEF Sole

LEMMA NextCurrent ==
  ASSUME DataOK, ControlOK, CurrentOK, Next
  PROVE  CurrentOK'
  <1> USE DEF psVars, loopVars, groupVars, envVars
  <1>1. CASE Elsewhere
    BY <1>1, ElsewhereKeeps DEF CurrentOK
  <1>2. ASSUME NEW tp \in TPs, Receive(tp) PROVE CurrentOK'
    <2>1. /\ tp \in assigned /\ assigned' = assigned /\ cur' = <<tp, position[tp]>>
          /\ position' = [position EXCEPT ![tp] = position[tp] + 1]
      BY <1>2 DEF Receive
    <2>2. position'[tp] = position[tp] + 1 /\ position[tp] \in Nat
      BY <2>1 DEF DataOK
    <2> QED
      BY <2>1, <2>2 DEF CurrentOK
  <1>3. CASE pc' # "send"
    BY <1>3 DEF CurrentOK
  <1>4. CASE Startup \/ Enqueue \/ Drop \/ SkipUndecodable \/ Crash \/ Rebalance
             \/ \E S \in SUBSET TPs : AssignEvent(S) \/ RevokeEvent(S)
    BY <1>3, <1>4 DEF Startup, InitializeKafkaTopic, WaitForTopicReady, SubscribeTopics, Enqueue,
       Drop, SkipUndecodable, Crash, Rebalance, AssignLock, AssignState, AssignDone, AssignNext,
       RevokeFind, RevokeDelete, RevokeDone, RevokeMissing, RevokeCancel, AssignEvent, RevokeEvent
  <1> QED
    BY <1>1, <1>2, <1>4 DEF Next, Elsewhere

\* What was given out stays behind the session that gave it out.
LEMMA NextGivenOut ==
  ASSUME DataOK, ControlOK, MapOK, Next, ~Crash,
         NEW tp \in TPs, NEW o \in Offsets, NEW s, GivenOut(tp, o, s)
  PROVE  GivenOut(tp, o, s)'
  <1> USE DEF psVars, loopVars, groupVars, envVars
  <1> DEFINE Behind == /\ tp \in assigned /\ o < position[tp]
                       /\ pc = "send" /\ cur[1] = tp => o < cur[2]
  <1>0. /\ s \in 1 .. Len(ps)
        /\ s = StateOf(tp) /\ Opened(tp) => Behind
    BY DEF GivenOut
  <1>1. CASE AssignState
    <2>1. Len(ps) \in Nat /\ Len(ps') = Len(ps) + 1
      BY <1>1 DEF AssignState, DataOK
    <2>2. s \in 1 .. Len(ps') /\ s # Len(ps) + 1
      BY <1>0, <2>1
    <2>3. /\ pc = "assignWait" /\ pc' = "assign" /\ UNCHANGED <<event, todo, assigned, position>>
          /\ stateMap' = [stateMap EXCEPT ![Partition(cur)] = Len(ps) + 1]
      BY <1>1 DEF AssignState
    <2>4. stateMap \in [Partitions -> 0 .. Len(ps)] /\ Partition(tp) \in Partitions
      BY TPFacts DEF MapOK
    <2>5. ASSUME s = StateOf(tp)', Opened(tp)' PROVE Behind'
      <3>1. Partition(tp) # Partition(cur) /\ s = StateOf(tp)
        BY <2>2, <2>3, <2>4, <2>5 DEF StateOf
      <3>2. Opened(tp)
        BY <2>3, <2>5, <3>1 DEF Opened, Assigning
      <3> QED
        BY <1>0, <2>3, <3>1, <3>2
    <2> QED
      BY <2>2, <2>5 DEF GivenOut
  <1>2. CASE ~AssignState
    <2>1. s \in 1 .. Len(ps')
      BY <1>0, <1>2, StatesKeep DEF StatesKept
    <2>2. SUFFICES ASSUME s = StateOf(tp)', Opened(tp)' PROVE Behind'
      BY <2>1 DEF GivenOut
    <2>3. ASSUME stateMap' = stateMap, Opened(tp)' => Opened(tp), assigned \subseteq assigned',
                 UNCHANGED position, pc' = "send" => UNCHANGED <<pc, cur>>
          PROVE  Behind'
      BY <1>0, <2>2, <2>3 DEF StateOf
    <2>4. CASE Elsewhere
      BY <2>3, <2>4, ElsewhereKeeps DEF Opened
    <2>5. ASSUME NEW t \in TPs, Receive(t) PROVE Behind'
      <3>1. /\ pc = "poll" /\ pc' = "send" /\ UNCHANGED <<stateMap, assigned>>
            /\ cur' = <<t, position[t]>> /\ position' = [position EXCEPT ![t] = position[t] + 1]
        BY <2>5 DEF Receive
      <3>2. tp \in assigned /\ o < position[tp]
        BY <1>0, <2>2, <3>1 DEF Opened, Assigning, StateOf
      <3>3. o \in Int /\ position[tp] \in Nat /\ position[t] \in Nat
            /\ position'[tp] = IF tp = t THEN position[t] + 1 ELSE position[tp]
        BY <3>1 DEF DataOK, Offsets
      <3>4. o < position'[tp]
        BY <3>2, <3>3
      <3>5. cur'[1] = tp => o < cur'[2]
        BY <3>1, <3>2
      <3> QED
        BY <3>1, <3>2, <3>4, <3>5
    <2>6. CASE Startup \/ Enqueue \/ Drop \/ SkipUndecodable
      BY <2>3, <2>6 DEF Startup, InitializeKafkaTopic, WaitForTopicReady, SubscribeTopics, Enqueue,
         Drop, SkipUndecodable, Opened, Assigning
    <2>7. CASE \E S \in SUBSET TPs : AssignEvent(S) \/ RevokeEvent(S)
      BY <2>3, <2>7 DEF AssignEvent, RevokeEvent, Opened, Assigning
    <2>8. CASE AssignLock
      BY <2>3, <2>8 DEF AssignLock, ControlOK, Opened, Assigning
    <2>9. ASSUME NEW t \in TPs, AssignNext(t) PROVE Behind'
      BY <2>3, <2>9 DEF AssignNext, Opened, Assigning
    <2>10. CASE AssignDone
      <3>1. /\ pc = "assign" /\ pc' = "poll" /\ todo = {} /\ assigned' = assigned \cup event
            /\ position' = [p \in TPs |-> IF p \notin event THEN position[p]
                                          ELSE IF committed[p] < 0 THEN 0 ELSE committed[p]]
            /\ stateMap' = stateMap
        BY <2>10 DEF AssignDone
      <3>2. event \cap assigned = {}
        BY <3>1 DEF ControlOK, Assigning
      <3>3. Opened(tp)
        BY <2>2, <3>1 DEF Opened, Assigning
      <3>4. tp \in assigned /\ o < position[tp] /\ tp \notin event
        BY <1>0, <2>2, <3>1, <3>2, <3>3 DEF StateOf
      <3> QED
        BY <3>1, <3>4
    <2>11. CASE RevokeDelete
      <3>1. /\ stateMap' = [stateMap EXCEPT ![Partition(cur)] = None]
            /\ pc = "revokeLock" /\ pc' = "revoke" /\ UNCHANGED <<assigned, position>>
        BY <2>11 DEF RevokeDelete
      <3>2. stateMap \in [Partitions -> 0 .. Len(ps)] /\ Partition(tp) \in Partitions /\ s # None
        BY <1>0, TPFacts DEF MapOK, None
      <3>3. s = StateOf(tp)
        BY <2>2, <3>1, <3>2 DEF StateOf
      <3>4. Opened(tp)
        BY <2>2, <3>1 DEF Opened, Assigning
      <3> QED
        BY <1>0, <3>1, <3>3, <3>4
    <2>12. CASE RevokeDone
      <3>1. /\ pc' = "poll" /\ pc = "revoke" /\ UNCHANGED <<stateMap, position>>
            /\ assigned' = IF Cooperative THEN assigned \ event ELSE {}
        BY <2>12 DEF RevokeDone
      <3>2. tp \in assigned' /\ Opened(tp)
        BY <2>2, <3>1 DEF Opened, Assigning
      <3> QED
        BY <1>0, <2>2, <3>1, <3>2 DEF StateOf
    <2>13. CASE RevokeFind \/ \E t \in TPs : RevokeMissing(t) \/ RevokeCancel(t)
      BY <2>3, <2>13 DEF RevokeFind, RevokeMissing, RevokeCancel, Opened, Assigning
    <2> QED
      BY <1>2, <2>4, <2>5, <2>6, <2>7, <2>8, <2>9, <2>10, <2>11, <2>12, <2>13
         DEF Next, Rebalance, Elsewhere
  <1> QED
    BY <1>1, <1>2

-----------------------------------------------------------------------------
(***************************************************************************)
(* The steps of the server                                                 *)
(***************************************************************************)
LEMMA KeyTypes ==
  ASSUME DataOK, TxOK, NEW r \in handlers \cup tx
  PROVE  r.tp \in TPs /\ r.off \in Offsets /\ r.session \in Nat
  BY DEF DataOK, TxOK, Transactions

\* A step of the consumer inside the server only starts handlers, one at a time.
LEMMA ConsumerStepEffect ==
  ASSUME crashes \in Nat, ConsumerStep
  PROVE  /\ reported' = reported /\ crashes' = crashes /\ ~Crash
         /\ handlers' = handlers \/ Enqueue
  <1> USE DEF psVars, loopVars, groupVars, envVars
  <1>1. reported' = reported
    BY DEF ConsumerStep, StartConsumer, Startup, InitializeKafkaTopic, WaitForTopicReady,
       SubscribeTopics, ConsumeLoop, Receive, Enqueue, CommitOffsetLoop, CommitLoop, CommitTick,
       CommitOk, CommitErr, RecordCommit, LoopExit, RebalanceCB, AssignEvent, RevokeEvent,
       AssignPrntCB, AssignLock, AssignState, AssignDone, AssignNext, RevokePrtnCB, RevokeFind,
       RevokeDelete, RevokeDone, RevokeMissing, RevokeCancel
  <1>2. handlers' = handlers \/ Enqueue
    BY DEF ConsumerStep, StartConsumer, Startup, InitializeKafkaTopic, WaitForTopicReady,
       SubscribeTopics, ConsumeLoop, Receive, CommitOffsetLoop, CommitLoop, CommitTick,
       CommitOk, CommitErr, RecordCommit, LoopExit, RebalanceCB, AssignEvent, RevokeEvent,
       AssignPrntCB, AssignLock, AssignState, AssignDone, AssignNext, RevokePrtnCB, RevokeFind,
       RevokeDelete, RevokeDone, RevokeMissing, RevokeCancel
  <1>3. crashes' = crashes
    BY DEF ConsumerStep, StartConsumer, Startup, InitializeKafkaTopic, WaitForTopicReady,
       SubscribeTopics, ConsumeLoop, Receive, Enqueue, CommitOffsetLoop, CommitLoop, CommitTick,
       CommitOk, CommitErr, RecordCommit, LoopExit, RebalanceCB, AssignEvent, RevokeEvent,
       AssignPrntCB, AssignLock, AssignState, AssignDone, AssignNext, RevokePrtnCB, RevokeFind,
       RevokeDelete, RevokeDone, RevokeMissing, RevokeCancel
  <1>4. ~Crash
    BY <1>3 DEF Crash
  <1> QED
    BY <1>1, <1>2, <1>3, <1>4

\* The handler that Enqueue starts has a key of its own.
NewHandler == [tp |-> cur[1], off |-> cur[2], ps |-> None, session |-> StateOf(cur[1])]

LEMMA EnqueueFresh ==
  ASSUME ConsumerInv, StoreInv, Enqueue
  PROVE  /\ handlers' = handlers \cup {NewHandler}
         /\ \A r : r = NewHandler => GivenOut(r.tp, r.off, r.session)'
         /\ \A r \in handlers \cup tx : ~SameKey(r, NewHandler)
  <1>1. /\ pc = "send" /\ pc' = "poll" /\ handlers' = handlers \cup {NewHandler}
        /\ UNCHANGED <<ps, stateMap, assigned, position>>
    BY DEF Enqueue, NewHandler, psVars, groupVars
  <1>2. /\ cur[1] \in TPs /\ cur[2] \in Offsets
        /\ cur[1] \in assigned /\ cur[2] < position[cur[1]]
    BY <1>1 DEF ConsumerInv, ControlOK, Messages, StoreInv, CurrentOK
  <1>3. StateOf(cur[1]) \in 1 .. Len(ps)
    <2>1. StateOf(cur[1]) # None
      BY <1>1, <1>2, OneTopic DEF ConsumerInv, SessionsOK, Revoking, Kept, Tracked
    <2> QED
      BY <1>2, <2>1, MapEntry, TPFacts DEF ConsumerInv, StateOf
  <1>4. PICK t \in TPs, o \in Offsets, s \in 1 .. Len(ps) :
          t = cur[1] /\ o = cur[2] /\ s = StateOf(cur[1])
    BY <1>2, <1>3
  <1>5. GivenOut(t, o, s)'
    BY <1>1, <1>2, <1>4 DEF GivenOut, StateOf
  <1>6. ASSUME NEW r \in handlers \cup tx, SameKey(r, NewHandler) PROVE FALSE
    <2>1. r.tp = t /\ r.off = o /\ r.session = s
      BY <1>4, <1>6 DEF SameKey, NewHandler
    <2>2. GivenOut(t, o, s)
      BY <2>1 DEF StoreInv, KeysOK
    <2>3. o < o
      BY <1>1, <1>2, <1>4, <2>2 DEF GivenOut, Opened
    <2> QED
      BY <2>3 DEF Offsets
  <1>7. ASSUME NEW r, r = NewHandler PROVE GivenOut(r.tp, r.off, r.session)'
    <2>1. r.tp = t /\ r.off = o /\ r.session = s
      BY <1>4, <1>7 DEF NewHandler
    <2> QED
      BY <1>5, <2>1
  <1> QED
    BY <1>1, <1>6, <1>7

\* Keys that were given out stay so, unless the process dies.
LEMMA KeysStay ==
  ASSUME ConsumerInv, StoreInv, [Next]_vars, ~Crash
  PROVE  \A r \in handlers \cup tx : GivenOut(r.tp, r.off, r.session)'
  <1>1. ASSUME NEW r \in handlers \cup tx PROVE GivenOut(r.tp, r.off, r.session)'
    <2>1. PICK tp \in TPs, o \in Offsets, s \in Nat : tp = r.tp /\ o = r.off /\ s = r.session
      BY KeyTypes DEF ConsumerInv, StoreInv
    <2>2. GivenOut(tp, o, s)
      BY <2>1 DEF StoreInv, KeysOK
    <2>3. CASE Next
      BY <2>1, <2>2, <2>3, NextGivenOut DEF ConsumerInv
    <2>4. CASE UNCHANGED vars
      BY <2>1, <2>2, <2>4 DEF GivenOut, StateOf, Opened, vars, psVars, loopVars, groupVars
    <2> QED
      BY <2>3, <2>4
  <1> QED
    BY <1>1

LEMMA ReportedIs ==
  ASSUME NEW t \in tx
  PROVE  Reported(t) <=> \A h \in handlers : ~SameKey(t, h)
  BY DEF Reported, TxOf, SameKey

\* When tables and excuses only grow, what is accounted for stays so if its open
\* transaction has no handler afterwards or has ended in a row or an excuse.
LEMMA AccountedStays ==
  ASSUME stored \subseteq stored', excused \subseteq excused', NEW m, Accounted(m),
         \A t \in tx : Msg(t) = m /\ t.res = "inserted" /\ Reported(t) =>
           \/ t \in tx' /\ \A h \in handlers' : ~SameKey(t, h)
           \/ Msg(t) \in stored' \cup excused'
  PROVE  Accounted(m)'
  <1>1. CASE m \in stored \cup excused
    BY <1>1 DEF Accounted
  <1>2. ASSUME NEW t \in tx, Msg(t) = m, t.res = "inserted", Reported(t) PROVE Accounted(m)'
    <2>1. CASE Msg(t) \in stored' \cup excused'
      BY <1>2, <2>1 DEF Accounted
    <2>2. CASE t \in tx' /\ \A h \in handlers' : ~SameKey(t, h)
      <3>1. Reported(t)'
        BY <2>2 DEF Reported, TxOf, SameKey
      <3> QED
        BY <1>2, <2>2, <3>1 DEF Accounted, Msg
    <2> QED
      BY <1>2, <2>1, <2>2
  <1> QED
    BY <1>1, <1>2 DEF Accounted

LEMMA ConsumerStepInv ==
  ASSUME ConsumerInv, StoreInv, ConsumerStep, UNCHANGED storeVars
  PROVE  StoreInv'
  <1>1. /\ reported' = reported /\ crashes' = crashes /\ ~Crash
        /\ handlers' = handlers \/ Enqueue
    BY ConsumerStepEffect DEF StoreInv
  <1>2. Next
    BY ConsumerStepIsNext
  <1>3. CurrentOK'
    BY <1>2, NextCurrent DEF ConsumerInv, StoreInv
  <1>4. UNCHANGED <<tx, stored, excused>>
    BY DEF storeVars
  <1>5. \A r \in handlers \cup tx : GivenOut(r.tp, r.off, r.session)'
    BY <1>1, <1>2, KeysStay
  <1>6. TxOK'
    BY <1>4 DEF StoreInv, TxOK, Msg
  <1>7. CASE handlers' = handlers
    <2>1. KeysOK'
      BY <1>4, <1>5, <1>7 DEF StoreInv, KeysOK, SameKey
    <2>2. ReportsOK'
      BY <1>1, <1>4, <1>7 DEF StoreInv, ReportsOK, Accounted, Reported, TxOf, Msg
    <2> QED
      BY <1>1, <1>3, <1>6, <2>1, <2>2 DEF StoreInv
  <1>8. CASE Enqueue
    <2>1. PICK k : k = NewHandler
      OBVIOUS
    <2>2. /\ handlers' = handlers \cup {k} /\ GivenOut(k.tp, k.off, k.session)'
          /\ \A r \in handlers \cup tx : ~SameKey(r, k)
      BY <1>8, <2>1, EnqueueFresh
    <2>3. KeysOK'
      BY <1>4, <1>5, <2>2 DEF StoreInv, KeysOK, SameKey
    <2>4. ASSUME NEW m \in reported' PROVE Accounted(m)'
      <3>1. Accounted(m)
        BY <1>1, <2>4 DEF StoreInv, ReportsOK
      <3> QED
        BY <1>4, <2>2, <3>1, ReportedIs, AccountedStays
    <2> QED
      BY <1>1, <1>3, <1>6, <2>3, <2>4 DEF StoreInv, ReportsOK
  <1> QED
    BY <1>1, <1>7, <1>8

LEMMA InsertInv ==
  ASSUME ConsumerInv, StoreInv, NEW h \in handlers, Insert(h)
  PROVE  StoreInv'
  <1>1. UNCHANGED vars /\ UNCHANGED <<stored, excused>>
    BY DEF Insert
  <1>2. UNCHANGED <<pc, cur, assigned, position, handlers, reported, crashes>>
    BY <1>1 DEF vars, loopVars, groupVars, envVars
  <1>3. PICK res \in {"inserted", "duplicate", "failed"} :
          /\ res = "duplicate" => Msg(h) \in stored
          /\ tx' = tx \cup {[tp |-> h.tp, off |-> h.off, session |-> h.session, res |-> res]}
    BY DEF Insert
  <1>4. h.tp \in TPs /\ h.off \in Offsets /\ h.session \in Nat
    BY KeyTypes DEF ConsumerInv, StoreInv
  <1>5. PICK v \in Transactions :
          tx' = tx \cup {v} /\ SameKey(v, h) /\ Msg(v) = Msg(h) /\ v.res = res
    <2> DEFINE w == [tp |-> h.tp, off |-> h.off, session |-> h.session, res |-> res]
    <2>1. w \in Transactions /\ SameKey(w, h) /\ Msg(w) = Msg(h) /\ w.res = res
      BY <1>4 DEF Transactions, SameKey, Msg
    <2>2. tx' = tx \cup {w}
      BY <1>3
    <2> HIDE DEF w
    <2> QED
      BY <2>1, <2>2
  <1>6. TxOK'
    BY <1>1, <1>3, <1>5 DEF StoreInv, TxOK, Msg
  <1>7. CurrentOK'
    BY <1>2 DEF StoreInv, CurrentOK
  <1>8. KeysOK'
    <2>1. ~Crash
      BY <1>2 DEF Crash, StoreInv
    <2>2. \A r \in handlers \cup tx : GivenOut(r.tp, r.off, r.session)'
      BY <1>1, <2>1, KeysStay
    <2>3. GivenOut(v.tp, v.off, v.session)'
      BY <1>5, <2>2 DEF SameKey
    <2> QED
      BY <1>2, <1>5, <2>2, <2>3 DEF StoreInv, KeysOK, SameKey
  <1>9. ASSUME NEW m \in reported' PROVE Accounted(m)'
    <2>1. Accounted(m)
      BY <1>2, <1>9 DEF StoreInv, ReportsOK
    <2> QED
      BY <1>1, <1>2, <1>5, <2>1, ReportedIs, AccountedStays
  <1> QED
    BY <1>2, <1>6, <1>7, <1>8, <1>9 DEF StoreInv, ReportsOK

LEMMA TxClosureInv ==
  ASSUME ConsumerInv, StoreInv, NEW t \in tx, TxClosure(t)
  PROVE  StoreInv'
  <1>1. /\ UNCHANGED vars /\ tx' = tx \ {t} /\ t.res = "inserted"
        /\ stored \subseteq stored' /\ excused \subseteq excused' /\ Msg(t) \in stored' \cup excused'
    BY DEF TxClosure
  <1>2. UNCHANGED <<pc, cur, assigned, position, handlers, reported, crashes>>
    BY <1>1 DEF vars, loopVars, groupVars, envVars
  <1>3. TxOK'
    BY <1>1 DEF StoreInv, TxOK, Msg
  <1>4. CurrentOK'
    BY <1>2 DEF StoreInv, CurrentOK
  <1>5. KeysOK'
    <2>1. ~Crash
      BY <1>2 DEF Crash, StoreInv
    <2>2. \A r \in handlers \cup tx : GivenOut(r.tp, r.off, r.session)'
      BY <1>1, <2>1, KeysStay
    <2> QED
      BY <1>1, <1>2, <2>2 DEF StoreInv, KeysOK, SameKey
  <1>6. ASSUME NEW m \in reported' PROVE Accounted(m)'
    <2>1. Accounted(m)
      BY <1>2, <1>6 DEF StoreInv, ReportsOK
    <2> QED
      BY <1>1, <1>2, <2>1, ReportedIs, AccountedStays
  <1> QED
    BY <1>2, <1>3, <1>4, <1>5, <1>6 DEF StoreInv, ReportsOK

LEMMA DropInv ==
  ASSUME ConsumerInv, StoreInv, StoreDrop
  PROVE  StoreInv'
  <1>1. /\ Drop /\ excused' = excused \cup {cur} /\ UNCHANGED <<tx, stored>>
        /\ reported' = reported \cup {cur} /\ UNCHANGED <<handlers, crashes>>
    BY DEF StoreDrop, Drop, envVars
  <1>2. Next /\ ~Crash
    BY <1>1 DEF Next, Crash, StoreInv
  <1>3. TxOK'
    BY <1>1 DEF StoreInv, TxOK, Msg
  <1>4. CurrentOK'
    BY <1>2, NextCurrent DEF ConsumerInv, StoreInv
  <1>5. KeysOK'
    BY <1>1, <1>2, KeysStay DEF StoreInv, KeysOK, SameKey
  <1>6. ASSUME NEW m \in reported' PROVE Accounted(m)'
    <2>1. CASE m \in reported
      <3>1. Accounted(m)
        BY <2>1 DEF StoreInv, ReportsOK
      <3> QED
        BY <1>1, <3>1, ReportedIs, AccountedStays
    <2>2. CASE m = cur
      BY <1>1, <2>2 DEF Accounted
    <2> QED
      BY <1>1, <1>6, <2>1, <2>2
  <1> QED
    BY <1>1, <1>3, <1>4, <1>5, <1>6 DEF StoreInv, ReportsOK

LEMMA CrashInv ==
  ASSUME ConsumerInv, StoreInv, StoreCrash
  PROVE  StoreInv'
  <1>1. /\ handlers' = {} /\ tx' = {} /\ UNCHANGED <<stored, reported>> /\ pc' = "start"
        /\ crashes' = crashes + 1
        /\ excused' = excused \cup {Msg(t) : t \in {u \in tx : u.res = "inserted" /\ Reported(u)}}
    BY DEF StoreCrash, Crash
  <1>2. TxOK' /\ CurrentOK' /\ KeysOK' /\ crashes' \in Nat
    BY <1>1 DEF StoreInv, TxOK, CurrentOK, KeysOK
  <1>3. ASSUME NEW m \in reported' PROVE Accounted(m)'
    <2>1. Accounted(m)
      BY <1>1, <1>3 DEF StoreInv, ReportsOK
    <2> QED
      BY <1>1, <2>1, AccountedStays
  <1> QED
    BY <1>2, <1>3 DEF StoreInv, ReportsOK

LEMMA SaveInv ==
  ASSUME ConsumerInv, StoreInv, NEW h \in handlers, SaveToDB(h)
  PROVE  StoreInv'
  <1>1. /\ Next /\ UNCHANGED stored
        /\ \/ /\ UNCHANGED <<reported, tx, excused>>
              /\ handlers' = (handlers \ {h}) \cup {[h EXCEPT !.ps = StateOf(h.tp)]}
           \/ \E t \in tx : Reports(h, t)
    BY SaveEffect
  <1>2. crashes' = crashes /\ ~Crash
    <2>1. crashes' = crashes
      BY DEF SaveToDB, UpdateState, Lookup, LookupMissing, WriteState, envVars
    <2> QED
      BY <2>1 DEF Crash, StoreInv
  <1>3. CurrentOK'
    BY <1>1, NextCurrent DEF ConsumerInv, StoreInv
  <1>4. \A r \in handlers \cup tx : GivenOut(r.tp, r.off, r.session)'
    BY <1>1, <1>2, KeysStay
  <1>5. CASE /\ UNCHANGED <<reported, tx, excused>>
             /\ handlers' = (handlers \ {h}) \cup {[h EXCEPT !.ps = StateOf(h.tp)]}
    <2>1. h \in [tp : TPs, off : Offsets, ps : Nat, session : Nat]
      BY DEF ConsumerInv, DataOK
    <2>2. PICK k : k = [h EXCEPT !.ps = StateOf(h.tp)]
      OBVIOUS
    <2>3. SameKey(k, h) /\ handlers' = (handlers \ {h}) \cup {k}
      BY <1>5, <2>1, <2>2 DEF SameKey
    <2>4. TxOK'
      BY <1>1, <1>5 DEF StoreInv, TxOK, Msg
    <2>5. KeysOK'
      BY <1>4, <1>5, <2>3 DEF StoreInv, KeysOK, SameKey
    <2>6. ASSUME NEW m \in reported' PROVE Accounted(m)'
      <3>1. Accounted(m)
        BY <1>5, <2>6 DEF StoreInv, ReportsOK
      <3>2. ASSUME NEW t \in tx, Reported(t) PROVE \A g \in handlers' : ~SameKey(t, g)
        BY <2>3, <3>2, ReportedIs DEF SameKey
      <3> QED
        BY <1>1, <1>5, <3>1, <3>2, AccountedStays
    <2> QED
      BY <1>2, <1>3, <2>4, <2>5, <2>6 DEF StoreInv, ReportsOK
  <1>6. ASSUME NEW t \in tx, Reports(h, t) PROVE StoreInv'
    <2>1. /\ reported' = reported \cup {Msg(h)} /\ handlers' = handlers \ {h}
          /\ tx' = IF t.res = "inserted" THEN tx ELSE tx \ {t}
          /\ excused' = IF t.res = "failed" THEN excused \cup {Msg(t)} ELSE excused
          /\ SameKey(t, h) /\ Msg(t) = Msg(h)
          /\ t.res \in {"inserted", "duplicate", "failed"}
      BY <1>6 DEF Reports, TxOf, SameKey, Msg, StoreInv, TxOK, Transactions
    <2>2. TxOK'
      BY <1>1, <2>1 DEF StoreInv, TxOK, Msg
    <2>3. KeysOK'
      BY <1>4, <2>1 DEF StoreInv, KeysOK, SameKey
    <2>4. ASSUME NEW m \in reported' PROVE Accounted(m)'
      <3>1. CASE m \in reported
        <4>1. Accounted(m)
          BY <3>1 DEF StoreInv, ReportsOK
        <4>2. ASSUME NEW u \in tx, u.res = "inserted", Reported(u)
              PROVE  u \in tx' /\ \A g \in handlers' : ~SameKey(u, g)
          BY <2>1, <4>2, ReportedIs
        <4> QED
          BY <1>1, <2>1, <4>1, <4>2, AccountedStays
      <3>2. CASE m = Msg(h) /\ t.res = "inserted"
        <4>1. t \in tx' /\ \A g \in handlers' : ~SameKey(t, g)
          BY <2>1, <3>2 DEF StoreInv, KeysOK, SameKey
        <4>2. Reported(t)'
          BY <4>1 DEF Reported, TxOf, SameKey
        <4> QED
          BY <2>1, <3>2, <4>1, <4>2 DEF Accounted, Msg
      <3>3. CASE m = Msg(h) /\ t.res = "duplicate"
        BY <1>1, <2>1, <3>3 DEF Accounted, StoreInv, TxOK
      <3>4. CASE m = Msg(h) /\ t.res = "failed"
        BY <2>1, <3>4 DEF Accounted
      <3> QED
        BY <2>1, <2>4, <3>1, <3>2, <3>3, <3>4
    <2> QED
      BY <1>2, <1>3, <2>2, <2>3, <2>4 DEF StoreInv, ReportsOK
  <1> QED
    BY <1>1, <1>5, <1>6

LEMMA StoreStep ==
  ASSUME ConsumerInv, StoreInv, [StoreNext]_<<vars, storeVars>>
  PROVE  StoreInv'
  <1>1. CASE UNCHANGED <<vars, storeVars>>
    <2>1. UNCHANGED <<ps, stateMap, pc, event, todo, cur, assigned, position, handlers, reported,
                      crashes, tx, stored, excused>>
      BY <1>1 DEF vars, psVars, loopVars, groupVars, envVars, storeVars
    <2> QED
      BY <2>1 DEF StoreInv, TxOK, CurrentOK, KeysOK, ReportsOK, GivenOut, Opened, StateOf, SameKey,
         Accounted, Reported, TxOf, Msg
  <1> QED
    BY <1>1, ConsumerStepInv, InsertInv, TxClosureInv, DropInv, CrashInv, SaveInv
       DEF StoreNext, ConsumerStep

-----------------------------------------------------------------------------
(***************************************************************************)
(* The theorems                                                            *)
(***************************************************************************)
LEMMA StoreInitInv ==
  ASSUME StoreInit
  PROVE  ConsumerInv /\ StoreInv
  <1>1. ConsumerInv
    BY InitInv DEF StoreInit
  <1>2. StoreInv
    BY DEF StoreInit, Init, StoreInv, TxOK, CurrentOK, KeysOK, ReportsOK
  <1> QED
    BY <1>1, <1>2

LEMMA ConsumerKeeps ==
  ASSUME ConsumerInv, [Next]_vars
  PROVE  ConsumerInv'
  <1>1. CASE Next
    BY <1>1, NextData, NextControl, NextMap, NextSessions, NextTracks, NextCommits DEF ConsumerInv
  <1>2. CASE UNCHANGED vars
    BY <1>2, StutterInv
  <1> QED
    BY <1>1, <1>2

\* A committed offset passes only what was reported, and that is accounted for.
LEMMA InvIsStored ==
  ASSUME ConsumerInv, StoreInv
  PROVE  CommittedIsStored
  <1>1. ASSUME NEW tp \in TPs, NEW o \in Offsets, o < committed[tp]
        PROVE  Accounted(<<tp, o>>)
    <2>1. committed[tp] \in Int /\ o \in Int
      BY DEF ConsumerInv, DataOK, Offsets
    <2>2. o \notin Unreported(tp)
      BY <1>1, <2>1, OneTopic DEF ConsumerInv, CommitsOK
    <2> QED
      BY <2>2 DEF Unreported, StoreInv, ReportsOK
  <1> QED
    BY <1>1 DEF CommittedIsStored, Accounted

\* The invariant of the server of kafka/ next to the consumer's: handlers,
\* transactions and sessions agree, and reports are accounted for.  (saveToDB)
THEOREM StoreInvariant == StoreSpec => [](ConsumerInv /\ StoreInv)
  <1>1. StoreInit => ConsumerInv /\ StoreInv
    BY StoreInitInv
  <1>2. ConsumerInv /\ StoreInv /\ [StoreNext]_<<vars, storeVars>> => (ConsumerInv /\ StoreInv)'
    BY StoreStepIsConsumerStep, ConsumerKeeps, StoreStep
  <1> QED
    BY <1>1, <1>2, PTL DEF StoreSpec

\* However sessions, redeliveries and crashes interleave, a message below the
\* committed offset is a row of events, or its insert failed, it was dropped, or its
\* transaction is open or was lost after saveToDB had reported.  (TxClosure,
\* commitOffsetLoop)
THEOREM CommittedStored == StoreSpec => []CommittedIsStored
  <1>1. ConsumerInv /\ StoreInv => CommittedIsStored
    BY InvIsStored
  <1> QED
    BY <1>1, StoreInvariant, PTL

\* The same of the two programs on one consumer: what kafka-outbox's does beside it
\* says nothing of rows, and the server of kafka/ keeps its promise.  (saveToDB)
THEOREM StoreKeepsCommitted == MCSpec => []StoreCommittedIsStored
  <1> DEFINE Both == ConsumerInv /\ (program = "store" => StoreInv)
  <1>1. MCInit => Both
    BY StoreInitInv DEF MCInit
  <1>2. Both /\ [MCNext]_mcVars => Both'
    <2>1. ASSUME Both, program = "outbox", Next, program' = program PROVE Both'
      BY <2>1, ConsumerKeeps
    <2>2. ASSUME Both, program = "store", StoreNext, program' = program PROVE Both'
      BY <2>2, StoreStepIsConsumerStep, ConsumerKeeps, StoreStep
    <2>3. ASSUME Both, UNCHANGED mcVars PROVE Both'
      <3>1. program' = program /\ UNCHANGED <<vars, storeVars>> /\ UNCHANGED vars
        BY <2>3 DEF mcVars
      <3> QED
        BY <2>3, <3>1, ConsumerKeeps, StoreStep
    <2> QED
      BY <2>1, <2>2, <2>3 DEF MCNext
  <1>3. Both => StoreCommittedIsStored
    BY InvIsStored DEF StoreCommittedIsStored
  <1> QED
    BY <1>1, <1>2, <1>3, PTL DEF MCSpec

=============================================================================
