---------------------------- MODULE KafkaConsumer ----------------------------
(***************************************************************************)
(* One consumer process of kafka-outbox/internal/kafka/consumer/consumer.go *)
(* over several assignments: the map of partition states guarded by c.Mu,  *)
(* the rebalance callbacks, the consume loop, the commit loop of every     *)
(* partition state, and the handler goroutines that report through         *)
(* UpdateState.                                                            *)
(*                                                                         *)
(* Where PartitionState has one session of one partition, this module has  *)
(* the map: partition states are replaced while handlers still hold a      *)
(* pointer to the old one, the map's key is the partition number without   *)
(* the topic, and a report that misses the map returns without releasing   *)
(* its read lock.  Only the consume loop takes c.Mu for writing; the other *)
(* read-locked sections only look the map up, so the lock is the count of  *)
(* read locks never released and the position of the consume loop.         *)
(***************************************************************************)
EXTENDS OffsetScan, FiniteSets, Sequences

CONSTANTS Topics, Partitions,
          TPs,           \* the topic-partitions: pairs <<topic, partition>>
          LogSize,       \* messages per topic-partition, offsets 0..LogSize-1
          Cooperative,   \* assignment strategy is "cooperative-sticky"
          Alone,         \* the group has no other member
          Undecodable,   \* messages whose value is not the expected JSON
          MaxStates,     \* bound: partition states ever created
          MaxCrashes     \* bound: crashes of the process

ASSUME ConsumerAssumption ==
  /\ TPs \subseteq Topics \X Partitions
  /\ Undecodable \subseteq TPs \X (0 .. LogSize - 1)
  /\ LogSize \in Nat /\ MaxStates \in Nat /\ MaxCrashes \in Nat
  /\ Cooperative \in BOOLEAN /\ Alone \in BOOLEAN

OffsetBeginning == -2
NoOffset == -1
None == 0                 \* no partition state (Go nil)

Offsets == 0 .. LogSize - 1
Messages == TPs \X Offsets
Ids == 1 .. MaxStates

VARIABLES
  ps,          \* the partition states created so far, a sequence of records
  stateMap,    \* c.msgsStateMap: partition -> index into ps, or None
  leaked,      \* read locks of c.Mu that are never released
  pc,          \* where the consume loop is
  event, todo, \* partitions of the rebalance event; those still to be handled
  cur,         \* the topic-partition or message the consume loop is at
  offsets,     \* offsets a callback has read or will commit: tp -> offset
  handlers,    \* handler goroutines that have not reported yet
  assigned,    \* partitions assigned to the client
  position,    \* the client's fetch position per topic-partition
  committed,   \* broker: committed offset per topic-partition
  reported,    \* history: messages reported by a handler or dropped
  created,     \* broker: topics that exist and whose partitions have a leader
  crashes

psVars == <<ps, stateMap, leaked>>
loopVars == <<pc, event, todo, cur, offsets>>
groupVars == <<assigned, position, committed>>
envVars == <<created, crashes>>
vars == <<psVars, loopVars, handlers, groupVars, reported, envVars>>

Nothing == <<>>
NoFunction == [x \in {} |-> NoOffset]

Put(m, k, v) == [x \in DOMAIN m \cup {k} |-> IF x = k THEN v ELSE m[x]]

Topic(tp) == tp[1]
Partition(tp) == tp[2]

\* The partition state that stateMap holds for a topic-partition.
StateOf(tp) == stateMap[Partition(tp)]

\* NewPartitionState; the topic is the one of MaxReceived.
NewPartitionState(tp, start) ==
  [ID |-> Partition(tp), topic |-> Topic(tp),
   State |-> [o \in {} |-> Pending], MaxReceived |-> start,
   LastCommited |-> IF start < 0 THEN -1 ELSE start - 1,
   ctxDone |-> FALSE, loop |-> "idle", latest |-> NoOffset, latestTopic |-> Topic(tp)]

Init ==
  /\ ps = <<>> /\ stateMap = [p \in Partitions |-> None] /\ leaked = 0
  /\ pc = "start" /\ event = {} /\ todo = Topics /\ cur = Nothing /\ offsets = NoFunction
  /\ handlers = {} /\ created = {}
  /\ assigned = {} /\ position = [tp \in TPs |-> 0]
  /\ committed = [tp \in TPs |-> NoOffset]
  /\ reported = {} /\ crashes = 0

(***************************************************************************)
(* The lock: Lock waits for every read lock, and a waiting or holding      *)
(* writer keeps new readers out.                                           *)
(***************************************************************************)
CanLock == leaked = 0
CanRLock == pc \notin {"assignLock", "assign", "assignWait", "revokeLock"}

(***************************************************************************)
(* NewKafkaConsumer: every topic is created and awaited before subscribing *)
(***************************************************************************)
\* An error of CreateTopics is returned and ignored, whether or not the broker
\* has created the topic; then nothing waits for its partitions.
InitializeKafkaTopic(t) ==
  /\ pc = "start" /\ t \in todo
  /\ todo' = todo \ {t}
  /\ \/ created' = created \cup {t} /\ pc' = "waitTopic"
     \/ created' \in {created, created \cup {t}} /\ UNCHANGED pc
  /\ UNCHANGED <<psVars, event, cur, offsets, handlers, groupVars, reported, crashes>>

WaitForTopicReady ==
  /\ pc = "waitTopic"
  /\ pc' = "start"
  /\ UNCHANGED <<psVars, event, todo, cur, offsets, handlers, groupVars, reported, envVars>>

SubscribeTopics ==
  /\ pc = "start" /\ todo = {}
  /\ pc' = "poll"
  /\ UNCHANGED <<psVars, event, todo, cur, offsets, handlers, groupVars, reported, envVars>>

(***************************************************************************)
(* consumeLoop                                                             *)
(***************************************************************************)
\* appendMsgState: MaxReceived takes the topic of a message beyond it.
AppendMsgState(p, tp, o) ==
  [p EXCEPT !.State = Put(@, o, Pending),
            !.MaxReceived = IF @ < o THEN o ELSE @,
            !.topic = IF p.MaxReceived < o THEN Topic(tp) ELSE @]

Receive(tp) ==
  LET o == position[tp]
      id == StateOf(tp)
  IN  /\ pc = "poll" /\ tp \in assigned /\ o < LogSize
      /\ ps' = IF id = None THEN ps ELSE [ps EXCEPT ![id] = AppendMsgState(@, tp, o)]
      /\ position' = [position EXCEPT ![tp] = o + 1]
      /\ pc' = "send" /\ cur' = <<tp, o>>
      /\ UNCHANGED <<stateMap, leaked, event, todo, offsets, handlers, assigned,
                     committed, reported, envVars>>

\* NewMessage fails: the message is skipped, and nobody will report it.
SkipUndecodable ==
  /\ pc = "send" /\ cur \in Undecodable
  /\ pc' = "poll" /\ cur' = Nothing
  /\ UNCHANGED <<psVars, event, todo, offsets, handlers, groupVars, reported, envVars>>

\* MsgCH takes the message and a goroutine starts to handle it.
Enqueue ==
  /\ pc = "send" /\ cur \notin Undecodable
  /\ handlers' = handlers \cup
       {[tp |-> cur[1], off |-> cur[2], ps |-> None, session |-> StateOf(cur[1])]}
  /\ pc' = "poll" /\ cur' = Nothing
  /\ UNCHANGED <<psVars, event, todo, offsets, groupVars, reported, envVars>>

\* Mutant: a dropped message is not reported.
DropSilently ==
  /\ pc = "send"
  /\ pc' = "poll" /\ cur' = Nothing
  /\ UNCHANGED <<psVars, event, todo, offsets, handlers, groupVars, reported, envVars>>

\* MsgCH stays full: the loop itself calls UpdateState with MsgState_Error.
Drop ==
  LET id == StateOf(cur[1])
  IN  /\ pc = "send" /\ cur \notin Undecodable
      /\ IF id = None
         THEN leaked' = leaked + 1 /\ UNCHANGED ps
         ELSE ps' = [ps EXCEPT ![id].State = Put(@, cur[2], Error)] /\ UNCHANGED leaked
      /\ reported' = reported \cup {cur}
      /\ pc' = "poll" /\ cur' = Nothing
      /\ UNCHANGED <<stateMap, event, todo, offsets, handlers, groupVars, envVars>>

(***************************************************************************)
(* UpdateState, called by a handler: it looks the partition state up under *)
(* the read lock and writes to it after the lock is released.              *)
(***************************************************************************)
Lookup(h) ==
  /\ h \in handlers /\ h.ps = None
  /\ CanRLock
  /\ StateOf(h.tp) # None
  /\ handlers' = (handlers \ {h}) \cup {[h EXCEPT !.ps = StateOf(h.tp)]}
  /\ UNCHANGED <<psVars, loopVars, groupVars, reported, envVars>>

\* "State is missing for PRTN": the early return keeps the read lock.
LookupMissing(h) ==
  /\ h \in handlers /\ h.ps = None
  /\ CanRLock
  /\ StateOf(h.tp) = None
  /\ leaked' = leaked + 1
  /\ handlers' = handlers \ {h}
  /\ reported' = reported \cup {<<h.tp, h.off>>}
  /\ UNCHANGED <<ps, stateMap, loopVars, groupVars, envVars>>

WriteState(h, s) ==
  /\ h \in handlers /\ h.ps # None
  /\ s \in {Success, Error}
  /\ ps' = [ps EXCEPT ![h.ps].State = Put(@, h.off, s)]
  /\ handlers' = handlers \ {h}
  /\ reported' = reported \cup {<<h.tp, h.off>>}
  /\ UNCHANGED <<stateMap, leaked, loopVars, groupVars, envVars>>

(***************************************************************************)
(* FindLatestToCommit on a partition state, and commitOffsetLoop           *)
(***************************************************************************)
Skipping(p) == p.LastCommited = p.MaxReceived

\* The partition state p after a scan; empty when there is nothing to commit.
FindLatestToCommit(p) ==
  {[p EXCEPT !.State = Pruned(@, p.LastCommited, p.MaxReceived, l),
             !.latest = l, !.latestTopic = p.topic] :
     l \in {c \in DOMAIN p.State \cup {p.MaxReceived} \cup {o + 1 : o \in DOMAIN p.State} :
              ~Skipping(p) /\ IsLatestToCommit(p.State, p.LastCommited, p.MaxReceived, c)}}

CommitTick(id) ==
  /\ ps[id].loop = "idle" /\ ~ps[id].ctxDone
  /\ \E q \in FindLatestToCommit(ps[id]) : ps' = [ps EXCEPT ![id] = [q EXCEPT !.loop = "commit"]]
  /\ UNCHANGED <<stateMap, leaked, loopVars, handlers, groupVars, reported, envVars>>

Request(id) == <<ps[id].latestTopic, ps[id].ID>>

CommitOk(id) ==
  /\ ps[id].loop = "commit" /\ ps[id].latest >= 0
  /\ committed' = [committed EXCEPT ![Request(id)] = ps[id].latest]
  /\ ps' = [ps EXCEPT ![id].loop = "record"]
  /\ UNCHANGED <<stateMap, leaked, loopVars, handlers, assigned, position, reported, envVars>>

\* Mutant: a failed commit returns from the loop without closing ExitCH.
CommitErrReturns(id) ==
  /\ ps[id].loop = "commit"
  /\ ps' = [ps EXCEPT ![id].loop = "returned"]
  /\ UNCHANGED <<stateMap, leaked, loopVars, handlers, groupVars, reported, envVars>>

\* The request fails, or its answer is lost.
CommitErr(id) ==
  /\ ps[id].loop = "commit"
  /\ \/ UNCHANGED committed
     \/ /\ ps[id].latest >= 0
        /\ committed' = [committed EXCEPT ![Request(id)] = ps[id].latest]
  /\ ps' = [ps EXCEPT ![id].loop = "idle"]
  /\ UNCHANGED <<stateMap, leaked, loopVars, handlers, assigned, position, reported, envVars>>

RecordCommit(id) ==
  /\ ps[id].loop = "record"
  /\ ps' = [ps EXCEPT ![id].LastCommited = ps[id].latest,
                      ![id].MaxReceived = IF ps[id].latest > @ THEN ps[id].latest ELSE @,
                      ![id].loop = "idle"]
  /\ UNCHANGED <<stateMap, leaked, loopVars, handlers, groupVars, reported, envVars>>

LoopExit(id) ==
  /\ ps[id].loop = "idle" /\ ps[id].ctxDone
  /\ ps' = [ps EXCEPT ![id].loop = "exited"]
  /\ UNCHANGED <<stateMap, leaked, loopVars, handlers, groupVars, reported, envVars>>

(***************************************************************************)
(* assignPrntCB.  The lock is held from before the committed offsets are   *)
(* read until every partition has its new state.                           *)
(***************************************************************************)
AssignEvent(S) ==
  /\ pc = "poll" /\ S # {} /\ S \cap assigned = {}
  /\ \A tp \in S : Topic(tp) \in created
  /\ ~Cooperative => assigned = {}
  /\ Len(ps) + Cardinality(S) <= MaxStates
  /\ pc' = "assignLock" /\ event' = S /\ todo' = S
  /\ UNCHANGED <<psVars, cur, offsets, handlers, groupVars, reported, envVars>>

\* Committed answers, or fails and the unset offsets of the event are used.
AssignLock ==
  /\ pc = "assignLock" /\ CanLock
  /\ \/ offsets' = [tp \in event |->
           IF committed[tp] < 0 THEN OffsetBeginning ELSE committed[tp]]
     \/ offsets' = [tp \in event |-> OffsetBeginning]
  /\ pc' = "assign"
  /\ UNCHANGED <<psVars, event, todo, cur, handlers, groupVars, reported, envVars>>

\* An old state under the same partition number is cancelled first.
AssignNext(tp) ==
  /\ pc = "assign" /\ tp \in todo
  /\ ps' = IF StateOf(tp) = None THEN ps ELSE [ps EXCEPT ![StateOf(tp)].ctxDone = TRUE]
  /\ pc' = "assignWait" /\ cur' = tp /\ todo' = todo \ {tp}
  /\ UNCHANGED <<stateMap, leaked, event, offsets, handlers, groupVars, reported, envVars>>

\* Mutant: a partition that still has a state keeps it.
AssignStateKept ==
  /\ pc = "assignWait"
  /\ StateOf(cur) # None => ps[StateOf(cur)].loop = "exited"
  /\ \/ StateOf(cur) # None /\ UNCHANGED <<ps, stateMap>>
     \/ /\ StateOf(cur) = None
        /\ ps' = Append(ps, NewPartitionState(cur, offsets[cur]))
        /\ stateMap' = [stateMap EXCEPT ![Partition(cur)] = Len(ps) + 1]
  /\ pc' = "assign" /\ cur' = Nothing
  /\ UNCHANGED <<leaked, event, todo, offsets, handlers, groupVars, reported, envVars>>

AssignState ==
  /\ pc = "assignWait"
  /\ StateOf(cur) # None => ps[StateOf(cur)].loop = "exited"
  /\ ps' = Append(ps, NewPartitionState(cur, offsets[cur]))
  /\ stateMap' = [stateMap EXCEPT ![Partition(cur)] = Len(ps) + 1]
  /\ pc' = "assign" /\ cur' = Nothing
  /\ UNCHANGED <<leaked, event, todo, offsets, handlers, groupVars, reported, envVars>>

\* Unlock, then Assign or IncrementalAssign: fetching starts at the committed
\* offset, or at the beginning (auto.offset.reset is earliest).  The client
\* refuses the call only once it has failed for good: it delivers nothing more and
\* its commits fail, which is what the group sees of a Crash.
AssignDone ==
  /\ pc = "assign" /\ todo = {}
  /\ assigned' = assigned \cup event
  /\ position' = [tp \in TPs |-> IF tp \notin event THEN position[tp]
                                 ELSE IF committed[tp] < 0 THEN 0 ELSE committed[tp]]
  /\ pc' = "poll" /\ event' = {} /\ offsets' = NoFunction
  /\ UNCHANGED <<psVars, todo, cur, handlers, committed, reported, envVars>>

(***************************************************************************)
(* revokePrtnCB                                                            *)
(***************************************************************************)
RevokeEvent(S) ==
  /\ pc = "poll" /\ S # {} /\ S \subseteq assigned
  /\ ~Cooperative => S = assigned
  /\ pc' = "revoke" /\ event' = S /\ todo' = S
  /\ UNCHANGED <<psVars, cur, offsets, handlers, groupVars, reported, envVars>>

RevokeMissing(tp) ==
  /\ pc = "revoke" /\ tp \in todo /\ StateOf(tp) = None
  /\ todo' = todo \ {tp}
  /\ UNCHANGED <<psVars, pc, event, cur, offsets, handlers, groupVars, reported, envVars>>

RevokeCancel(tp) ==
  /\ pc = "revoke" /\ tp \in todo /\ StateOf(tp) # None
  /\ ps' = [ps EXCEPT ![StateOf(tp)].ctxDone = TRUE]
  /\ pc' = "revokeWait" /\ cur' = tp /\ todo' = todo \ {tp}
  /\ UNCHANGED <<stateMap, leaked, event, offsets, handlers, groupVars, reported, envVars>>

\* The commit loop has exited.  On "skipping" the state stays in the map.
RevokeFind ==
  LET id == StateOf(cur)
  IN  /\ pc = "revokeWait" /\ ps[id].loop = "exited"
      /\ \/ /\ Skipping(ps[id])
            /\ pc' = "revoke" /\ cur' = Nothing
            /\ UNCHANGED <<ps, offsets>>
         \/ \E q \in FindLatestToCommit(ps[id]) :
              /\ ps' = [ps EXCEPT ![id] = q]
              /\ offsets' = IF q.latest >= 0 THEN Put(offsets, cur, q.latest) ELSE offsets
              /\ pc' = "revokeLock" /\ UNCHANGED cur
      /\ UNCHANGED <<stateMap, leaked, event, todo, handlers, groupVars, reported, envVars>>

RevokeDelete ==
  /\ pc = "revokeLock" /\ CanLock
  /\ stateMap' = [stateMap EXCEPT ![Partition(cur)] = None]
  /\ pc' = "revoke" /\ cur' = Nothing
  /\ UNCHANGED <<ps, leaked, event, todo, offsets, handlers, groupVars, reported, envVars>>

\* The collected offsets are committed (a failure is only logged), then
\* Unassign or IncrementalUnassign, which the client refuses only once it has
\* failed for good (see AssignDone): that ends the assignment too.
RevokeDone ==
  /\ pc = "revoke" /\ todo = {}
  /\ \/ UNCHANGED committed
     \/ committed' = [tp \in TPs |-> IF tp \in DOMAIN offsets THEN offsets[tp]
                                     ELSE committed[tp]]
  /\ assigned' = IF Cooperative THEN assigned \ event ELSE {}
  /\ pc' = "poll" /\ event' = {} /\ offsets' = NoFunction
  /\ UNCHANGED <<psVars, todo, cur, handlers, position, reported, envVars>>

(***************************************************************************)
(* The rest of the group, and the process                                  *)
(***************************************************************************)
\* Another member handles and commits a partition this one does not hold.
OtherMember(tp, o) ==
  /\ ~Alone /\ tp \notin assigned /\ tp \notin event
  /\ committed[tp] <= o
  /\ reported' = reported \cup {<<tp, p>> : p \in 0 .. o}
  /\ committed' = [committed EXCEPT ![tp] = o + 1]
  /\ UNCHANGED <<psVars, loopVars, handlers, assigned, position, envVars>>

\* The process dies and is started again.
Crash ==
  /\ crashes < MaxCrashes
  /\ crashes' = crashes + 1
  /\ ps' = <<>> /\ stateMap' = [p \in Partitions |-> None] /\ leaked' = 0
  /\ pc' = "start" /\ event' = {} /\ todo' = Topics /\ cur' = Nothing /\ offsets' = NoFunction
  /\ handlers' = {} /\ assigned' = {} /\ position' = [tp \in TPs |-> 0]
  /\ UNCHANGED <<committed, reported, created>>

\* The callback run by ReadMessage in the consume loop, rebalanceCB.
Rebalance ==
  \/ AssignLock \/ AssignState \/ AssignDone
  \/ RevokeFind \/ RevokeDelete \/ RevokeDone
  \/ \E tp \in TPs : AssignNext(tp) \/ RevokeMissing(tp) \/ RevokeCancel(tp)

CommitLoop(id) ==
  CommitTick(id) \/ CommitOk(id) \/ CommitErr(id) \/ RecordCommit(id) \/ LoopExit(id)

Startup ==
  (\E t \in Topics : InitializeKafkaTopic(t)) \/ WaitForTopicReady \/ SubscribeTopics

Next ==
  \/ Startup
  \/ \E tp \in TPs : Receive(tp)
  \/ Enqueue \/ Drop \/ SkipUndecodable
  \/ \E h \in handlers : Lookup(h) \/ LookupMissing(h)
  \/ \E h \in handlers, s \in MsgState : WriteState(h, s)
  \/ \E id \in DOMAIN ps : CommitLoop(id)
  \/ \E S \in SUBSET TPs : AssignEvent(S) \/ RevokeEvent(S)
  \/ Rebalance
  \/ \E tp \in TPs, o \in Offsets : OtherMember(tp, o)
  \/ Crash

Spec == Init /\ [][Next]_vars

\* The callback's goroutine runs, requests to the broker end, and cancelled
\* commit loops see their context; nothing is assumed of handlers.
LiveSpec ==
  /\ Spec
  /\ WF_vars(Rebalance)
  /\ \A id \in Ids : WF_vars(id \in DOMAIN ps /\ ps[id].ctxDone /\ CommitLoop(id))
-----------------------------------------------------------------------------
\* No other topic has a partition with this number.
Sole(tp) == \A other \in TPs : Partition(other) = Partition(tp) => other = tp

\* Types.  (consumer.go:26-38)
TypeOK ==
  /\ Len(ps) <= MaxStates
  /\ stateMap \in [Partitions -> 0 .. Len(ps)]
  /\ leaked \in Nat
  /\ pc \in {"start", "waitTopic", "poll", "send", "assignLock", "assign", "assignWait",
             "revoke", "revokeWait", "revokeLock"}
  /\ event \subseteq TPs /\ todo \subseteq event \cup Topics /\ DOMAIN offsets \subseteq event
  /\ handlers \subseteq [tp : TPs, off : Offsets, ps : 0 .. Len(ps), session : 0 .. Len(ps)]
  /\ assigned \subseteq TPs /\ position \in [TPs -> Nat]
  /\ committed \in [TPs -> Nat \cup {NoOffset}] /\ reported \subseteq Messages

\* At-least-once over any sequence of assignments, late reports into replaced
\* states and crashes, for partitions whose number belongs to one topic only:
\* a partition number shared by two topics shares one State map.
CommitSafety ==
  \A tp \in TPs : Sole(tp) =>
    \A o \in Offsets : o < committed[tp] => <<tp, o>> \in reported

\* Outside the callbacks every assigned partition has a state in the map whose
\* commit loop still runs, so its messages are tracked and committed.  With
\* incremental revocation this needs the partition number to be the topic's own.
AssignedIsTracked ==
  pc \in {"poll", "send"} =>
    \A tp \in assigned : Sole(tp) \/ ~Cooperative =>
      StateOf(tp) # None /\ ~ps[StateOf(tp)].ctxDone

\* No message is left pending for ever by a report that went to a replaced
\* state: a pending entry of a live state has a handler that has not ended and
\* whose report, if it makes one, goes to that state, or is a message that could
\* not be decoded (which stops the commits for good).
PendingHasHandler ==
  \A p \in Partitions : stateMap[p] # None =>
    LET id == stateMap[p]
    IN  \A o \in DOMAIN ps[id].State : ps[id].State[o] = Pending =>
          \/ \E tp \in TPs : Partition(tp) = p /\ <<tp, o>> \in Undecodable
          \/ pc = "send" /\ Partition(cur[1]) = p /\ cur[2] = o
          \/ \E h \in handlers : /\ Partition(h.tp) = p /\ h.off = o
                                 /\ h.ps \in {None, id}

\* A rebalance callback returns, whatever the commit loops are doing, unless a
\* report for a partition that is no longer in the map has kept its read lock,
\* or the process dies and starts again.
RebalanceEnds ==
  (pc \notin {"start", "waitTopic", "poll", "send"}) ~> (pc \in {"start", "poll"} \/ leaked > 0)

=============================================================================
