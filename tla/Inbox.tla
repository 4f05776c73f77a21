------------------------------- MODULE Inbox --------------------------------
(***************************************************************************)
(* The msg-server of kafka-outbox: every message gets a handler goroutine, *)
(* which inserts an audit row in a transaction and reports the message to  *)
(* the consumer from INSIDE that transaction, before it commits            *)
(* (inbox.service.go:32-70).                                               *)
(*                                                                         *)
(* The consumer is that of KafkaConsumer, seen from its handlers:          *)
(*  - a message that is not committed at the broker is handled again after *)
(*    a rebalance or a restart, while an earlier handler may still run, and *)
(*    not before, even if its handler has given up;                        *)
(*  - with one topic, only a message some handler has reported is          *)
(*    committed; but the state of a partition is kept by its NUMBER        *)
(*    (consumer.go:136,142), so two topics share it, and then the offsets  *)
(*    of one decide what is committed for the other, in both directions;   *)
(*  - a report that finds no state keeps the read lock of c.Mu             *)
(*    (consumer.go:90-95), and the next rebalance waits for it for ever.   *)
(***************************************************************************)
EXTENDS Integers

CONSTANTS Copies,          \* what a message carries: <<event, topic>>
          Handlers,        \* bound: goroutines at the same time
          MaxLog,          \* bound: messages with the same content
          MaxInboxFaults   \* bound: failed statements, dropped messages, crashes

VARIABLES
  log,          \* messages at the broker: copy -> number
  given,        \* messages read in the running session, and those before it;
                \* none between two sessions
  done,         \* messages below the group's committed offsets
  reported,     \* messages reported to the running consumer, or to the one
                \* whose commits they are below
  session,      \* the consumer has its partitions, is between two
                \* assignments, or hangs in a rebalance callback for good
  locked,       \* a read lock of c.Mu is never given back
  handling,     \* per goroutine, the message and how far its transaction is
  audit,        \* committed rows of table audit: event -> number
  faulted,      \* history: messages a failure has hit after or instead of a report
  inboxFaults   \* faults so far

lockVars == <<session, locked>>
consumerVars == <<given, done, reported, lockVars>>
inboxVars == <<consumerVars, handling, audit, faulted, inboxFaults>>

Event(m) == m[1][1]
Topic(m) == m[1][2]
Messages == {m \in Copies \X (1 .. MaxLog) : m[2] <= log[m[1]]}
Events == {c[1] : c \in Copies}

Idle == [stage |-> "idle"]

InboxInit ==
  /\ given = {} /\ done = {} /\ reported = {}
  /\ session = "on" /\ locked = FALSE
  /\ handling = [h \in Handlers |-> Idle]
  /\ audit = [e \in Events |-> 0]
  /\ faulted = {} /\ inboxFaults = 0

InboxFault == inboxFaults < MaxInboxFaults /\ inboxFaults' = inboxFaults + 1

\* Handlers whose transaction holds an uncommitted row for the event.
Holding(e) ==
  {h \in Handlers : handling[h].stage \in {"inserted", "reported"} /\ Event(handling[h].msg) = e}

\* UpdateState: the state of the partition takes the report.  It is missing
\* between two assignments, and when the partition of a message from an earlier
\* session did not come back: then the report is lost, and unless the state of
\* the old session is still in the map, the early return keeps the read lock.
\* While a rebalance waits for the lock nobody else gets it.
UpdateState(m) ==
  \/ /\ session = "on"
     /\ reported' = reported \cup {m} /\ UNCHANGED locked
  \/ /\ session = "revoked" \/ (session = "on" /\ m \notin given)
     /\ locked' \in {locked, TRUE} /\ UNCHANGED reported

(***************************************************************************)
(* handleMsg and InboxService.Save under TxClosure                         *)
(***************************************************************************)
HandleMsg(h, m) ==
  /\ session = "on" /\ handling[h].stage = "idle"
  /\ m \in Messages \ given
  /\ given' = given \cup {m}
  /\ handling' = [handling EXCEPT ![h] = [stage |-> "insert", msg |-> m]]
  /\ UNCHANGED <<done, reported, lockVars, audit, faulted, inboxFaults>>

\* The transaction cannot be begun: nobody reports the message.
BeginFails(h) ==
  /\ handling[h].stage = "insert" /\ InboxFault
  /\ handling' = [handling EXCEPT ![h] = Idle]
  /\ UNCHANGED <<consumerVars, audit, faulted>>

\* Mutant: outbox_event_id is not unique.
InsertAgain(h) ==
  /\ handling[h].stage = "insert"
  /\ handling' = [handling EXCEPT ![h].stage = "inserted"]
  /\ UNCHANGED <<consumerVars, audit, faulted, inboxFaults>>

\* inboxRepo.Insert, which waits while another transaction holds the event.
Insert(h) ==
  /\ handling[h].stage = "insert"
  /\ Holding(Event(handling[h].msg)) = {} /\ audit[Event(handling[h].msg)] = 0
  /\ handling' = [handling EXCEPT ![h].stage = "inserted"]
  /\ UNCHANGED <<consumerVars, audit, faulted, inboxFaults>>

\* Mutant: a row another transaction is still inserting counts as a duplicate.
AlreadyExistsDirty(h) ==
  /\ handling[h].stage = "insert"
  /\ audit[Event(handling[h].msg)] > 0 \/ Holding(Event(handling[h].msg)) # {}
  /\ UpdateState(handling[h].msg)
  /\ handling' = [handling EXCEPT ![h] = Idle]
  /\ UNCHANGED <<given, done, session, audit, faulted, inboxFaults>>

\* IsDuplicateKeyErr: the row is there already, the message is a success.
AlreadyExists(h) ==
  /\ handling[h].stage = "insert"
  /\ audit[Event(handling[h].msg)] > 0
  /\ UpdateState(handling[h].msg)
  /\ handling' = [handling EXCEPT ![h] = Idle]
  /\ UNCHANGED <<given, done, session, audit, faulted, inboxFaults>>

\* Any other error is reported as MsgState_Error, which is as good as success.
InsertFails(h) ==
  /\ handling[h].stage = "insert" /\ InboxFault
  /\ UpdateState(handling[h].msg)
  /\ faulted' = faulted \cup {handling[h].msg}
  /\ handling' = [handling EXCEPT ![h] = Idle]
  /\ UNCHANGED <<given, done, session, audit>>

\* UpdateState(MsgState_Success), with the transaction still open
Report(h) ==
  /\ handling[h].stage = "inserted"
  /\ UpdateState(handling[h].msg)
  /\ handling' = [handling EXCEPT ![h].stage = "reported"]
  /\ UNCHANGED <<given, done, session, audit, faulted, inboxFaults>>

\* UpdateState waits for c.Mu for ever; after 30 s the context of handleMsg
\* rolls the transaction back.
ReportBlocks(h) ==
  /\ session = "stopped" /\ handling[h].stage \in {"insert", "inserted"}
  /\ handling' = [handling EXCEPT ![h] = Idle]
  /\ UNCHANGED <<consumerVars, audit, faulted, inboxFaults>>

TxCommit(h) ==
  /\ handling[h].stage = "reported"
  /\ audit' = [audit EXCEPT ![Event(handling[h].msg)] = @ + 1]
  /\ handling' = [handling EXCEPT ![h] = Idle]
  /\ UNCHANGED <<consumerVars, faulted, inboxFaults>>

\* The commit fails after the report: no row, and nothing takes it back.
TxCommitFails(h) ==
  /\ handling[h].stage = "reported" /\ InboxFault
  /\ faulted' = faulted \cup {handling[h].msg}
  /\ handling' = [handling EXCEPT ![h] = Idle]
  /\ UNCHANGED <<consumerVars, audit>>

(***************************************************************************)
(* The consumer                                                            *)
(***************************************************************************)
\* MsgCH stayed full: the consume loop reports the message as an error.
DropMessage(m) ==
  /\ session = "on" /\ m \in Messages \ given /\ InboxFault
  /\ given' = given \cup {m}
  /\ reported' = reported \cup {m}
  /\ faulted' = faulted \cup {m}
  /\ UNCHANGED <<done, lockVars, handling, audit>>

\* The state that decides about the message holds offsets of another topic too,
\* once there is any other message.
SharesState(m) == Messages # {m} /\ \E c \in Copies : c[2] # Topic(m)

\* The commit loop or revokePrtnCB commits an offset above the message.  (What
\* revokePrtnCB commits it has found before it takes the state out of the map.)
CommitOffset(m) ==
  /\ session = "on" /\ m \notin done /\ (m \in reported \/ SharesState(m))
  /\ done' = done \cup {m}
  /\ UNCHANGED <<given, reported, lockVars, handling, audit, faulted, inboxFaults>>

\* A later commit moves the offset back: after a lost answer (see AckedIsDurable
\* in PartitionState), or because it is an offset of the other topic.
Rewind(m) ==
  /\ session = "on" /\ m \in done
  /\ done' = done \ {m}
  /\ InboxFault \/ (SharesState(m) /\ UNCHANGED inboxFaults)
  /\ UNCHANGED <<given, reported, lockVars, handling, audit, faulted>>

\* revokePrtnCB takes the states out of the map, under c.Mu.
Revoke ==
  /\ session = "on"
  /\ session' = IF locked THEN "stopped" ELSE "revoked"
  /\ given' = {}
  /\ UNCHANGED <<done, reported, locked, handling, audit, faulted, inboxFaults>>

\* assignPrntCB makes new states, under c.Mu: what is not committed is read again
\* while its handlers run on.
Assign ==
  /\ session = "revoked"
  /\ IF locked
       THEN session' = "stopped" /\ UNCHANGED <<given, reported>>
       ELSE session' = "on" /\ given' = done /\ reported' = reported \cap done
  /\ UNCHANGED <<done, locked, handling, audit, faulted, inboxFaults>>

\* The process dies and is started again: transactions roll back, reports that
\* are not committed are forgotten.
ConsumerCrash ==
  /\ InboxFault
  /\ given' = done /\ reported' = reported \cap done
  /\ session' = "on" /\ locked' = FALSE
  /\ handling' = [h \in Handlers |-> Idle]
  /\ faulted' = faulted \cup {m \in Messages :
       \E h \in Handlers : handling[h].stage = "reported" /\ handling[h].msg = m}
  /\ UNCHANGED <<done, audit>>

InboxSave(h) ==
  \/ BeginFails(h) \/ Insert(h) \/ AlreadyExists(h) \/ InsertFails(h)
  \/ Report(h) \/ ReportBlocks(h) \/ TxCommit(h) \/ TxCommitFails(h)

InboxNext ==
  \/ \E h \in Handlers : InboxSave(h)
  \/ \E h \in Handlers, m \in Messages : HandleMsg(h, m)
  \/ \E m \in Messages : DropMessage(m) \/ CommitOffset(m) \/ Rewind(m)
  \/ Revoke \/ Assign
  \/ ConsumerCrash

(***************************************************************************)
(* The inbox by itself: any producer adds messages.                        *)
(***************************************************************************)
Arrive(c) ==
  /\ log[c] < MaxLog
  /\ log' = [log EXCEPT ![c] = @ + 1]
  /\ UNCHANGED inboxVars

Init == InboxInit /\ log = [c \in Copies |-> 0]

Next == (\E c \in Copies : Arrive(c)) \/ (InboxNext /\ UNCHANGED log)

Spec == Init /\ [][Next]_<<log, inboxVars>>
-----------------------------------------------------------------------------
\* Types.  (inbox.service.go:17-20, consumer.go:26-38)
InboxTypeOK ==
  /\ log \in [Copies -> 0 .. MaxLog]
  /\ done \subseteq Messages /\ given \subseteq Messages
  /\ reported \subseteq Messages /\ faulted \subseteq Messages
  /\ session \in {"on", "revoked", "stopped"} /\ locked \in BOOLEAN
  /\ handling \in [Handlers -> {Idle} \cup
                     [stage : {"insert", "inserted", "reported"}, msg : Messages]]
  /\ audit \in [Events -> Nat]

\* The event is audited at most once: redelivered messages, the copy in the
\* other topic and handlers that race each other add no second row.
AuditedOnce == \A e \in Events : audit[e] <= 1

\* A failure has hit the message, or its audit row is there or about to be
\* committed.
Accounted(m) ==
  \/ audit[Event(m)] > 0
  \/ m \in faulted
  \/ \E h \in Handlers : handling[h].stage = "reported" /\ handling[h].msg = m

\* Messages committed although nobody has reported them.
Skipped == done \ reported

\* A committed offset means an audit row, unless one of the failures that the
\* early report cannot take back has hit the message, or the commit was decided
\* by the offsets of another topic before anybody reported the message.
DoneIsAudited == \A m \in done : Accounted(m) \/ (m \in Skipped /\ SharesState(m))

\* The inductive invariant: every report is accounted for, only a shared state
\* commits without one, and a transaction that holds a row is the only one and
\* has no committed rival.
ReportedIsAccounted == \A m \in reported : Accounted(m)

SkippedIsShared == \A m \in Skipped : SharesState(m)

HoldsAlone ==
  \A h \in Handlers : handling[h].stage \in {"inserted", "reported"} =>
    /\ Holding(Event(handling[h].msg)) = {h}
    /\ audit[Event(handling[h].msg)] = 0

InboxInv == ReportedIsAccounted /\ SkippedIsShared /\ HoldsAlone /\ AuditedOnce

=============================================================================
