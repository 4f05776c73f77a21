--------------------------- MODULE OutboxPipeline ---------------------------
(***************************************************************************)
(* kafka-outbox end to end: the http-servers of Outbox fill the topics,    *)
(* the msg-server of Inbox empties them.  They share the log and nothing   *)
(* else.                                                                   *)
(***************************************************************************)
EXTENDS Outbox

CONSTANTS Handlers, MaxLog, MaxInboxFaults

\* config.NewKafkaConfig names two topics; a broker keeps at least one message.
ASSUME PipelineAssumption == /\ Len(Topics) > 0
                             /\ MaxLog \in Nat \ {0} /\ MaxInboxFaults \in Nat

VARIABLES given, done, reported, session, locked,
          handling, audit, faulted, inboxFaults

\* The messages of the inbox are the copies the outbox has had delivered.
In == INSTANCE Inbox WITH Copies <- Copies, log <- log

inVars == <<given, done, reported, session, locked,
            handling, audit, faulted, inboxFaults>>
vars == <<outboxVars, inVars>>

Init == OutboxInit /\ In!InboxInit

OutboxStep == OutboxNext /\ UNCHANGED inVars
InboxStep == In!InboxNext /\ UNCHANGED outboxVars

Next == OutboxStep \/ InboxStep

Spec == Init /\ [][Next]_vars

(***************************************************************************)
(* Fairness.  Tickers keep firing and requests end, so a server's open     *)
(* transaction and the next poll go on and queued messages are sent; a     *)
(* handler goes on, until its transaction ends or times out; partitions    *)
(* that were revoked are assigned again, and a message at the broker is    *)
(* read if the consumer has its partitions again and again: rebalances do  *)
(* not always come first.  Nothing is assumed of commits and rebalances,   *)
(* and faults are not fair and there are finitely many.                    *)
(***************************************************************************)
LiveSpec ==
  /\ Spec
  /\ \A s \in Servers :
       /\ WF_vars(HandlePending(s) /\ UNCHANGED inVars)
       /\ WF_vars(Delivery(s) /\ UNCHANGED inVars)
  /\ \A h \in Handlers : WF_vars(In!InboxSave(h) /\ UNCHANGED outboxVars)
  /\ WF_vars(In!Assign /\ UNCHANGED outboxVars)
  /\ \A m \in Copies \X (1 .. MaxLog) :
       SF_vars(\E h \in Handlers : In!HandleMsg(h, m) /\ UNCHANGED outboxVars)
-----------------------------------------------------------------------------
\* A committed offset means an audit row, unless one of the failures that the
\* early report cannot take back has hit the message, or the offsets of the other
\* topic, which share the partition's state, have committed it before anybody
\* reported it.  (InboxService.Save, consumer.go:136)
DoneIsAudited == In!DoneIsAudited

\* A copy that can still lead to an audit row: it waits for delivery, or one of
\* its messages is not committed yet, or a handler is about to commit the row.
Alive(c) ==
  \/ Queued(c)
  \/ \E m \in In!Messages : m[1] = c /\ m \notin done
  \/ \E h \in Handlers : handling[h].stage # "idle" /\ handling[h].msg[1] = c

\* The copy is destroyed: lost on the way to the broker, reported without an
\* audit row, or skipped by a commit that the other topic's offsets decided.
Destroyed(c) == c \in gone \/ \E m \in faulted \cup In!Skipped : m[1] = c

\* An event marked produced is audited, or some copy of it is still on its way,
\* or its copies are destroyed in EVERY topic: the message in the other topic
\* makes up for a loss.
LostOnlyInEveryTopic ==
  \A o \in DOMAIN events : events[o] = Produced =>
    \/ audit[o] > 0
    \/ \E t \in TopicSet : Alive(<<o, t>>)
    \/ \A t \in TopicSet : Destroyed(<<o, t>>)

\* Whoever looks only at the two tables sees AuditTrail.
Trail == INSTANCE AuditTrail WITH payments <- payments, audit <- audit
ImplementsAuditTrail == Trail!Spec

\* A message of the copy was read, its handler has ended and did not report it:
\* the partition waits for it until the next rebalance.
Abandoned(c) ==
  \E m \in given \ reported :
    /\ m[1] = c
    /\ \A h \in Handlers : handling[h].stage # "idle" => handling[h].msg # m

\* Every payment is audited in the end, unless each of its copies was destroyed
\* or is abandoned, or the consumer hangs in a rebalance callback because a late
\* report has kept the read lock (consumer.go:90-95).
PaidIsAudited ==
  \A o \in Orders : (o \in payments) ~>
    \/ audit[o] > 0
    \/ session = "stopped"
    \/ \A t \in TopicSet : Destroyed(<<o, t>>) \/ Abandoned(<<o, t>>)

=============================================================================
