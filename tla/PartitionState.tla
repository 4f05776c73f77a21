--------------------------- MODULE PartitionState ---------------------------
(***************************************************************************)
(* One partition of a consumer, from assignment to revocation: the offset  *)
(* bookkeeping of kafka-outbox/internal/kafka/consumer/partition-state.go, *)
(* the goroutine that commits from it (commitOffsetLoop), and what the     *)
(* consume loop, the message handlers and the rebalance callback of        *)
(* consumer.go do to it meanwhile.                                         *)
(*                                                                         *)
(* Every critical section under ps.Mu is one step; the commit request to   *)
(* the broker is made outside the lock and is a step of its own, so that   *)
(* messages arrive and handlers report between the choice of an offset,    *)
(* its commit and the recording of the commit.                             *)
(*                                                                         *)
(* One behaviour is one session.  What earlier sessions and other members  *)
(* of the group left behind is in Init: the committed offset, the messages *)
(* already reported, and the handlers of an earlier session that still run *)
(* and will report into this one.                                          *)
(***************************************************************************)
EXTENDS OffsetScan

CONSTANTS Log,      \* the offsets of the partition that hold a message
          Poison    \* the ones whose value NewMessage cannot decode

ASSUME LogAssumption == /\ Log \subseteq Nat
                        /\ Poison \subseteq Log

OffsetBeginning == -2   \* kafka.OffsetBeginning
NoOffset        == -1   \* no committed offset, or nothing being sent

VARIABLES
  State,         \* ps.State: offset -> MsgState, a partial function
  MaxReceived,   \* ps.MaxReceived.Offset
  LastCommited,  \* ps.LastCommited
  ctxDone,       \* ps.ctx cancelled
  loop,          \* where commitOffsetLoop is
  latest,        \* latestToCommit of the commit in progress
  cb,            \* where the revoke callback is
  next,          \* the consumer's fetch position
  sending,       \* the message consumeLoop is blocked on in "MsgCH <-"
  mine,          \* messages of this session queued or in a handler
  late,          \* messages of earlier sessions still in a handler
  reported,      \* history: offsets some UpdateState has reported
  committed,     \* broker: the group's committed offset
  owned          \* broker: this member still owns the partition

psVars == <<State, MaxReceived, LastCommited>>
loopVars == <<ctxDone, loop, latest, cb>>
handlerVars == <<next, sending, mine, late>>
brokerVars == <<committed, owned>>
vars == <<psVars, loopVars, handlerVars, reported, brokerVars>>

Offset == Nat \cup {OffsetBeginning, NoOffset}

\* m with key k bound to v, whether or not it was bound before (a Go map write).
Put(m, k, v) == [x \in DOMAIN m \cup {k} |-> IF x = k THEN v ELSE m[x]]

(***************************************************************************)
(* FindLatestToCommit (see OffsetScan)                                     *)
(***************************************************************************)
\* "lastCommit == MaxReceived -> skipping"
Skipping == LastCommited = MaxReceived

\* Offsets a scan can return: map keys, MaxReceived, or one past a key.
Candidates == DOMAIN State \cup {MaxReceived} \cup {o + 1 : o \in DOMAIN State}

FindLatestToCommit ==
  /\ ~Skipping
  /\ \E l \in Candidates :
       /\ IsLatestToCommit(State, LastCommited, MaxReceived, l)
       /\ latest' = l
       /\ State' = Pruned(State, LastCommited, MaxReceived, l)
  /\ UNCHANGED <<MaxReceived, LastCommited>>

(***************************************************************************)
(* The session starts: assignPrntCB reads the committed offset (when that  *)
(* fails it goes on with the unset offsets of the event) and               *)
(* NewPartitionState builds the state; the client fetches from the         *)
(* committed offset, or from the beginning when there is none.             *)
(***************************************************************************)
StartOffset(c) == IF c < 0 THEN OffsetBeginning ELSE c

NewPartitionState(start) ==
  /\ State = [o \in {} |-> Pending]
  /\ MaxReceived = start
  /\ LastCommited = IF start < 0 THEN -1 ELSE start - 1

\* Every message of the log before offset c is in S.
CoveredBy(c, S) == \A o \in Log : o < c => o \in S

Init ==
  /\ committed \in {NoOffset, 0} \cup {o + 1 : o \in Log}
  /\ reported \in SUBSET (Log \ Poison)
  /\ CoveredBy(committed, reported)
  /\ late \in SUBSET (Log \ Poison)
  /\ \E start \in {StartOffset(committed), OffsetBeginning} : NewPartitionState(start)
  /\ next = IF committed < 0 THEN 0 ELSE committed
  /\ ctxDone = FALSE /\ loop = "idle" /\ latest = NoOffset /\ cb = "none"
  /\ sending = NoOffset /\ mine = {} /\ owned = TRUE

(***************************************************************************)
(* consumeLoop                                                             *)
(***************************************************************************)
\* ReadMessage returns the next message; appendMsgState marks it pending.  A
\* message that cannot be decoded goes no further.
Deliver(o) ==
  /\ sending = NoOffset /\ cb = "none"
  /\ o \in Log /\ next <= o /\ \A p \in Log : next <= p => o <= p
  /\ State' = Put(State, o, Pending)
  /\ MaxReceived' = IF MaxReceived < o THEN o ELSE MaxReceived
  /\ next' = o + 1
  /\ sending' = IF o \in Poison THEN NoOffset ELSE o
  /\ UNCHANGED <<LastCommited, loopVars, mine, late, reported, brokerVars>>

\* MsgCH has room: the message is on its way to a handler goroutine.
Enqueue ==
  /\ sending # NoOffset
  /\ mine' = mine \cup {sending}
  /\ sending' = NoOffset
  /\ UNCHANGED <<psVars, loopVars, next, late, reported, brokerVars>>

Report(o, s) ==
  /\ State' = Put(State, o, s)
  /\ reported' = reported \cup {o}
  /\ UNCHANGED <<MaxReceived, LastCommited>>

\* MsgCH stayed full for five seconds: the message is dropped as an error.
Drop ==
  /\ sending # NoOffset
  /\ Report(sending, Error)
  /\ sending' = NoOffset
  /\ UNCHANGED <<loopVars, next, mine, late, brokerVars>>

\* The revoke callback has removed the state from the consumer's map.
InMap == cb \in {"none", "waitExit", "kept"}

\* A handler reports its message through KafkaConsumer.UpdateState.
UpdateState(o, s) ==
  /\ InMap
  /\ s \in {Success, Error}
  /\ \/ o \in mine /\ mine' = mine \ {o} /\ UNCHANGED late
     \/ o \in late /\ late' = late \ {o} /\ UNCHANGED mine
  /\ Report(o, s)
  /\ UNCHANGED <<loopVars, next, sending, brokerVars>>

\* A handler gives up without reporting: TxClosure could not begin a
\* transaction, so the closure that calls UpdateState never ran.
GiveUp(o) ==
  /\ \/ o \in mine /\ mine' = mine \ {o} /\ UNCHANGED late
     \/ o \in late /\ late' = late \ {o} /\ UNCHANGED mine
  /\ UNCHANGED <<psVars, loopVars, next, sending, reported, brokerVars>>

(***************************************************************************)
(* commitOffsetLoop.  A tick that finds nothing to commit changes nothing. *)
(***************************************************************************)
CommitTick ==
  /\ loop = "idle" /\ ~ctxDone
  /\ FindLatestToCommit
  /\ loop' = "commit"
  /\ UNCHANGED <<ctxDone, cb, handlerVars, reported, brokerVars>>

\* The broker takes a commit only from the partition's owner, and the client
\* library refuses a negative offset.
Acceptable(l) == owned /\ l >= 0

CommitOk ==
  /\ loop = "commit" /\ Acceptable(latest)
  /\ committed' = latest
  /\ loop' = "record"
  /\ UNCHANGED <<psVars, ctxDone, latest, cb, handlerVars, reported, owned>>

\* Mutant: a failed commit is recorded all the same.
CommitErrRecorded ==
  /\ loop = "commit"
  /\ loop' = "record"
  /\ UNCHANGED <<psVars, ctxDone, latest, cb, handlerVars, reported, brokerVars>>

\* Mutant: a failed commit ends the loop.
CommitErrReturns ==
  /\ loop = "commit"
  /\ loop' = "exited"
  /\ UNCHANGED <<psVars, ctxDone, latest, cb, handlerVars, reported, brokerVars>>

\* The request fails, or succeeds and its answer is lost.
CommitErr ==
  /\ loop = "commit"
  /\ \/ UNCHANGED committed
     \/ Acceptable(latest) /\ committed' = latest
  /\ loop' = "idle"
  /\ UNCHANGED <<psVars, ctxDone, latest, cb, handlerVars, reported, owned>>

RecordCommit ==
  /\ loop = "record"
  /\ LastCommited' = latest
  /\ MaxReceived' = IF latest > MaxReceived THEN latest ELSE MaxReceived
  /\ loop' = "idle"
  /\ UNCHANGED <<State, ctxDone, latest, cb, handlerVars, reported, brokerVars>>

LoopExit ==
  /\ loop = "idle" /\ ctxDone
  /\ loop' = "exited"
  /\ UNCHANGED <<psVars, ctxDone, latest, cb, handlerVars, reported, brokerVars>>

(***************************************************************************)
(* revokePrtnCB, run by the consume loop inside ReadMessage                *)
(***************************************************************************)
Revoke ==
  /\ cb = "none" /\ sending = NoOffset
  /\ ctxDone' = TRUE
  /\ cb' = "waitExit"
  /\ UNCHANGED <<psVars, loop, latest, handlerVars, reported, brokerVars>>

\* ExitCH is closed.  On "skipping" the callback leaves the state in the map.
RevokeFind ==
  /\ cb = "waitExit" /\ loop = "exited"
  /\ \/ /\ Skipping
        /\ cb' = "kept"
        /\ UNCHANGED <<psVars, latest>>
     \/ /\ FindLatestToCommit
        /\ cb' = IF latest' >= 0 THEN "commit" ELSE "done"
  /\ UNCHANGED <<ctxDone, loop, handlerVars, reported, brokerVars>>

\* Mutant: the final commit is of the offset after the one found.
RevokeCommitNext ==
  /\ cb = "commit"
  /\ owned /\ committed' = latest + 1
  /\ cb' = "done"
  /\ UNCHANGED <<psVars, ctxDone, loop, latest, handlerVars, reported, owned>>

\* The last commit; its failure is only logged.
RevokeCommit ==
  /\ cb = "commit"
  /\ \/ UNCHANGED committed
     \/ Acceptable(latest) /\ committed' = latest
  /\ cb' = "done"
  /\ UNCHANGED <<psVars, ctxDone, loop, latest, handlerVars, reported, owned>>

(***************************************************************************)
(* The group: the member is fenced (missed heartbeats), and from then on   *)
(* another member consumes and commits under the same rules.               *)
(***************************************************************************)
Fence ==
  /\ owned
  /\ owned' = FALSE
  /\ UNCHANGED <<psVars, loopVars, handlerVars, reported, committed>>

OtherMember(o) ==
  /\ ~owned
  /\ o \in Log /\ committed <= o
  /\ \A p \in Poison : o < p
  /\ reported' = reported \cup {p \in Log : p <= o}
  /\ committed' = o + 1
  /\ UNCHANGED <<psVars, loopVars, handlerVars, owned>>

Next ==
  \/ \E o \in Log : Deliver(o)
  \/ Enqueue
  \/ Drop
  \/ \E o \in Log, s \in MsgState : UpdateState(o, s)
  \/ \E o \in Log : GiveUp(o)
  \/ CommitTick
  \/ CommitOk
  \/ CommitErr
  \/ RecordCommit
  \/ LoopExit
  \/ Revoke
  \/ RevokeFind
  \/ RevokeCommit
  \/ Fence
  \/ \E o \in Log : OtherMember(o)

Spec == Init /\ [][Next]_vars

(***************************************************************************)
(* Fairness: the ticker of a running loop keeps firing, a request to the   *)
(* broker ends, requests do not fail for ever, and a goroutine that waits  *)
(* for ps.Mu gets it.  Nothing is assumed of handlers or of deliveries.    *)
(***************************************************************************)
LiveSpec ==
  /\ Spec
  /\ WF_vars(CommitTick)
  /\ WF_vars(CommitOk \/ CommitErr)
  /\ SF_vars(CommitOk)
  /\ WF_vars(RecordCommit)
-----------------------------------------------------------------------------
(***************************************************************************)
(* Properties                                                              *)
(***************************************************************************)
Phases == {"none", "waitExit", "kept", "commit", "done"}

\* Types.  (consumer.go:26-38, partition-state.go:14-25)
TypeOK ==
  /\ DOMAIN State \subseteq Log
  /\ \A o \in DOMAIN State : State[o] \in MsgState
  /\ MaxReceived \in Offset /\ LastCommited \in Offset
  /\ latest \in Offset /\ committed \in Nat \cup {NoOffset}
  /\ ctxDone \in BOOLEAN /\ owned \in BOOLEAN
  /\ loop \in {"idle", "commit", "record", "exited"}
  /\ cb \in Phases
  /\ next \in Nat /\ sending \in Log \cup {NoOffset}
  /\ mine \subseteq Log /\ late \subseteq Log /\ reported \subseteq Log

\* At-least-once: the offset the broker holds never passes a message that no
\* handler and no drop has reported, whatever arrives or is reported while a
\* commit is chosen, sent, lost or recorded, on ticks and on revocation.
CommitSafety == CoveredBy(committed, reported)

\* A commit the loop has recorded is never undone: later commits, also the one
\* made on revocation and the ones whose answer is lost, may rewind the broker
\* but not below LastCommited.
AckedIsDurable == LastCommited <= committed

\* No message at or before o is unfinished, and a later one has arrived.
Committable(o) ==
  /\ o < MaxReceived
  /\ \A p \in Log : p <= o => p \in reported
  /\ \A p \in DOMAIN State : p <= o => State[p] # Pending

\* A finished prefix is committed although commits fail and their answers get
\* lost.  The last message received is left out: after a commit that covers
\* everything the loop skips until a message beyond it arrives.
FinishedIsCommitted ==
  \A o \in Log : Committable(o) ~> (committed > o \/ ctxDone \/ ~owned)

\* What the session promises to the rest of the system.
ALO == INSTANCE AtLeastOnce WITH reported <- reported, committed <- committed

\* The session behaves, for whoever sees only the reports and the committed
\* offset, as AtLeastOnce allows.
ImplementsAtLeastOnce == ALO!Spec
-----------------------------------------------------------------------------
(***************************************************************************)
(* The inductive invariant behind CommitSafety.  Everything is said about  *)
(* the messages not reported yet: the delivered ones are pending in the    *)
(* map and inside the range the next scan visits, the others lie beyond    *)
(* it, and no offset that is, was or is about to be committed passes one.  *)
(***************************************************************************)
Unreported == Log \ reported

InFlight == loop \in {"commit", "record"} \/ cb = "commit"

TrackInv ==
  /\ \A o \in DOMAIN State : State[o] # Pending => o \in reported
  /\ \A o \in Unreported : o < next => /\ o \in DOMAIN State
                                       /\ State[o] = Pending
                                       /\ o <= MaxReceived
  /\ \A o \in Unreported : next <= o => MaxReceived <= o
  /\ \A o \in Unreported : LastCommited <= o /\ committed <= o
  /\ InFlight => \A o \in Unreported : latest <= o

IInv == TypeOK /\ TrackInv

\* The strengthening for AckedIsDurable: an offset being committed is at or
\* above LastCommited, and the broker has what the loop is about to record.
AckInv ==
  /\ LastCommited <= committed
  /\ loop = "record" => latest <= committed
  /\ InFlight /\ latest >= 0 => LastCommited <= latest
  /\ LastCommited <= MaxReceived \/ (MaxReceived = OffsetBeginning /\ LastCommited = -1)
  /\ cb = "commit" => loop = "exited"

=============================================================================
