----------------------------- MODULE EventStore ------------------------------
(***************************************************************************)
(* The kafka/ server: the consumer of KafkaConsumer (kafka/internal/       *)
(* consumer is the same program, with one topic; its strategy is           *)
(* cooperative-sticky, which is the constant Cooperative) feeding          *)
(* cmd/server, which stores every event in the table events.               *)
(*                                                                         *)
(* saveToDB reports to the consumer INSIDE the transaction, before the     *)
(* commit; TxClosure only logs an error of the commit.  A reported offset  *)
(* can therefore be committed while its row is still open, and stay        *)
(* committed when the row is lost.                                         *)
(***************************************************************************)
EXTENDS KafkaConsumer

\* The server of kafka/ subscribes to one topic.
ASSUME StoreAssumption == \A tp, other \in TPs : Topic(tp) = Topic(other)

VARIABLES
  tx,       \* open transactions: records [tp, off, session, res]
  stored,   \* rows of events: the messages whose transaction has committed
  excused   \* history: dropped, reported as Error, or lost after the report

storeVars == <<tx, stored, excused>>

TxOf(h) == {t \in tx : t.tp = h.tp /\ t.off = h.off /\ t.session = h.session}
Msg(r) == <<r.tp, r.off>>
Reported(t) == ~\E h \in handlers : t \in TxOf(h)

StoreInit == Init /\ tx = {} /\ stored = {} /\ excused = {}

\* Mutant: an error of the insert is taken for a duplicate.
InsertAnyErrorIsDuplicate(h) ==
  /\ h \in handlers /\ TxOf(h) = {}
  /\ \E res \in {"inserted", "duplicate"} :
       tx' = tx \cup {[tp |-> h.tp, off |-> h.off, session |-> h.session, res |-> res]}
  /\ UNCHANGED <<vars, stored, excused>>

\* BeginTxx and Insert.  event_id is unique: the insert waits for an open one of
\* the same event, fails on a stored one, and may fail for any other reason.
Insert(h) ==
  /\ h \in handlers /\ TxOf(h) = {}
  /\ \E res \in {"inserted", "duplicate", "failed"} :
       /\ res = "duplicate" => Msg(h) \in stored
       /\ res = "inserted" => Msg(h) \notin stored
       /\ res # "failed" => ~\E t \in tx : Msg(t) = Msg(h) /\ t.res = "inserted"
       /\ tx' = tx \cup {[tp |-> h.tp, off |-> h.off, session |-> h.session, res |-> res]}
  /\ UNCHANGED <<vars, stored, excused>>

\* UpdateState after its look-up.
UpdateState(h, s) == LookupMissing(h) \/ WriteState(h, s)

\* UpdateState inside the transaction: Success for an inserted or an existing
\* event, Error otherwise.  Without an insert the transaction is rolled back.
SaveToDB(h) ==
  \E t \in TxOf(h) :
    /\ \/ Lookup(h) /\ UNCHANGED <<tx, excused>>
       \/ /\ UpdateState(h, IF t.res = "failed" THEN Error ELSE Success)
          /\ tx' = IF t.res = "inserted" THEN tx ELSE tx \ {t}
          /\ excused' = IF t.res = "failed" THEN excused \cup {Msg(t)} ELSE excused
    /\ UNCHANGED stored

\* TxClosure's deferred commit, after the report; its error is only printed.
TxClosure(t) ==
  /\ t \in tx /\ t.res = "inserted" /\ Reported(t)
  /\ tx' = tx \ {t}
  /\ \/ stored' = stored \cup {Msg(t)} /\ UNCHANGED excused
     \/ excused' = excused \cup {Msg(t)} /\ UNCHANGED stored
  /\ UNCHANGED vars

StoreDrop == Drop /\ excused' = excused \cup {cur} /\ UNCHANGED <<tx, stored>>

\* The process dies (BeginTxx or a message that is not JSON make it panic).
StoreCrash ==
  /\ Crash
  /\ excused' = excused \cup {Msg(t) : t \in {u \in tx : u.res = "inserted" /\ Reported(u)}}
  /\ tx' = {} /\ UNCHANGED stored

StartConsumer == Startup
ConsumeLoop == (\E tp \in TPs : Receive(tp)) \/ Enqueue
CommitOffsetLoop == \E id \in DOMAIN ps : CommitLoop(id)
RebalanceCB == \E S \in SUBSET TPs : AssignEvent(S) \/ RevokeEvent(S)
AssignPrntCB == AssignLock \/ AssignState \/ AssignDone \/ \E tp \in TPs : AssignNext(tp)
RevokePrtnCB ==
  \/ RevokeFind \/ RevokeDelete \/ RevokeDone
  \/ \E tp \in TPs : RevokeMissing(tp) \/ RevokeCancel(tp)

StoreNext ==
  \/ /\ \/ StartConsumer \/ ConsumeLoop \/ CommitOffsetLoop
        \/ RebalanceCB \/ AssignPrntCB \/ RevokePrtnCB
     /\ UNCHANGED storeVars
  \/ \E h \in handlers : Insert(h) \/ SaveToDB(h)
  \/ \E t \in tx : TxClosure(t)
  \/ StoreDrop \/ StoreCrash

StoreSpec == StoreInit /\ [][StoreNext]_<<vars, storeVars>>
-----------------------------------------------------------------------------
\* A message below the committed offset is a row of events, unless its insert
\* failed and was reported as Error, it was dropped because MsgCH stayed full,
\* or its transaction is open or was lost after the report that let the offset
\* be committed.  (saveToDB, TxClosure, commitOffsetLoop)
CommittedIsStored ==
  \A tp \in TPs, o \in Offsets : o < committed[tp] =>
    \/ <<tp, o>> \in stored \cup excused
    \/ \E t \in tx : Msg(t) = <<tp, o>> /\ t.res = "inserted" /\ Reported(t)

=============================================================================
