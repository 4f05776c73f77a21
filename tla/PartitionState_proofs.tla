----------------------- MODULE PartitionState_proofs ------------------------
(***************************************************************************)
(* Proofs about one session of a partition, for every log (with any holes  *)
(* and any undecodable messages), every state the group is in when the     *)
(* session starts, and every handler left over from earlier sessions.      *)
(***************************************************************************)
EXTENDS PartitionState, TLAPS

(***************************************************************************)
(* Types                                                                   *)
(***************************************************************************)
\* A map write keeps the map's type.
LEMMA PutType ==
  ASSUME TypeOK, NEW k \in Log, NEW v \in MsgState, State' = Put(State, k, v)
  PROVE  /\ DOMAIN State' \subseteq Log
         /\ \A o \in DOMAIN State' : State'[o] \in MsgState
  BY DEF Put, TypeOK

\* A scan returns an offset, and leaves a part of the map.
LEMMA FindType ==
  ASSUME TypeOK, FindLatestToCommit
  PROVE  /\ latest' \in Offset
         /\ DOMAIN State' \subseteq DOMAIN State
         /\ \A o \in DOMAIN State' : State'[o] = State[o]
<1>1. PICK l \in Candidates :
        latest' = l /\ State' = Pruned(State, LastCommited, MaxReceived, l)
  BY DEF FindLatestToCommit
<1>2. l \in Offset
  <2>1. DOMAIN State \subseteq Nat /\ MaxReceived \in Offset
    BY LogAssumption DEF TypeOK
  <2>2. {o + 1 : o \in DOMAIN State} \subseteq Nat
    BY <2>1
  <2> QED
    BY <2>1, <2>2 DEF Candidates, Offset
<1> QED
  BY <1>1, <1>2 DEF Pruned

\* A session starts well typed.
LEMMA InitType == Init => TypeOK
<1> SUFFICES ASSUME Init PROVE TypeOK
  OBVIOUS
<1>1. committed \in Nat \cup {NoOffset}
  BY LogAssumption DEF Init
<1>2. PICK start \in {StartOffset(committed), OffsetBeginning} : NewPartitionState(start)
  BY DEF Init
<1>3. start \in Nat \cup {OffsetBeginning}
  BY <1>1 DEF StartOffset, NoOffset
<1>4. /\ MaxReceived \in Offset /\ LastCommited \in Offset
      /\ DOMAIN State = {}
  BY <1>2, <1>3 DEF NewPartitionState, Offset, OffsetBeginning, NoOffset
<1>5. next \in Nat
  BY <1>1 DEF Init, NoOffset
<1>6. mine \subseteq Log /\ late \subseteq Log /\ reported \subseteq Log
  BY DEF Init
<1> QED
  BY <1>1, <1>4, <1>5, <1>6 DEF Init, TypeOK, Offset, NoOffset, Phases

\* Every step keeps the types.
LEMMA NextType == TypeOK /\ [Next]_vars => TypeOK'
<1> SUFFICES ASSUME TypeOK, [Next]_vars PROVE TypeOK'
  OBVIOUS
<1> USE LogAssumption DEF vars, psVars, loopVars, handlerVars, brokerVars
<1>1. ASSUME NEW o \in Log, Deliver(o) PROVE TypeOK'
  <2>1. /\ DOMAIN State' \subseteq Log
        /\ \A p \in DOMAIN State' : State'[p] \in MsgState
    BY <1>1, PutType DEF Deliver, MsgState
  <2> QED
    BY <1>1, <2>1 DEF Deliver, TypeOK, Offset
<1>2. CASE Enqueue
  BY <1>2 DEF Enqueue, TypeOK
<1>3. CASE Drop
  <2>0. sending \in Log /\ Error \in MsgState
    BY <1>3 DEF Drop, TypeOK, MsgState
  <2>1. /\ DOMAIN State' \subseteq Log
        /\ \A p \in DOMAIN State' : State'[p] \in MsgState
    BY <1>3, <2>0, PutType DEF Drop, Report
  <2> QED
    BY <1>3, <2>0, <2>1 DEF Drop, Report, TypeOK
<1>4. ASSUME NEW o \in Log, NEW s \in MsgState, UpdateState(o, s) PROVE TypeOK'
  <2>1. /\ DOMAIN State' \subseteq Log
        /\ \A p \in DOMAIN State' : State'[p] \in MsgState
    BY <1>4, PutType DEF UpdateState, Report
  <2> QED
    BY <1>4, <2>1 DEF UpdateState, Report, TypeOK
<1>5. ASSUME NEW o \in Log, GiveUp(o) PROVE TypeOK'
  BY <1>5 DEF GiveUp, TypeOK
<1>6. CASE CommitTick
  BY <1>6, FindType DEF CommitTick, FindLatestToCommit, TypeOK
<1>7. CASE CommitOk
  BY <1>7 DEF CommitOk, Acceptable, TypeOK, Offset, OffsetBeginning, NoOffset
<1>8. CASE CommitErr
  BY <1>8 DEF CommitErr, Acceptable, TypeOK, Offset, OffsetBeginning, NoOffset
<1>9. CASE RecordCommit
  BY <1>9 DEF RecordCommit, TypeOK
<1>10. CASE LoopExit
  BY <1>10 DEF LoopExit, TypeOK
<1>11. CASE Revoke
  BY <1>11 DEF Revoke, TypeOK, Phases
<1>12. CASE RevokeFind
  <2>1. CASE Skipping /\ cb' = "kept" /\ UNCHANGED <<psVars, latest>>
    BY <1>12, <2>1 DEF RevokeFind, TypeOK, Phases
  <2>2. CASE FindLatestToCommit /\ cb' = IF latest' >= 0 THEN "commit" ELSE "done"
    <3>1. cb' \in Phases
      BY <2>2 DEF Phases
    <3> QED
      BY <1>12, <2>2, <3>1, FindType DEF RevokeFind, FindLatestToCommit, TypeOK
  <2> QED
    BY <1>12, <2>1, <2>2 DEF RevokeFind
<1>13. CASE RevokeCommit
  BY <1>13 DEF RevokeCommit, Acceptable, TypeOK, Phases, Offset, OffsetBeginning, NoOffset
<1>14. CASE Fence
  BY <1>14 DEF Fence, TypeOK
<1>15. ASSUME NEW o \in Log, OtherMember(o) PROVE TypeOK'
  <2>1. committed' \in Nat
    BY <1>15 DEF OtherMember
  <2>2. reported' \subseteq Log
    <3>1. reported \subseteq Log
      BY DEF TypeOK
    <3>2. reported' = reported \cup {p \in Log : p <= o}
      BY <1>15 DEF OtherMember
    <3> QED
      BY <3>1, <3>2
  <2> QED
    BY <1>15, <2>1, <2>2 DEF OtherMember, TypeOK
<1>16. CASE UNCHANGED vars
  BY <1>16 DEF TypeOK
<1> QED
  BY <1>1, <1>2, <1>3, <1>4, <1>5, <1>6, <1>7, <1>8, <1>9, <1>10, <1>11,
     <1>12, <1>13, <1>14, <1>15, <1>16 DEF Next

\* The state of a session has its types in every reachable state.
THEOREM TypeCorrect == Spec => []TypeOK
  BY InitType, NextType, PTL DEF Spec

(***************************************************************************)
(* Commit safety                                                           *)
(***************************************************************************)
\* The offset a scan returns passes no unreported message: a delivered one is
\* pending in the range of the scan and stops it, the others lie beyond
\* MaxReceived; and what the scan deletes has been reported.
LEMMA FindSafe ==
  ASSUME TypeOK, TrackInv, FindLatestToCommit
  PROVE  /\ \A o \in Unreported : latest' <= o
         /\ \A o \in DOMAIN State' : State'[o] # Pending => o \in reported
         /\ \A o \in Unreported : o < next => o \in DOMAIN State' /\ State'[o] = Pending
<1>1. PICK l \in Candidates :
        /\ IsLatestToCommit(State, LastCommited, MaxReceived, l)
        /\ latest' = l
        /\ State' = Pruned(State, LastCommited, MaxReceived, l)
  BY DEF FindLatestToCommit
<1> DEFINE pend == PendingIn(State, LastCommited, MaxReceived)
           scan == Scanned(State, LastCommited, MaxReceived)
<1>2. /\ DOMAIN State \subseteq Nat
      /\ MaxReceived \in Int /\ LastCommited \in Int /\ next \in Nat
      /\ Unreported \subseteq Nat
  <2>1. DOMAIN State \subseteq Nat /\ Unreported \subseteq Nat
    BY LogAssumption DEF TypeOK, Unreported
  <2>2. MaxReceived \in Int /\ LastCommited \in Int /\ next \in Nat
    BY DEF TypeOK, Offset, OffsetBeginning, NoOffset
  <2> QED
    BY <2>1, <2>2
<1>3. ASSUME NEW o \in Unreported PROVE o < next => o \in pend
  BY <1>3 DEF TrackInv, PendingIn, Scanned
<1>4. ASSUME NEW o \in Unreported PROVE l <= o
  <2>1. CASE l \in pend /\ \A p \in pend : l <= p
    <3>1. CASE o < next
      BY <2>1, <3>1, <1>3
    <3>2. CASE next <= o
      BY <2>1, <3>2, <1>2 DEF TrackInv, PendingIn, Scanned
    <3> QED
      BY <3>1, <3>2, <1>2
  <2>2. CASE pend = {} /\ l - 1 \in scan
    <3>1. next <= o /\ MaxReceived <= o
      BY <2>2, <1>2, <1>3 DEF TrackInv
    <3>2. l - 1 \in DOMAIN State /\ l - 1 <= MaxReceived /\ l - 1 \in Nat
      BY <2>2, <1>2 DEF Scanned
    <3>3. l \in Int
      BY <1>2 DEF Candidates
    <3>4. l - 1 # o
      BY <2>2, <3>2 DEF TrackInv, Unreported, PendingIn
    <3> QED
      BY <3>1, <3>2, <3>3, <3>4, <1>2
  <2>3. CASE pend = {} /\ l = MaxReceived
    BY <2>3, <1>2, <1>3 DEF TrackInv
  <2> QED
    BY <1>1, <2>1, <2>2, <2>3 DEF IsLatestToCommit
<1>5. \A o \in DOMAIN State' : State'[o] # Pending => o \in reported
  BY <1>1 DEF Pruned, TrackInv
<1>6. \A o \in Unreported : o < next => o \in DOMAIN State' /\ State'[o] = Pending
  BY <1>1 DEF Pruned, Finished, TrackInv
<1> QED
  BY <1>1, <1>4, <1>5, <1>6

\* A report makes its message reported and touches no other one.
LEMMA ReportSafe ==
  ASSUME TypeOK, TrackInv, NEW o \in Log, NEW s \in {Success, Error},
         Report(o, s), UNCHANGED <<next, latest, loop, cb, committed>>
  PROVE  TrackInv'
<1>1. Unreported' = Unreported \ {o}
  BY DEF Report, Unreported
<1>2. /\ DOMAIN State' = DOMAIN State \cup {o}
      /\ \A p \in DOMAIN State : p # o => State'[p] = State[p]
  BY DEF Report, Put
<1>3. InFlight' = InFlight
  BY DEF InFlight
<1> QED
  BY <1>1, <1>2, <1>3 DEF TrackInv, Report

\* The invariant holds when the session starts.
LEMMA InitTrack == Init => TrackInv
<1> SUFFICES ASSUME Init PROVE TrackInv
  OBVIOUS
<1>1. committed \in Nat \cup {NoOffset}
  BY LogAssumption DEF Init
<1>2. PICK start \in {StartOffset(committed), OffsetBeginning} : NewPartitionState(start)
  BY DEF Init
<1>3. \A o \in Unreported : o \in Nat /\ committed <= o
  BY <1>1, LogAssumption DEF Init, CoveredBy, Unreported, NoOffset
<1>4. start \in Int /\ (start <= committed \/ start = OffsetBeginning)
  BY <1>1 DEF StartOffset, OffsetBeginning, NoOffset
<1>5. \A o \in Unreported : start <= o /\ LastCommited <= o /\ next <= o
  BY <1>1, <1>2, <1>3, <1>4 DEF NewPartitionState, Init, OffsetBeginning, NoOffset
<1>6. DOMAIN State = {} /\ MaxReceived = start
  BY <1>2 DEF NewPartitionState
<1>7. ~InFlight
  BY DEF Init, InFlight
<1>8. next \in Nat
  BY <1>1 DEF Init, NoOffset
<1> QED
  BY <1>3, <1>5, <1>6, <1>7, <1>8 DEF TrackInv

\* Every step preserves it.
LEMMA NextTrack == IInv /\ [Next]_vars => TrackInv'
<1> SUFFICES ASSUME TypeOK, TrackInv, [Next]_vars PROVE TrackInv'
  BY DEF IInv
<1> USE DEF vars, psVars, loopVars, handlerVars, brokerVars
<1>0. /\ Unreported \subseteq Nat /\ Log \subseteq Nat /\ next \in Nat
      /\ MaxReceived \in Int /\ LastCommited \in Int /\ latest \in Int
      /\ committed \in Int
  BY LogAssumption DEF TypeOK, Offset, OffsetBeginning, NoOffset, Unreported
<1>1. ASSUME NEW o \in Log, Deliver(o) PROVE TrackInv'
  <2>1. Unreported' = Unreported /\ InFlight' = InFlight
    BY <1>1 DEF Deliver, Unreported, InFlight
  <2>2. /\ DOMAIN State' = DOMAIN State \cup {o}
        /\ State'[o] = Pending
        /\ \A p \in DOMAIN State : p # o => State'[p] = State[p]
    BY <1>1 DEF Deliver, Put
  <2>3. next' = o + 1 /\ MaxReceived <= MaxReceived' /\ o <= MaxReceived'
    BY <1>0, <1>1 DEF Deliver
  <2>4. \A p \in Unreported : p < next' => p < next \/ p = o
    BY <1>0, <1>1 DEF Deliver, Unreported
  <2>5. \A p \in Unreported : next' <= p => MaxReceived' <= p
    BY <1>0, <1>1 DEF Deliver, TrackInv
  <2>6. MaxReceived' \in Int
    BY <1>0, <1>1 DEF Deliver
  <2>7. \A p \in Unreported : p < next' => p <= MaxReceived'
    BY <1>0, <2>3, <2>4, <2>6 DEF TrackInv
  <2>8. \A p \in Unreported : p < next' => p \in DOMAIN State' /\ State'[p] = Pending
    BY <2>2, <2>4 DEF TrackInv
  <2> QED
    BY <1>1, <2>1, <2>2, <2>5, <2>7, <2>8 DEF Deliver, TrackInv
<1>2. CASE Enqueue
  BY <1>2 DEF Enqueue, TrackInv, Unreported, InFlight
<1>3. CASE Drop
  <2>1. sending \in Log
    BY <1>3 DEF Drop, TypeOK
  <2> QED
    BY <1>3, <2>1, ReportSafe DEF Drop
<1>4. ASSUME NEW o \in Log, NEW s \in MsgState, UpdateState(o, s) PROVE TrackInv'
  BY <1>4, ReportSafe DEF UpdateState
<1>5. ASSUME NEW o \in Log, GiveUp(o) PROVE TrackInv'
  BY <1>5 DEF GiveUp, TrackInv, Unreported, InFlight
<1>6. CASE CommitTick
  <2>1. Unreported' = Unreported
    BY <1>6 DEF CommitTick, Unreported
  <2>2. FindLatestToCommit
    BY <1>6 DEF CommitTick
  <2> QED
    BY <1>6, <2>1, <2>2, FindSafe DEF CommitTick, FindLatestToCommit, TrackInv
<1>7. CASE CommitOk
  BY <1>7 DEF CommitOk, TrackInv, Unreported, InFlight
<1>8. CASE CommitErr
  BY <1>8 DEF CommitErr, TrackInv, Unreported, InFlight
<1>9. CASE RecordCommit
  <2>1. \A o \in Unreported : latest <= o
    BY <1>9 DEF RecordCommit, TrackInv, InFlight
  <2>2. MaxReceived <= MaxReceived' /\ MaxReceived' \in Int
    BY <1>0, <1>9 DEF RecordCommit
  <2>3. \A o \in Unreported : next <= o => MaxReceived' <= o
    BY <1>9, <2>1 DEF RecordCommit, TrackInv
  <2>4. \A o \in Unreported : o < next => o <= MaxReceived'
    BY <1>0, <2>2 DEF TrackInv
  <2>5. Unreported' = Unreported
    BY <1>9 DEF RecordCommit, Unreported
  <2> QED
    BY <1>9, <2>1, <2>3, <2>4, <2>5 DEF RecordCommit, TrackInv, InFlight
<1>10. CASE LoopExit
  BY <1>10 DEF LoopExit, TrackInv, Unreported, InFlight
<1>11. CASE Revoke
  BY <1>11 DEF Revoke, TrackInv, Unreported, InFlight
<1>12. CASE RevokeFind
  <2>1. Unreported' = Unreported /\ next' = next /\ committed' = committed
    BY <1>12 DEF RevokeFind, Unreported
  <2>2. CASE cb' = "kept" /\ UNCHANGED <<psVars, latest>>
    BY <1>12, <2>1, <2>2 DEF RevokeFind, TrackInv, InFlight
  <2>3. CASE FindLatestToCommit
    <3>1. /\ \A o \in Unreported : latest' <= o
          /\ \A o \in DOMAIN State' : State'[o] # Pending => o \in reported
          /\ \A o \in Unreported : o < next => o \in DOMAIN State' /\ State'[o] = Pending
      BY <2>3, FindSafe
    <3>2. UNCHANGED <<MaxReceived, LastCommited, reported>>
      BY <1>12, <2>3 DEF FindLatestToCommit, RevokeFind
    <3> QED
      BY <2>1, <3>1, <3>2 DEF TrackInv
  <2> QED
    BY <1>12, <2>2, <2>3 DEF RevokeFind
<1>13. CASE RevokeCommit
  BY <1>13 DEF RevokeCommit, TrackInv, Unreported, InFlight
<1>14. CASE Fence
  BY <1>14 DEF Fence, TrackInv, Unreported, InFlight
<1>15. ASSUME NEW o \in Log, OtherMember(o) PROVE TrackInv'
  <2>1. Unreported' \subseteq Unreported /\ \A p \in Unreported' : committed' <= p
    BY <1>0, <1>15 DEF OtherMember, Unreported
  <2>2. InFlight' = InFlight /\ reported \subseteq reported'
    BY <1>15 DEF OtherMember, InFlight
  <2> QED
    BY <1>15, <2>1, <2>2 DEF OtherMember, TrackInv
<1>16. CASE UNCHANGED vars
  BY <1>16 DEF TrackInv, Unreported, InFlight
<1> QED
  BY <1>1, <1>2, <1>3, <1>4, <1>5, <1>6, <1>7, <1>8, <1>9, <1>10, <1>11,
     <1>12, <1>13, <1>14, <1>15, <1>16 DEF Next

\* IInv is an invariant of the session.
THEOREM TrackInvariant == Spec => []IInv
<1>1. Init => IInv
  BY InitType, InitTrack DEF IInv
<1>2. IInv /\ [Next]_vars => IInv'
  BY NextType, NextTrack DEF IInv
<1> QED
  BY <1>1, <1>2, PTL DEF Spec

\* At-least-once: the committed offset of the partition never passes a message
\* that nobody has reported, in any session on any log.
THEOREM CommitIsSafe == Spec => []CommitSafety
<1>1. IInv => CommitSafety
  BY LogAssumption
  DEF IInv, TypeOK, TrackInv, CommitSafety, CoveredBy, Unreported, NoOffset
<1> QED
  BY <1>1, TrackInvariant, PTL

(***************************************************************************)
(* Recorded commits are durable                                            *)
(***************************************************************************)
\* An offset a scan returns, when it can be committed at all, is not below the
\* last recorded commit.
LEMMA FindAboveAck ==
  ASSUME TypeOK, AckInv, FindLatestToCommit
  PROVE  latest' \in Int /\ (latest' >= 0 => LastCommited <= latest')
<1>1. PICK l \in Candidates :
        /\ IsLatestToCommit(State, LastCommited, MaxReceived, l)
        /\ latest' = l
  BY DEF FindLatestToCommit
<1>2. MaxReceived \in Int /\ LastCommited \in Int
  BY DEF TypeOK, Offset, OffsetBeginning, NoOffset
<1>3. latest' \in Int
  BY FindType DEF Offset, OffsetBeginning, NoOffset
<1>4. DOMAIN State \subseteq Nat
  BY LogAssumption DEF TypeOK
<1>5. \/ l \in Scanned(State, LastCommited, MaxReceived)
      \/ l - 1 \in Scanned(State, LastCommited, MaxReceived)
      \/ l = MaxReceived
  BY <1>1 DEF IsLatestToCommit, PendingIn
<1> QED
  BY <1>1, <1>2, <1>3, <1>4, <1>5 DEF Scanned, AckInv, OffsetBeginning

\* The invariant behind it holds when the session starts.
LEMMA InitAck == Init => AckInv
<1> SUFFICES ASSUME Init PROVE AckInv
  OBVIOUS
<1>1. committed \in Nat \cup {NoOffset}
  BY LogAssumption DEF Init
<1>2. PICK start \in {StartOffset(committed), OffsetBeginning} : NewPartitionState(start)
  BY DEF Init
<1>3. /\ LastCommited <= committed
      /\ LastCommited <= MaxReceived \/ (MaxReceived = OffsetBeginning /\ LastCommited = -1)
  BY <1>1, <1>2 DEF NewPartitionState, StartOffset, OffsetBeginning, NoOffset
<1> QED
  BY <1>3 DEF AckInv, Init, InFlight

\* Every step preserves it.
LEMMA NextAck == TypeOK /\ AckInv /\ [Next]_vars => AckInv'
<1> SUFFICES ASSUME TypeOK, AckInv, [Next]_vars PROVE AckInv'
  OBVIOUS
<1> USE DEF vars, psVars, loopVars, handlerVars, brokerVars
<1>0. /\ Log \subseteq Nat /\ MaxReceived \in Int /\ LastCommited \in Int
      /\ latest \in Int /\ committed \in Int
  <2>1. /\ MaxReceived \in Int /\ LastCommited \in Int
        /\ latest \in Int /\ committed \in Int
    BY DEF TypeOK, Offset, OffsetBeginning, NoOffset
  <2> QED
    BY <2>1, LogAssumption
<1>1. ASSUME NEW o \in Log, Deliver(o) PROVE AckInv'
  BY <1>0, <1>1 DEF Deliver, AckInv, InFlight, OffsetBeginning
<1>2. CASE Enqueue
  BY <1>2 DEF Enqueue, AckInv, InFlight
<1>3. CASE Drop
  BY <1>3 DEF Drop, Report, AckInv, InFlight
<1>4. ASSUME NEW o \in Log, NEW s \in MsgState, UpdateState(o, s) PROVE AckInv'
  BY <1>4 DEF UpdateState, Report, AckInv, InFlight
<1>5. ASSUME NEW o \in Log, GiveUp(o) PROVE AckInv'
  BY <1>5 DEF GiveUp, AckInv, InFlight
<1>6. CASE CommitTick
  <2>1. latest' >= 0 => LastCommited <= latest'
    BY <1>6, FindAboveAck DEF CommitTick
  <2> QED
    BY <1>6, <2>1 DEF CommitTick, FindLatestToCommit, AckInv
<1>7. CASE CommitOk
  BY <1>0, <1>7 DEF CommitOk, Acceptable, AckInv, InFlight
<1>8. CASE CommitErr
  BY <1>0, <1>8 DEF CommitErr, Acceptable, AckInv, InFlight
<1>9. CASE RecordCommit
  BY <1>0, <1>9 DEF RecordCommit, AckInv, InFlight
<1>10. CASE LoopExit
  BY <1>10 DEF LoopExit, AckInv, InFlight
<1>11. CASE Revoke
  BY <1>11 DEF Revoke, AckInv, InFlight
<1>12. CASE RevokeFind
  <2>1. CASE cb' = "kept" /\ UNCHANGED <<psVars, latest>>
    BY <1>12, <2>1 DEF RevokeFind, AckInv, InFlight
  <2>2. CASE FindLatestToCommit
    <3>1. latest' >= 0 => LastCommited <= latest'
      BY <2>2, FindAboveAck
    <3> QED
      BY <1>12, <2>2, <3>1 DEF RevokeFind, FindLatestToCommit, AckInv, InFlight
  <2> QED
    BY <1>12, <2>1, <2>2 DEF RevokeFind
<1>13. CASE RevokeCommit
  BY <1>0, <1>13 DEF RevokeCommit, Acceptable, AckInv, InFlight
<1>14. CASE Fence
  BY <1>14 DEF Fence, AckInv, InFlight
<1>15. ASSUME NEW o \in Log, OtherMember(o) PROVE AckInv'
  BY <1>0, <1>15 DEF OtherMember, AckInv, InFlight
<1>16. CASE UNCHANGED vars
  BY <1>16 DEF AckInv, InFlight
<1> QED
  BY <1>1, <1>2, <1>3, <1>4, <1>5, <1>6, <1>7, <1>8, <1>9, <1>10, <1>11,
     <1>12, <1>13, <1>14, <1>15, <1>16 DEF Next

\* Whatever is committed later, a commit the loop has recorded stays covered.
THEOREM AckedStaysCommitted == Spec => []AckedIsDurable
<1>1. AckInv => AckedIsDurable
  BY DEF AckInv, AckedIsDurable
<1> QED
  BY <1>1, InitAck, NextAck, TypeCorrect, PTL DEF Spec

(***************************************************************************)
(* The session implements AtLeastOnce                                      *)
(***************************************************************************)
\* Every step is a step of AtLeastOnce on reported and committed, or leaves
\* both alone.
LEMMA StepSimulates ==
  ASSUME IInv, IInv', [Next]_vars
  PROVE  [ALO!Next]_<<reported, committed>>
<1> USE DEF vars, psVars, loopVars, handlerVars, brokerVars
<1>1. ASSUME committed' = latest, latest >= 0, reported' = reported,
             \A o \in Unreported : latest <= o
      PROVE  ALO!Commit
  <2>1. latest \in Nat
    BY <1>1 DEF IInv, TypeOK, Offset, OffsetBeginning, NoOffset
  <2>2. \A o \in Log : o < latest => o \in reported
    BY <1>1, <2>1, LogAssumption DEF Unreported
  <2> QED
    BY <1>1, <2>1, <2>2 DEF ALO!Commit, ALO!CoveredBy
<1>2. ASSUME NEW o \in Log, reported' = reported \cup {o}, committed' = committed
      PROVE  ALO!ReportOne
  BY <1>2 DEF ALO!ReportOne
<1>3. CASE CommitOk \/ CommitErr \/ RevokeCommit
  BY <1>1, <1>3
  DEF CommitOk, CommitErr, RevokeCommit, Acceptable, IInv, TrackInv, InFlight, ALO!Next
<1>4. CASE Drop
  <2>1. sending \in Log
    BY <1>4 DEF Drop, IInv, TypeOK
  <2> QED
    BY <1>2, <1>4, <2>1 DEF Drop, Report, ALO!Next
<1>5. ASSUME NEW o \in Log, NEW s \in MsgState, UpdateState(o, s)
      PROVE  ALO!Next
  BY <1>2, <1>5 DEF UpdateState, Report, ALO!Next
<1>6. ASSUME NEW o \in Log, OtherMember(o) PROVE ALO!Next
  <2>1. committed' \in Nat /\ committed < committed'
    BY <1>6, LogAssumption DEF OtherMember, IInv, TypeOK, NoOffset
  <2>2. \A p \in Log : p <= o <=> p < committed'
    BY <1>6, LogAssumption DEF OtherMember
  <2>3. reported' = reported \cup {p \in Log : p < committed'}
    BY <1>6, <2>2 DEF OtherMember
  <2> QED
    BY <2>1, <2>3 DEF ALO!TakenOver, ALO!Next
<1>7. ASSUME \/ \E o \in Log : Deliver(o) \/ GiveUp(o)
             \/ Enqueue \/ CommitTick \/ RecordCommit \/ LoopExit
             \/ Revoke \/ RevokeFind \/ Fence \/ UNCHANGED vars
      PROVE  UNCHANGED <<reported, committed>>
  BY <1>7 DEF Deliver, GiveUp, Enqueue, CommitTick, RecordCommit, LoopExit,
              Revoke, RevokeFind, Fence
<1> QED
  BY <1>3, <1>4, <1>5, <1>6, <1>7 DEF Next

\* The session, seen through its reports and the committed offset, is an
\* at-least-once consumer.
THEOREM Refinement == Spec => ImplementsAtLeastOnce
<1>1. Init => ALO!Init
  BY DEF Init, CoveredBy, ALO!Init, ALO!CoveredBy
<1>2. IInv /\ IInv' /\ [Next]_vars => [ALO!Next]_<<reported, committed>>
  BY StepSimulates
<1> QED
  BY <1>1, <1>2, TrackInvariant, PTL DEF Spec, ImplementsAtLeastOnce, ALO!Spec

=============================================================================
