----------------------------- MODULE PerfRunner ------------------------------
(***************************************************************************)
(* The experiment of performance/: one message-state map driven by three   *)
(* goroutines (appendLoop, updateLoop, commitLoop; NewTestConfig sets numG *)
(* to 1) in three variants: a map under a lock, a sync.Map, and a map      *)
(* owned by the goroutine updateStateLoop that is reached by a channel.    *)
(* pfMode is the variant of the run, or PfOff.                             *)
(***************************************************************************)
EXTENDS OffsetScan, Sequences

CONSTANTS PfMaxOffset,  \* bound: the greatest offset appended or updated
          PfRange,      \* cfg.UpdateRange
          PfQueueSize   \* capacity of updateStateCH

ASSUME PfAssumption == PfMaxOffset \in Nat /\ PfRange \in Nat \ {0} /\ PfQueueSize \in Nat \ {0}

VARIABLES
  pfMode,
  pfState,      \* ps.State
  pfMax,        \* ps.MaxReceived
  pfInit,       \* cfg.InitOffset, where the next scan starts
  pfAppend, pfUpdate,   \* PfIdle, the offset about to be written, or PfDone
  pfSeen,       \* the InitOffset updateLoop has read in this tick, or PfIdle
  pfCommit,     \* commitLoop: where it is, and the offset and result of its scan
  pfQueue,      \* updateStateCH
  pfOwner,      \* updateStateLoop runs
  pfCancelled,
  pfEarly       \* history: offsets marked as Success before they were appended

pfVars == <<pfMode, pfState, pfMax, pfInit, pfAppend, pfUpdate, pfSeen, pfCommit, pfQueue,
            pfOwner, pfCancelled, pfEarly>>
pfDataVars == <<pfMode, pfInit, pfOwner, pfCancelled>>

PfOff == "off"
PfIdle == -1
PfDone == -2
PfFind == "find"
PfNoScan == [pc |-> "idle", off |-> 0, latest |-> 0]
PfPut(m, k, v) == [x \in DOMAIN m \cup {k} |-> IF x = k THEN v ELSE m[x]]

PfInit(modes) ==
  /\ pfMode \in modes
  /\ pfState = [o \in {} |-> Pending] /\ pfMax = 0 /\ pfInit = 0
  /\ pfAppend = PfIdle /\ pfUpdate = PfIdle /\ pfSeen = PfIdle
  /\ pfCommit = PfNoScan /\ pfQueue = <<>> /\ pfOwner = (pfMode = "chan")
  /\ pfCancelled = FALSE /\ pfEarly = {}

\* The offset an append takes: 0 first (leaving MaxReceived at 1), then 2, 3, ...
PfNextOffset == IF pfMax = 0 THEN 0 ELSE pfMax + 1
PfAppended(o) == o # pfAppend /\ o # 1 /\ (o = 0 => pfMax > 0) /\ o <= pfMax

\* State[o] = s, or a message to the owner of the map.
PfWrite(o, s) ==
  IF pfMode = "chan"
  THEN /\ Len(pfQueue) < PfQueueSize
       /\ pfQueue' = Append(pfQueue, <<o, s>>) /\ UNCHANGED pfState
  ELSE pfState' = PfPut(pfState, o, s) /\ UNCHANGED pfQueue

\* appendLoop stores MaxReceived first and the message's state afterwards.
PfAppendTick ==
  /\ pfMode # PfOff /\ pfAppend = PfIdle /\ PfNextOffset <= PfMaxOffset
  /\ pfAppend' = PfNextOffset
  /\ pfMax' = IF pfMax = 0 THEN 1 ELSE pfMax + 1
  /\ UNCHANGED <<pfDataVars, pfState, pfUpdate, pfCommit, pfQueue, pfEarly, pfSeen>>

PfAppendStore ==
  /\ pfAppend >= 0
  /\ PfWrite(pfAppend, Pending)
  /\ pfAppend' = PfIdle
  /\ UNCHANGED <<pfDataVars, pfMax, pfUpdate, pfCommit, pfEarly, pfSeen>>

\* updateLoop reads InitOffset, then MaxReceived, picks an offset from what it has
\* read (rand.Int64N panics for a range of 0, which PerfServer models), and writes.
PfUpdateRead ==
  /\ pfMode # PfOff /\ pfUpdate = PfIdle /\ pfSeen = PfIdle /\ pfInit <= PfMaxOffset
  /\ pfSeen' = pfInit
  /\ UNCHANGED <<pfDataVars, pfState, pfMax, pfAppend, pfUpdate, pfCommit, pfQueue, pfEarly>>

PfUpdateSkip ==
  /\ pfSeen >= 0 /\ pfMax = 0 /\ pfSeen' = PfIdle
  /\ UNCHANGED <<pfDataVars, pfState, pfMax, pfAppend, pfUpdate, pfCommit, pfQueue, pfEarly>>

PfUpdatePick(r) ==
  /\ pfSeen >= 0 /\ pfMax > 0 /\ pfSeen' = PfIdle
  /\ r < (IF pfSeen + PfRange < pfMax THEN pfSeen + PfRange ELSE pfMax)
  /\ pfUpdate' = IF r < pfSeen THEN r + pfSeen ELSE r
  /\ pfUpdate' <= PfMaxOffset
  /\ UNCHANGED <<pfDataVars, pfState, pfMax, pfAppend, pfCommit, pfQueue, pfEarly>>

PfUpdateTick == PfUpdateSkip \/ \E r \in 0 .. PfMaxOffset : PfUpdatePick(r)

PfUpdateStore ==
  /\ pfUpdate >= 0
  /\ PfWrite(pfUpdate, Success)
  /\ pfEarly' = IF PfAppended(pfUpdate) \/ pfMode = "chan" THEN pfEarly ELSE pfEarly \cup {pfUpdate}
  /\ pfUpdate' = PfIdle
  /\ UNCHANGED <<pfDataVars, pfMax, pfAppend, pfCommit, pfSeen>>

(***************************************************************************)
(* commitLoop and FindLatestToCommit                                       *)
(***************************************************************************)
PfCommitTo(pc, off, latest) == pfCommit' = [pc |-> pc, off |-> off, latest |-> latest]

\* A tick finds the context not done.  The bounds of the scan are read before the
\* lock is taken (only this loop writes InitOffset); in the variant with channels
\* the loop is about to send its request.
PfCommitTick ==
  /\ pfMode # PfOff /\ pfCommit.pc = "idle" /\ ~pfCancelled
  /\ IF pfMode = "chan" THEN PfCommitTo("send", 0, 0) ELSE PfCommitTo("scan", pfInit, pfMax)
  /\ UNCHANGED <<pfDataVars, pfState, pfMax, pfAppend, pfUpdate, pfSeen, pfQueue, pfEarly>>

\* The send waits for room in the queue and for nothing else.
PfCommitSend ==
  /\ pfCommit.pc = "send" /\ Len(pfQueue) < PfQueueSize
  /\ pfQueue' = Append(pfQueue, <<PfIdle, PfFind>>)
  /\ PfCommitTo("wait", 0, 0)
  /\ UNCHANGED <<pfDataVars, pfState, pfMax, pfAppend, pfUpdate, pfSeen, pfEarly>>

\* Mutant: a message that is still pending does not end the scan.
PfScanPassesPending ==
  /\ pfMode = "lock" /\ pfCommit.pc = "scan"
  /\ pfState' = [o \in {p \in DOMAIN pfState : pfState[p] = Pending} |-> pfState[o]]
  /\ PfCommitTo("store", pfCommit.off, pfCommit.latest)
  /\ UNCHANGED <<pfDataVars, pfMax, pfAppend, pfUpdate, pfQueue, pfEarly, pfSeen>>

PfScanLock ==
  /\ pfMode = "lock" /\ pfCommit.pc = "scan"
  /\ \E l \in 0 .. PfMaxOffset + 1 :
       /\ IsLatestToCommit(pfState, pfCommit.off, pfCommit.latest, l)
       /\ pfState' = Pruned(pfState, pfCommit.off, pfCommit.latest, l)
       /\ PfCommitTo("store", pfCommit.off, l)
  /\ UNCHANGED <<pfDataVars, pfMax, pfAppend, pfUpdate, pfQueue, pfEarly, pfSeen>>

\* The sync.Map is read, deleted from and counted one call at a time: Delete removes
\* what is there by then, a message appended after the Load included.
PfScanSyncMap ==
  LET o == pfCommit.off
      latest == pfCommit.latest
  IN  /\ pfMode = "syncmap"
      /\ \/ /\ pfCommit.pc = "scan"
            /\ \/ o > latest /\ PfCommitTo("store", o, latest) /\ UNCHANGED pfState
               \/ /\ o <= latest /\ o \notin DOMAIN pfState
                  /\ PfCommitTo("scan", o + 1, latest) /\ UNCHANGED pfState
               \/ /\ o <= latest /\ o \in DOMAIN pfState /\ pfState[o] = Pending
                  /\ PfCommitTo("store", o, o) /\ UNCHANGED pfState
               \/ /\ o <= latest /\ o \in DOMAIN pfState /\ pfState[o] # Pending
                  /\ PfCommitTo("delete", o, latest) /\ UNCHANGED pfState
         \/ /\ pfCommit.pc = "delete" /\ PfCommitTo("len", o, latest)
            /\ pfState' = [p \in DOMAIN pfState \ {o} |-> pfState[p]]
         \/ /\ pfCommit.pc = "len" /\ UNCHANGED pfState
            /\ IF DOMAIN pfState = {} THEN PfCommitTo("store", o, o + 1)
                                      ELSE PfCommitTo("scan", o + 1, latest)
      /\ UNCHANGED <<pfDataVars, pfMax, pfAppend, pfUpdate, pfQueue, pfEarly, pfSeen>>

PfCommitStore ==
  /\ pfCommit.pc = "store"
  /\ pfInit' = pfCommit.latest
  /\ pfCommit' = PfNoScan
  /\ UNCHANGED <<pfMode, pfState, pfMax, pfAppend, pfUpdate, pfQueue, pfOwner, pfCancelled, pfEarly, pfSeen>>

\* updateStateLoop; the answer to the commit loop goes through findResultCH.
PfOwnerStep ==
  LET m == Head(pfQueue)
  IN  /\ pfOwner /\ pfQueue # <<>>
      /\ pfQueue' = Tail(pfQueue)
      /\ \/ m[2] # PfFind /\ pfState' = PfPut(pfState, m[1], m[2]) /\ UNCHANGED pfCommit
         \/ /\ m[2] = PfFind
            /\ \E l \in 0 .. PfMaxOffset + 1 :
                 /\ IsLatestToCommit(pfState, pfInit, pfMax, l)
                 /\ pfState' = Pruned(pfState, pfInit, pfMax, l)
                 /\ PfCommitTo("store", pfInit, l)
      /\ UNCHANGED <<pfDataVars, pfMax, pfAppend, pfUpdate, pfEarly, pfSeen>>

(***************************************************************************)
(* cancel and exit                                                         *)
(***************************************************************************)
PfCancel ==
  /\ pfMode # PfOff /\ ~pfCancelled /\ pfCancelled' = TRUE
  /\ UNCHANGED <<pfMode, pfState, pfMax, pfInit, pfAppend, pfUpdate, pfCommit, pfQueue,
                 pfOwner, pfEarly, pfSeen>>

PfAppendExit ==
  /\ pfCancelled /\ pfAppend = PfIdle /\ pfAppend' = PfDone
  /\ UNCHANGED <<pfDataVars, pfState, pfMax, pfUpdate, pfCommit, pfQueue, pfEarly, pfSeen>>

\* Mutant: the update loop does not look at its context.
PfUpdateStays == FALSE /\ UNCHANGED pfVars

PfUpdateExit ==
  /\ pfCancelled /\ pfUpdate = PfIdle /\ pfSeen = PfIdle /\ pfUpdate' = PfDone
  /\ UNCHANGED <<pfDataVars, pfState, pfMax, pfAppend, pfCommit, pfQueue, pfEarly, pfSeen>>

PfCommitExit ==
  /\ pfCancelled /\ pfCommit.pc = "idle" /\ pfCommit' = [PfNoScan EXCEPT !.pc = "done"]
  /\ UNCHANGED <<pfDataVars, pfState, pfMax, pfAppend, pfUpdate, pfQueue, pfEarly, pfSeen>>

PfOwnerExit ==
  /\ pfCancelled /\ pfOwner /\ pfOwner' = FALSE
  /\ UNCHANGED <<pfMode, pfState, pfMax, pfInit, pfAppend, pfUpdate, pfCommit, pfQueue,
                 pfCancelled, pfEarly, pfSeen>>

\* ExitCH is closed when every goroutine is done.
PfExited == pfAppend = PfDone /\ pfUpdate = PfDone /\ pfCommit.pc = "done" /\ ~pfOwner

PfScan == PfScanLock \/ PfScanSyncMap \/ PfCommitStore
PfNext ==
  \/ PfAppendTick \/ PfAppendStore \/ PfUpdateRead \/ PfUpdateTick \/ PfUpdateStore
  \/ PfCommitTick \/ PfCommitSend \/ PfScan \/ PfOwnerStep
  \/ PfCancel \/ PfAppendExit \/ PfUpdateExit \/ PfCommitExit \/ PfOwnerExit

PfSpec == PfInit({"lock", "syncmap", "chan"}) /\ [][PfNext]_pfVars

\* Goroutines run: a loop that is in the middle of a tick goes on with it, and
\* select picks any ready case, so a loop that keeps finding its context done leaves
\* sooner or later.
PfFairness ==
  /\ WF_pfVars(PfAppendStore) /\ WF_pfVars(PfUpdateTick \/ PfUpdateStore)
  /\ WF_pfVars(PfCommitSend \/ PfScan \/ PfCommitExit)
  /\ SF_pfVars(PfAppendExit) /\ SF_pfVars(PfUpdateExit) /\ WF_pfVars(PfOwnerExit)
-----------------------------------------------------------------------------
\* The scans of the lock and sync.Map variants never leave a pending message
\* behind InitOffset, where no later scan finds it, but for the first one
\* (MaxReceived is 1 before State[0] is stored) and one that updateLoop had
\* marked before it was appended.  (FindLatestToCommit, appendLoop)
PfNoPendingBehind ==
  pfMode # "chan" =>
    \A o \in DOMAIN pfState : pfState[o] = Pending /\ o < pfInit => o \in {0} \cup pfEarly

\* updateStateLoop has left and a goroutine waits for it for ever.
PfAbandoned ==
  /\ pfMode = "chan" /\ ~pfOwner
  /\ \/ pfCommit.pc = "wait"
     \/ Len(pfQueue) = PfQueueSize /\ (pfAppend >= 0 \/ pfUpdate >= 0 \/ pfCommit.pc = "send")

\* A cancelled runner closes ExitCH, on which runTests waits; in the variant
\* with channels unless one of its loops waits for the owner that has left.
PfExits == pfCancelled ~> (PfExited \/ PfAbandoned)

=============================================================================
