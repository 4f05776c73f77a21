--------------------------- MODULE FindLatestLoop ---------------------------
(***************************************************************************)
(* The loop of PartitionState.FindLatestToCommit, one iteration per step,  *)
(* run on every map and every pair of bounds.  It holds ps.Mu throughout,  *)
(* so nothing interleaves with it.                                         *)
(***************************************************************************)
EXTENDS OffsetScan

CONSTANTS Keys,    \* offsets that may be in the map
          Bounds   \* values of LastCommited and MaxReceived

ASSUME KeysAssumption == Keys \subseteq Int /\ Bounds \subseteq Int

VARIABLES st0, lc, mr,   \* the map and the bounds at entry
          st,            \* ps.State
          offset,        \* the loop variable
          latest,        \* latestToCommit.Offset
          pc             \* "loop" or "done"

vars == <<st0, lc, mr, st, offset, latest, pc>>

Maps == UNION {[D -> MsgState] : D \in SUBSET Keys}

Without(m, k) == [o \in DOMAIN m \ {k} |-> m[o]]

\* Past the early return for LastCommited = MaxReceived.
Init ==
  /\ st0 \in Maps /\ lc \in Bounds /\ mr \in Bounds /\ lc # mr
  /\ st = st0 /\ offset = lc /\ latest = mr
  /\ pc = "loop"

InRange == pc = "loop" /\ offset <= mr

NotExists ==
  /\ InRange /\ offset \notin DOMAIN st
  /\ offset' = offset + 1
  /\ UNCHANGED <<st0, lc, mr, st, latest, pc>>

\* Mutant: the scan stops when it empties the map, but returns the offset it
\* has just deleted instead of the one after it.
DeleteFinishedOffByOne ==
  /\ InRange /\ offset \in DOMAIN st /\ st[offset] # Pending
  /\ st' = Without(st, offset)
  /\ \/ /\ DOMAIN st' = {}
        /\ latest' = offset /\ pc' = "done" /\ UNCHANGED offset
     \/ /\ DOMAIN st' # {}
        /\ offset' = offset + 1 /\ UNCHANGED <<latest, pc>>
  /\ UNCHANGED <<st0, lc, mr>>

DeleteFinished ==
  /\ InRange /\ offset \in DOMAIN st /\ st[offset] # Pending
  /\ st' = Without(st, offset)
  /\ \/ /\ DOMAIN st' = {}
        /\ latest' = offset + 1 /\ pc' = "done" /\ UNCHANGED offset
     \/ /\ DOMAIN st' # {}
        /\ offset' = offset + 1 /\ UNCHANGED <<latest, pc>>
  /\ UNCHANGED <<st0, lc, mr>>

StopAtPending ==
  /\ InRange /\ offset \in DOMAIN st /\ st[offset] = Pending
  /\ latest' = offset
  /\ pc' = "done"
  /\ UNCHANGED <<st0, lc, mr, st, offset>>

OutOfRange ==
  /\ pc = "loop" /\ offset > mr
  /\ pc' = "done"
  /\ UNCHANGED <<st0, lc, mr, st, offset, latest>>

Next == NotExists \/ DeleteFinished \/ StopAtPending \/ OutOfRange

Spec == Init /\ [][Next]_vars
-----------------------------------------------------------------------------
\* The loop computes what OffsetScan describes: it returns the offset of
\* IsLatestToCommit and leaves the map of Pruned.
LoopComputesScan ==
  pc = "done" => /\ IsLatestToCommit(st0, lc, mr, latest)
                 /\ st = Pruned(st0, lc, mr, latest)

\* The loop invariant: the keys already visited were finished and are gone, the
\* others are untouched, and the map was not emptied on the way.
Visited == {o \in Scanned(st0, lc, mr) : o < offset}

LoopInv ==
  /\ st0 \in Maps /\ lc \in Int /\ mr \in Int /\ offset \in Int
  /\ pc \in {"loop", "done"}
  /\ pc = "loop" =>
       /\ lc <= offset
       /\ latest = mr
       /\ st = [o \in DOMAIN st0 \ Visited |-> st0[o]]
       /\ \A o \in Visited : st0[o] # Pending
       /\ DOMAIN st0 = {} \/ DOMAIN st # {}

=============================================================================
