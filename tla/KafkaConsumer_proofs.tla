------------------------ MODULE KafkaConsumer_proofs ------------------------
(***************************************************************************)
(* Proofs about the whole consumer, for any topics, partitions, log size,  *)
(* assignment strategy and number of sessions and crashes: no commit       *)
(* passes a message that was not reported, every assigned partition is     *)
(* tracked, and a pending entry has a handler that has not ended.          *)
(***************************************************************************)
EXTENDS KafkaConsumer, SequenceTheorems, TLAPS

(***************************************************************************)
(* The inductive invariant, one part per idea                              *)
(***************************************************************************)
StateMaps == UNION {[S -> MsgState] : S \in SUBSET Offsets}
Loops == {"idle", "commit", "record", "exited"}

PartitionStates ==
  [ID : Partitions, topic : Topics, State : StateMaps, MaxReceived : Int,
   LastCommited : Int, ctxDone : BOOLEAN, loop : Loops, latest : Int, latestTopic : Topics]

Assigning == {"assign", "assignWait"}
Revoking == {"revoke", "revokeWait", "revokeLock"}

\* The data has its types; a state's topics have a partition with its number.
DataOK ==
  /\ ps \in Seq(PartitionStates)
  /\ \A id \in 1 .. Len(ps) : <<ps[id].topic, ps[id].ID>> \in TPs
                              /\ <<ps[id].latestTopic, ps[id].ID>> \in TPs
  /\ leaked \in Nat
  /\ assigned \subseteq TPs /\ position \in [TPs -> Nat]
  /\ committed \in [TPs -> Int] /\ reported \subseteq Messages
  /\ handlers \subseteq [tp : TPs, off : Offsets, ps : Nat, session : Nat]

\* The consume loop's registers at each of its positions.
ControlOK ==
  /\ pc \in {"start", "waitTopic", "poll", "send", "assignLock"} \cup Assigning \cup Revoking
  /\ pc \in {"start", "waitTopic"} => assigned = {} /\ event = {} /\ offsets = NoFunction
  /\ pc \in {"poll", "send"} => event = {} /\ offsets = NoFunction
  /\ pc = "send" => cur \in Messages
  /\ pc = "assignLock" => todo = event /\ offsets = NoFunction
  /\ pc \in Assigning => DOMAIN offsets = event
  /\ pc \in {"assignLock"} \cup Assigning =>
       /\ event \subseteq TPs /\ todo \subseteq event /\ event \cap assigned = {}
       /\ ~Cooperative => assigned = {}
  /\ pc \in Revoking =>
       /\ event \subseteq assigned /\ todo \subseteq event
       /\ ~Cooperative => event = assigned
       /\ DOMAIN offsets \subseteq event
  /\ pc \in {"assignWait", "revokeWait", "revokeLock"} => cur \in event \ todo
  /\ pc \in {"revokeWait", "revokeLock"} => StateOf(cur) # None
  /\ \A tp \in DOMAIN offsets : offsets[tp] \in Int

\* The map and the handlers point to states of the partition; a state whose
\* commit loop runs is in the map.
MapOK ==
  /\ stateMap \in [Partitions -> 0 .. Len(ps)]
  /\ \A p \in Partitions : stateMap[p] # None => ps[stateMap[p]].ID = p
  /\ \A h \in handlers : h.ps # None => h.ps \in 1 .. Len(ps) /\ ps[h.ps].ID = Partition(h.tp)
  /\ \A id \in 1 .. Len(ps) : ps[id].loop # "exited" => stateMap[ps[id].ID] = id
  /\ pc = "revokeLock" => ps[StateOf(cur)].loop = "exited"

Kept(tp) == Sole(tp) \/ ~Cooperative
Tracked(tp) == StateOf(tp) # None /\ ~ps[StateOf(tp)].ctxDone
Ended(tp) == StateOf(tp) # None => ps[StateOf(tp)].loop = "exited"

\* The partition's session has begun: it has its new state.
Opened(tp) ==
  \/ tp \in assigned
  \/ pc \in Assigning /\ tp \in event \ todo /\ (pc = "assignWait" => tp # cur)

\* Which partitions have a state whose loop runs, and which have none, also in
\* the middle of a callback.
SessionsOK ==
  /\ pc \notin Revoking => \A tp \in assigned : Kept(tp) => Tracked(tp)
  /\ pc \in Revoking => \A tp \in assigned \ event : Kept(tp) => Tracked(tp)
  /\ pc \in Assigning => \A tp \in event \ todo :
       (pc = "assignWait" => Partition(tp) # Partition(cur)) => Tracked(tp)
  /\ \A tp \in TPs : Sole(tp) /\ ~Opened(tp) => Ended(tp)
  /\ pc \in Revoking => \A tp \in event \ todo :
       Sole(tp) /\ (pc # "revoke" => tp # cur) => Ended(tp)

Unreported(tp) == {o \in Offsets : <<tp, o>> \notin reported}

\* TrackInv of PartitionState, for a partition state q whose unreported messages
\* are U: inside the range of the next scan they are pending, or they lie beyond
\* it; held tells whether the partition is assigned, pos its fetch position.
Covers(q, U, held, pos) ==
  /\ \A o \in U : o \in DOMAIN q.State => q.State[o] = Pending
  /\ \A o \in U : held /\ o < pos => o \in DOMAIN q.State /\ o <= q.MaxReceived
  /\ \A o \in U : ~held \/ pos <= o => q.MaxReceived <= o
  /\ \A o \in U : q.LastCommited <= o
  /\ q.loop \in {"commit", "record"} => \A o \in U : q.latest <= o

Tracks(tp, q) == Covers(q, Unreported(tp), tp \in assigned, position[tp])

TracksOK ==
  \A tp \in TPs : Sole(tp) /\ Opened(tp) /\ StateOf(tp) # None => Tracks(tp, ps[StateOf(tp)])

\* No offset that is committed, or that a callback has read or will commit,
\* passes an unreported message.
CommitsOK ==
  \A tp \in TPs : Sole(tp) => \A o \in Unreported(tp) :
    committed[tp] <= o /\ (tp \in DOMAIN offsets => offsets[tp] <= o)

ConsumerInv == DataOK /\ ControlOK /\ MapOK /\ SessionsOK /\ TracksOK /\ CommitsOK

-----------------------------------------------------------------------------
(***************************************************************************)
(* Maps of message states, and the scan                                    *)
(***************************************************************************)
LEMMA MapFacts ==
  ASSUME NEW m \in StateMaps
  PROVE  /\ DOMAIN m \subseteq Offsets
         /\ \A o \in DOMAIN m : m[o] \in MsgState
  BY DEF StateMaps

LEMMA MapIntro ==
  ASSUME NEW S \in SUBSET Offsets, NEW m \in [S -> MsgState]
  PROVE  m \in StateMaps
  BY DEF StateMaps

\* A map write binds its key and nothing else.
LEMMA PutFacts ==
  ASSUME NEW m \in StateMaps, NEW k \in Offsets, NEW v \in MsgState
  PROVE  /\ Put(m, k, v) \in StateMaps
         /\ DOMAIN Put(m, k, v) = DOMAIN m \cup {k}
         /\ Put(m, k, v)[k] = v
         /\ \A o \in DOMAIN m : o # k => Put(m, k, v)[o] = m[o]
  <1>1. DOMAIN m \subseteq Offsets /\ \A o \in DOMAIN m : m[o] \in MsgState
    BY MapFacts
  <1>2. Put(m, k, v) \in [DOMAIN m \cup {k} -> MsgState]
    BY <1>1 DEF Put
  <1>3. Put(m, k, v) \in StateMaps
    BY <1>1, <1>2, MapIntro
  <1> QED
    BY <1>3 DEF Put

\* A partition state after a scan: only the map, latest and latestTopic have
\* changed, and the map has lost finished entries only.
LEMMA ScanFacts ==
  ASSUME NEW q \in PartitionStates, NEW r \in FindLatestToCommit(q)
  PROVE  /\ r \in PartitionStates
         /\ r.ID = q.ID /\ r.topic = q.topic /\ r.MaxReceived = q.MaxReceived
         /\ r.LastCommited = q.LastCommited /\ r.ctxDone = q.ctxDone /\ r.loop = q.loop
         /\ r.latestTopic = q.topic
         /\ DOMAIN r.State \subseteq DOMAIN q.State
         /\ \A o \in DOMAIN r.State : r.State[o] = q.State[o]
         /\ \A o \in DOMAIN q.State : q.State[o] = Pending => o \in DOMAIN r.State
         /\ IsLatestToCommit(q.State, q.LastCommited, q.MaxReceived, r.latest)
  <1>1. PICK l : /\ l \in DOMAIN q.State \cup {q.MaxReceived} \cup {o + 1 : o \in DOMAIN q.State}
                 /\ IsLatestToCommit(q.State, q.LastCommited, q.MaxReceived, l)
                 /\ r = [q EXCEPT !.State = Pruned(@, q.LastCommited, q.MaxReceived, l),
                                  !.latest = l, !.latestTopic = q.topic]
    BY DEF FindLatestToCommit
  <1>2. DOMAIN q.State \subseteq Offsets /\ \A o \in DOMAIN q.State : q.State[o] \in MsgState
    BY MapFacts DEF PartitionStates
  <1>3. l \in Int
    <2>1. \A o \in DOMAIN q.State : o \in Int /\ o + 1 \in Int
      BY <1>2 DEF Offsets
    <2> QED
      BY <1>1, <2>1 DEF PartitionStates
  <1> DEFINE n == Pruned(q.State, q.LastCommited, q.MaxReceived, l)
  <1>4. /\ DOMAIN n \subseteq DOMAIN q.State
        /\ \A o \in DOMAIN n : n[o] = q.State[o]
        /\ \A o \in DOMAIN q.State : q.State[o] = Pending => o \in DOMAIN n
    BY DEF Pruned, Finished, Scanned
  <1>5. n \in StateMaps
    <2>1. n \in [DOMAIN n -> MsgState]
      BY <1>2, <1>4 DEF Pruned
    <2>2. DOMAIN n \in SUBSET Offsets
      BY <1>2, <1>4
    <2> QED
      BY <2>1, <2>2, MapIntro
  <1> HIDE DEF n
  <1>6. r = [q EXCEPT !.State = n, !.latest = l, !.latestTopic = q.topic]
    BY <1>1 DEF n
  <1> QED
    BY <1>1, <1>3, <1>4, <1>5, <1>6 DEF PartitionStates

\* The scan stops at or before every message that was not reported.
LEMMA ScanIsSafe ==
  ASSUME NEW q \in PartitionStates, NEW r \in FindLatestToCommit(q),
         NEW U \in SUBSET Offsets, NEW held, NEW pos \in Int, Covers(q, U, held, pos), NEW u \in U
  PROVE  r.latest <= u
  <1>1. /\ IsLatestToCommit(q.State, q.LastCommited, q.MaxReceived, r.latest)
        /\ r.latest \in Int
    BY ScanFacts DEF PartitionStates
  <1>2. /\ DOMAIN q.State \subseteq Offsets
        /\ q.LastCommited \in Int /\ q.MaxReceived \in Int
    BY MapFacts DEF PartitionStates
  <1>3. u \in Int /\ \A o \in DOMAIN q.State : o \in Int
    BY <1>2 DEF Offsets
  <1>4. q.LastCommited <= u
    BY DEF Covers
  <1>5. \/ u \in DOMAIN q.State /\ q.State[u] = Pending /\ u <= q.MaxReceived
        \/ q.MaxReceived <= u
    BY <1>3 DEF Covers
  <1>6. CASE u \in DOMAIN q.State /\ q.State[u] = Pending /\ u <= q.MaxReceived
    <2>1. u \in PendingIn(q.State, q.LastCommited, q.MaxReceived)
      BY <1>4, <1>6 DEF PendingIn, Scanned
    <2> QED
      BY <1>1, <2>1 DEF IsLatestToCommit
  <1>7. CASE q.MaxReceived <= u /\ ~(u \in DOMAIN q.State /\ q.State[u] = Pending /\ u <= q.MaxReceived)
    <2>1. \A o \in DOMAIN q.State : q.State[o] # Pending => o # u
      BY DEF Covers
    <2>2. u \notin Scanned(q.State, q.LastCommited, q.MaxReceived)
      BY <1>7, <2>1 DEF Scanned
    <2>3. \A o \in Scanned(q.State, q.LastCommited, q.MaxReceived) : o <= u /\ o # u /\ o \in Int
      BY <1>2, <1>3, <1>7, <2>2 DEF Scanned
    <2>4. PendingIn(q.State, q.LastCommited, q.MaxReceived)
            \subseteq Scanned(q.State, q.LastCommited, q.MaxReceived)
      BY DEF PendingIn
    <2> QED
      BY <1>1, <1>2, <1>3, <1>7, <2>3, <2>4 DEF IsLatestToCommit
  <1> QED
    BY <1>5, <1>6, <1>7

(***************************************************************************)
(* How the operations keep the unreported messages covered                 *)
(***************************************************************************)
LEMMA CoversSame ==
  ASSUME NEW q, NEW r, NEW U, NEW V \in SUBSET U, NEW held, NEW pos, Covers(q, U, held, pos),
         r.State = q.State, r.MaxReceived = q.MaxReceived, r.LastCommited = q.LastCommited,
         r.loop \in {"commit", "record"} => q.loop \in {"commit", "record"} /\ r.latest = q.latest
  PROVE  Covers(r, V, held, pos)
  BY DEF Covers

\* appendMsgState of the message at the fetch position.
LEMMA CoversAppend ==
  ASSUME NEW q \in PartitionStates, NEW r, NEW U \in SUBSET Offsets, NEW pos \in Offsets,
         Covers(q, U, TRUE, pos), r.State = Put(q.State, pos, Pending),
         r.MaxReceived = (IF q.MaxReceived < pos THEN pos ELSE q.MaxReceived),
         r.LastCommited = q.LastCommited, r.loop = q.loop, r.latest = q.latest
  PROVE  Covers(r, U, TRUE, pos + 1)
  <1>1. q.State \in StateMaps /\ q.MaxReceived \in Int /\ pos \in Int /\ Pending \in MsgState
    BY DEF PartitionStates, Offsets, MsgState
  <1>2. \A o \in U : o \in Int
    BY DEF Offsets
  <1>3. /\ DOMAIN r.State = DOMAIN q.State \cup {pos} /\ r.State[pos] = Pending
        /\ \A o \in DOMAIN q.State : o # pos => r.State[o] = q.State[o]
    <2> DEFINE m == Put(q.State, pos, Pending)
    <2>1. /\ DOMAIN m = DOMAIN q.State \cup {pos} /\ m[pos] = Pending
          /\ \A o \in DOMAIN q.State : o # pos => m[o] = q.State[o]
      BY <1>1, PutFacts
    <2>2. r.State = m
      OBVIOUS
    <2> HIDE DEF m
    <2> QED
      BY <2>1, <2>2
  <1>4. r.MaxReceived \in Int /\ q.MaxReceived <= r.MaxReceived /\ pos <= r.MaxReceived
    BY <1>1
  <1>5. \A o \in U : o \in DOMAIN r.State => r.State[o] = Pending
    BY <1>3 DEF Covers
  <1>6. \A o \in U : o < pos + 1 => o \in DOMAIN r.State /\ o <= r.MaxReceived
    <2>1. ASSUME NEW o \in U, o < pos + 1 PROVE o = pos \/ o < pos
      BY <1>1, <1>2, <2>1
    <2>2. ASSUME NEW o \in U, o < pos PROVE o \in DOMAIN r.State /\ o <= r.MaxReceived
      BY <1>1, <1>2, <1>3, <1>4, <2>2 DEF Covers
    <2> QED
      BY <1>3, <1>4, <2>1, <2>2
  <1>7. \A o \in U : pos + 1 <= o => r.MaxReceived <= o
    BY <1>1, <1>2 DEF Covers
  <1> QED
    BY <1>5, <1>6, <1>7 DEF Covers

\* A report for a message that is thereby no longer unreported.
LEMMA CoversWrite ==
  ASSUME NEW q \in PartitionStates, NEW r, NEW U \in SUBSET Offsets, NEW V \in SUBSET U,
         NEW held, NEW pos, Covers(q, U, held, pos),
         NEW k \in Offsets, NEW s \in MsgState, k \notin V, r.State = Put(q.State, k, s),
         r.MaxReceived = q.MaxReceived, r.LastCommited = q.LastCommited,
         r.loop = q.loop, r.latest = q.latest
  PROVE  Covers(r, V, held, pos)
  <1>1. q.State \in StateMaps
    BY DEF PartitionStates
  <1>2. /\ DOMAIN r.State = DOMAIN q.State \cup {k}
        /\ \A o \in DOMAIN q.State : o # k => r.State[o] = q.State[o]
    <2> DEFINE m == Put(q.State, k, s)
    <2>1. /\ DOMAIN m = DOMAIN q.State \cup {k}
          /\ \A o \in DOMAIN q.State : o # k => m[o] = q.State[o]
      BY <1>1, PutFacts
    <2>2. r.State = m
      OBVIOUS
    <2> HIDE DEF m
    <2> QED
      BY <2>1, <2>2
  <1> QED
    BY <1>2 DEF Covers

LEMMA CoversScan ==
  ASSUME NEW q \in PartitionStates, NEW r \in FindLatestToCommit(q), NEW n,
         NEW U \in SUBSET Offsets, NEW V \in SUBSET U, NEW held, NEW pos \in Int,
         Covers(q, U, held, pos), n.State = r.State, n.latest = r.latest,
         n.MaxReceived = q.MaxReceived, n.LastCommited = q.LastCommited
  PROVE  Covers(n, V, held, pos)
  <1>1. /\ DOMAIN r.State \subseteq DOMAIN q.State
        /\ \A o \in DOMAIN r.State : r.State[o] = q.State[o]
        /\ \A o \in DOMAIN q.State : q.State[o] = Pending => o \in DOMAIN r.State
    BY ScanFacts
  <1>2. \A u \in U : r.latest <= u
    BY ScanIsSafe
  <1> QED
    BY <1>1, <1>2 DEF Covers

LEMMA CoversRecord ==
  ASSUME NEW q \in PartitionStates, NEW r, NEW U \in SUBSET Offsets, NEW V \in SUBSET U,
         NEW held, NEW pos, Covers(q, U, held, pos), q.loop = "record",
         r.State = q.State, r.LastCommited = q.latest, r.loop = "idle",
         r.MaxReceived = (IF q.latest > q.MaxReceived THEN q.latest ELSE q.MaxReceived)
  PROVE  Covers(r, V, held, pos)
  <1>1. q.latest \in Int /\ q.MaxReceived \in Int /\ \A o \in U : o \in Int
    BY DEF PartitionStates, Offsets
  <1>2. \A o \in U : q.latest <= o
    BY DEF Covers
  <1>3. q.MaxReceived <= r.MaxReceived /\ r.MaxReceived \in {q.latest, q.MaxReceived}
    BY <1>1
  <1>4. \A o \in U : held /\ o < pos => o \in DOMAIN r.State /\ o <= r.MaxReceived
    BY <1>1, <1>3 DEF Covers
  <1>5. \A o \in U : ~held \/ pos <= o => r.MaxReceived <= o
    BY <1>2, <1>3 DEF Covers
  <1> QED
    BY <1>2, <1>4, <1>5 DEF Covers

\* A new state covers a partition whose start offset passes nothing unreported.
LEMMA CoversNew ==
  ASSUME NEW tp \in TPs, NEW start \in Int, NEW U \in SUBSET Offsets, NEW pos,
         \A o \in U : start <= o
  PROVE  Covers(NewPartitionState(tp, start), U, FALSE, pos)
  <1>1. \A o \in U : o \in Int /\ 0 <= o
    BY DEF Offsets
  <1> DEFINE r == NewPartitionState(tp, start)
  <1>2. DOMAIN r.State = {} /\ r.MaxReceived = start /\ r.loop = "idle"
    BY DEF NewPartitionState
  <1>3. \A o \in U : r.LastCommited <= o
    BY <1>1 DEF NewPartitionState
  <1> HIDE DEF r
  <1>4. Covers(r, U, FALSE, pos)
    BY <1>2, <1>3 DEF Covers
  <1> QED
    BY <1>4 DEF r

\* Assign starts fetching where no unreported message lies before it.
LEMMA CoversAssign ==
  ASSUME NEW q \in PartitionStates, NEW U \in SUBSET Offsets, NEW V \in SUBSET U, NEW pos,
         NEW start \in Int, Covers(q, U, FALSE, pos), \A o \in U : start <= o
  PROVE  Covers(q, V, TRUE, start)
  <1>1. \A o \in U : o \in Int
    BY DEF Offsets
  <1> QED
    BY <1>1 DEF Covers

-----------------------------------------------------------------------------
(***************************************************************************)
(* What each operation does to the partition states                        *)
(***************************************************************************)
\* Only the state with this index has changed, and it is still one of its
\* partition.
Changed(id) ==
  /\ id \in 1 .. Len(ps)
  /\ ps' \in Seq(PartitionStates) /\ Len(ps') = Len(ps)
  /\ ps[id] \in PartitionStates /\ ps'[id] \in PartitionStates
  /\ ps'[id].ID = ps[id].ID
  /\ \A j \in 1 .. Len(ps) : j # id => ps'[j] = ps[j]

LEMMA ChangeOne ==
  ASSUME ps \in Seq(PartitionStates), NEW id \in 1 .. Len(ps), NEW q \in PartitionStates,
         q.ID = ps[id].ID, ps' = [ps EXCEPT ![id] = q]
  PROVE  Changed(id) /\ ps'[id] = q
  BY DEF Changed

\* A partition of the map that has a state.
LEMMA MapEntry ==
  ASSUME MapOK, NEW p \in Partitions, stateMap[p] # None
  PROVE  stateMap[p] \in 1 .. Len(ps) /\ ps[stateMap[p]].ID = p
  BY DEF MapOK, None

LEMMA TPFacts ==
  ASSUME NEW tp \in TPs
  PROVE  Topic(tp) \in Topics /\ Partition(tp) \in Partitions /\ tp = <<Topic(tp), Partition(tp)>>
  BY ConsumerAssumption DEF Topic, Partition

\* The fields of a state that a change leaves alone.
SameTopics(q, r) == r.topic = q.topic /\ r.latestTopic = q.latestTopic
SameOffsets(q, r) == r.MaxReceived = q.MaxReceived /\ r.LastCommited = q.LastCommited
SameLoop(q, r) == r.ctxDone = q.ctxDone /\ r.loop = q.loop /\ r.latest = q.latest

LEMMA AppendEffect ==
  ASSUME DataOK, MapOK, NEW tp \in TPs, Receive(tp), StateOf(tp) # None
  PROVE  LET id == StateOf(tp)  o == position[tp]  q == ps[id]  r == ps'[id]
         IN  /\ Changed(id) /\ o \in Offsets
             /\ r.State = Put(q.State, o, Pending)
             /\ r.MaxReceived = (IF q.MaxReceived < o THEN o ELSE q.MaxReceived)
             /\ r.LastCommited = q.LastCommited /\ SameLoop(q, r)
             /\ r.latestTopic = q.latestTopic /\ r.topic \in {q.topic, Topic(tp)}
  <1> DEFINE id == StateOf(tp)  o == position[tp]  q == ps[id]
             m == Put(q.State, o, Pending)
             n == IF q.MaxReceived < o THEN o ELSE q.MaxReceived
             t == IF q.MaxReceived < o THEN Topic(tp) ELSE q.topic
             a == [q EXCEPT !.State = m, !.MaxReceived = n, !.topic = t]
  <1>1. id \in 1 .. Len(ps) /\ q.ID = Partition(tp) /\ Topic(tp) \in Topics
    BY MapEntry, TPFacts DEF StateOf
  <1>2. o \in Offsets /\ o \in Int
    BY ConsumerAssumption DEF Receive, DataOK, Offsets
  <1>3. q \in PartitionStates
    BY <1>1 DEF DataOK
  <1>4. q.State \in StateMaps /\ q.MaxReceived \in Int /\ q.topic \in Topics
    BY <1>3 DEF PartitionStates
  <1>5. m \in StateMaps
    BY <1>2, <1>4, PutFacts DEF MsgState
  <1>6. n \in Int /\ t \in Topics /\ t \in {q.topic, Topic(tp)}
    BY <1>1, <1>2, <1>4
  <1>7. ps' = [ps EXCEPT ![id] = a]
    BY DEF Receive, AppendMsgState
  <1> HIDE DEF m, n, t
  <1>8. /\ a \in PartitionStates /\ a.ID = q.ID /\ a.State = m /\ a.MaxReceived = n
        /\ a.LastCommited = q.LastCommited /\ SameLoop(q, a)
        /\ a.latestTopic = q.latestTopic /\ a.topic = t
    BY <1>3, <1>5, <1>6 DEF PartitionStates, SameLoop
  <1> HIDE DEF a
  <1>9. Changed(id) /\ ps'[id] = a
    BY <1>1, <1>7, <1>8, ChangeOne DEF DataOK
  <1> QED
    BY <1>2, <1>6, <1>8, <1>9 DEF m, n

\* UpdateState writes one entry of one map.
LEMMA WriteEffect ==
  ASSUME DataOK, NEW id \in 1 .. Len(ps), NEW o \in Offsets, NEW s \in MsgState,
         ps' = [ps EXCEPT ![id].State = Put(@, o, s)]
  PROVE  LET q == ps[id]  r == ps'[id]
         IN  /\ Changed(id) /\ r.State = Put(q.State, o, s)
             /\ SameTopics(q, r) /\ SameOffsets(q, r) /\ SameLoop(q, r)
  <1> DEFINE q == ps[id]  a == [q EXCEPT !.State = Put(q.State, o, s)]
  <1>1. q \in PartitionStates
    BY DEF DataOK
  <1>2. q.State \in StateMaps
    BY <1>1 DEF PartitionStates
  <1>3. Put(q.State, o, s) \in StateMaps
    BY <1>2, PutFacts
  <1>4. /\ a \in PartitionStates /\ a.ID = q.ID /\ a.State = Put(q.State, o, s)
        /\ SameTopics(q, a) /\ SameOffsets(q, a) /\ SameLoop(q, a)
    BY <1>1, <1>3 DEF PartitionStates, SameTopics, SameOffsets, SameLoop
  <1>5. ps' = [ps EXCEPT ![id] = a]
    OBVIOUS
  <1> HIDE DEF a
  <1>6. Changed(id) /\ ps'[id] = a
    BY <1>4, <1>5, ChangeOne DEF DataOK
  <1> QED
    BY <1>4, <1>6

\* Steps that only change the loop of a state, or cancel its context.
LEMMA LoopEffect ==
  ASSUME DataOK, NEW id \in 1 .. Len(ps), NEW l \in Loops, ps' = [ps EXCEPT ![id].loop = l]
  PROVE  LET q == ps[id]  r == ps'[id]
         IN  /\ Changed(id) /\ r.State = q.State /\ r.loop = l
             /\ SameTopics(q, r) /\ SameOffsets(q, r)
             /\ r.latest = q.latest /\ r.ctxDone = q.ctxDone
  <1> DEFINE q == ps[id]  a == [q EXCEPT !.loop = l]
  <1>1. q \in PartitionStates
    BY DEF DataOK
  <1>2. /\ a \in PartitionStates /\ a.ID = q.ID /\ a.State = q.State /\ a.loop = l
        /\ SameTopics(q, a) /\ SameOffsets(q, a) /\ a.latest = q.latest /\ a.ctxDone = q.ctxDone
    BY <1>1 DEF PartitionStates, SameTopics, SameOffsets
  <1>3. ps' = [ps EXCEPT ![id] = a]
    OBVIOUS
  <1> HIDE DEF a
  <1>4. Changed(id) /\ ps'[id] = a
    BY <1>2, <1>3, ChangeOne DEF DataOK
  <1> QED
    BY <1>2, <1>4

LEMMA CancelEffect ==
  ASSUME DataOK, NEW id \in 1 .. Len(ps), ps' = [ps EXCEPT ![id].ctxDone = TRUE]
  PROVE  LET q == ps[id]  r == ps'[id]
         IN  /\ Changed(id) /\ r.State = q.State /\ r.ctxDone = TRUE
             /\ SameTopics(q, r) /\ SameOffsets(q, r)
             /\ r.latest = q.latest /\ r.loop = q.loop
  <1> DEFINE q == ps[id]  a == [q EXCEPT !.ctxDone = TRUE]
  <1>1. q \in PartitionStates
    BY DEF DataOK
  <1>2. /\ a \in PartitionStates /\ a.ID = q.ID /\ a.State = q.State /\ a.ctxDone = TRUE
        /\ SameTopics(q, a) /\ SameOffsets(q, a) /\ a.latest = q.latest /\ a.loop = q.loop
    BY <1>1 DEF PartitionStates, SameTopics, SameOffsets
  <1>3. ps' = [ps EXCEPT ![id] = a]
    OBVIOUS
  <1> HIDE DEF a
  <1>4. Changed(id) /\ ps'[id] = a
    BY <1>2, <1>3, ChangeOne DEF DataOK
  <1> QED
    BY <1>2, <1>4

LEMMA RecordEffect ==
  ASSUME DataOK, NEW id \in 1 .. Len(ps), RecordCommit(id)
  PROVE  LET q == ps[id]  r == ps'[id]
         IN  /\ Changed(id) /\ r.State = q.State /\ r.loop = "idle" /\ r.LastCommited = q.latest
             /\ r.MaxReceived = (IF q.latest > q.MaxReceived THEN q.latest ELSE q.MaxReceived)
             /\ SameTopics(q, r) /\ r.latest = q.latest /\ r.ctxDone = q.ctxDone
  <1> DEFINE q == ps[id]
             m == IF q.latest > q.MaxReceived THEN q.latest ELSE q.MaxReceived
             a == [q EXCEPT !.LastCommited = q.latest, !.MaxReceived = m, !.loop = "idle"]
  <1>1. q \in PartitionStates
    BY DEF DataOK
  <1>2. m \in Int
    BY <1>1 DEF PartitionStates
  <1>3. ps' = [ps EXCEPT ![id] = a]
    BY <1>1 DEF RecordCommit, PartitionStates
  <1> HIDE DEF m
  <1>4. /\ a \in PartitionStates /\ a.ID = q.ID /\ a.State = q.State /\ a.loop = "idle"
        /\ a.LastCommited = q.latest /\ a.MaxReceived = m
        /\ SameTopics(q, a) /\ a.latest = q.latest /\ a.ctxDone = q.ctxDone
    BY <1>1, <1>2 DEF PartitionStates, SameTopics, Loops
  <1> HIDE DEF a
  <1>5. Changed(id) /\ ps'[id] = a
    BY <1>3, <1>4, ChangeOne DEF DataOK
  <1> QED
    BY <1>4, <1>5 DEF m

\* A scan's result r is stored, with the loop at l.
LEMMA ScanEffect ==
  ASSUME DataOK, NEW id \in 1 .. Len(ps), NEW r \in FindLatestToCommit(ps[id]), NEW l \in Loops,
         ps' = [ps EXCEPT ![id] = [r EXCEPT !.loop = l]]
  PROVE  LET q == ps[id]
         IN  /\ Changed(id)
             /\ ps'[id].State = r.State /\ ps'[id].latest = r.latest /\ ps'[id].loop = l
             /\ ps'[id].topic = q.topic /\ ps'[id].latestTopic = q.topic
             /\ SameOffsets(q, ps'[id]) /\ ps'[id].ctxDone = q.ctxDone
  <1> DEFINE q == ps[id]  a == [r EXCEPT !.loop = l]
  <1>1. q \in PartitionStates
    BY DEF DataOK
  <1>2. /\ r \in PartitionStates /\ r.ID = q.ID /\ r.topic = q.topic /\ SameOffsets(q, r)
        /\ r.ctxDone = q.ctxDone /\ r.latestTopic = q.topic
    BY <1>1, ScanFacts DEF SameOffsets
  <1>3. /\ a \in PartitionStates /\ a.ID = q.ID /\ a.State = r.State /\ a.latest = r.latest
        /\ a.loop = l /\ a.topic = r.topic /\ a.latestTopic = r.latestTopic
        /\ SameOffsets(r, a) /\ a.ctxDone = r.ctxDone
    BY <1>2 DEF PartitionStates, SameOffsets
  <1> HIDE DEF a
  <1>4. Changed(id) /\ ps'[id] = a
    BY <1>3, ChangeOne DEF DataOK, a
  <1> QED
    BY <1>2, <1>3, <1>4 DEF SameOffsets

\* assignPrntCB puts a new state behind the others.
LEMMA NewEffect ==
  ASSUME DataOK, ControlOK, AssignState
  PROVE  LET id == Len(ps) + 1  r == ps'[id]
         IN  /\ cur \in TPs /\ offsets[cur] \in Int
             /\ ps' \in Seq(PartitionStates) /\ Len(ps') = id /\ id \in Nat
             /\ \A j \in 1 .. Len(ps) : ps'[j] = ps[j]
             /\ r \in PartitionStates
             /\ r = NewPartitionState(cur, offsets[cur])
  <1>1. cur \in TPs /\ offsets[cur] \in Int
    BY DEF AssignState, ControlOK, Assigning
  <1>2. Topic(cur) \in Topics /\ Partition(cur) \in Partitions
    BY <1>1, TPFacts
  <1>3. [o \in {} |-> Pending] \in StateMaps
    <2>1. [o \in {} |-> Pending] \in [{} -> MsgState]
      OBVIOUS
    <2> QED
      BY <2>1, MapIntro
  <1>4. NewPartitionState(cur, offsets[cur]) \in PartitionStates
    BY <1>1, <1>2, <1>3 DEF NewPartitionState, PartitionStates, Loops, NoOffset
  <1>5. ps' = Append(ps, NewPartitionState(cur, offsets[cur]))
    BY DEF AssignState
  <1> QED
    BY <1>1, <1>4, <1>5 DEF DataOK

-----------------------------------------------------------------------------
(***************************************************************************)
(* The data keeps its types                                                *)
(***************************************************************************)
groupData == <<leaked, assigned, position, committed, reported, handlers>>

\* A change of one state keeps the states typed if its topics have the partition.
LEMMA ChangeKeepsStates ==
  ASSUME DataOK, NEW id, Changed(id),
         <<ps'[id].topic, ps[id].ID>> \in TPs, <<ps'[id].latestTopic, ps[id].ID>> \in TPs
  PROVE  /\ ps' \in Seq(PartitionStates)
         /\ \A j \in 1 .. Len(ps') : <<ps'[j].topic, ps'[j].ID>> \in TPs
                                     /\ <<ps'[j].latestTopic, ps'[j].ID>> \in TPs
  BY DEF DataOK, Changed

LEMMA NextData ==
  ASSUME DataOK, ControlOK, MapOK, Next
  PROVE  DataOK'
  <1> USE DEF psVars, loopVars, groupVars, envVars
  <1> DEFINE StatesOK ==
        /\ ps \in Seq(PartitionStates)
        /\ \A j \in 1 .. Len(ps) : <<ps[j].topic, ps[j].ID>> \in TPs
                                   /\ <<ps[j].latestTopic, ps[j].ID>> \in TPs
  <1>0. StatesOK
    BY DEF DataOK
  <1>1. ASSUME NEW id \in 1 .. Len(ps), Changed(id), SameTopics(ps[id], ps'[id]) PROVE StatesOK'
    BY <1>1, ChangeKeepsStates DEF DataOK, SameTopics
  <1>2. CASE UNCHANGED ps /\ UNCHANGED groupData
    BY <1>2 DEF DataOK, groupData
  <1>3. ASSUME NEW tp \in TPs, Receive(tp) PROVE DataOK'
    <2>1. StatesOK'
      <3>1. CASE StateOf(tp) = None
        BY <1>0, <1>3, <3>1 DEF Receive
      <3>2. CASE StateOf(tp) # None
        <4>1. ps[StateOf(tp)].ID = Partition(tp) /\ StateOf(tp) \in 1 .. Len(ps)
          BY <3>2, MapEntry, TPFacts DEF StateOf
        <4>2. <<Topic(tp), Partition(tp)>> \in TPs
          BY TPFacts
        <4>3. /\ Changed(StateOf(tp))
              /\ ps'[StateOf(tp)].latestTopic = ps[StateOf(tp)].latestTopic
              /\ ps'[StateOf(tp)].topic \in {ps[StateOf(tp)].topic, Topic(tp)}
          BY <1>3, <3>2, AppendEffect
        <4>4. /\ <<ps[StateOf(tp)].topic, ps[StateOf(tp)].ID>> \in TPs
              /\ <<ps[StateOf(tp)].latestTopic, ps[StateOf(tp)].ID>> \in TPs
          BY <4>1 DEF DataOK
        <4> QED
          BY <4>1, <4>2, <4>3, <4>4, ChangeKeepsStates
      <3> QED
        BY <3>1, <3>2
    <2>2. position' \in [TPs -> Nat]
      BY <1>3 DEF Receive, DataOK
    <2> QED
      BY <1>3, <2>1, <2>2 DEF Receive, DataOK
  <1>4. CASE Enqueue
    <2>1. stateMap[Partition(cur[1])] \in Nat /\ cur[1] \in TPs /\ cur[2] \in Offsets
      BY <1>4, TPFacts DEF Enqueue, ControlOK, Messages, MapOK
    <2>2. [tp |-> cur[1], off |-> cur[2], ps |-> None, session |-> StateOf(cur[1])]
            \in [tp : TPs, off : Offsets, ps : Nat, session : Nat]
      BY <2>1 DEF StateOf, None
    <2> QED
      BY <1>4, <2>2 DEF Enqueue, DataOK
  <1>5. CASE Drop
    <2>1. cur[1] \in TPs /\ cur[2] \in Offsets /\ cur \in Messages /\ Error \in MsgState
      BY <1>5 DEF Drop, ControlOK, Messages, MsgState
    <2>2. CASE StateOf(cur[1]) = None
      BY <1>5, <2>1, <2>2 DEF Drop, DataOK
    <2>3. CASE StateOf(cur[1]) # None
      <3>1. StateOf(cur[1]) \in 1 .. Len(ps)
        BY <2>1, <2>3, MapEntry, TPFacts DEF StateOf
      <3>2. StatesOK'
        BY <1>1, <1>5, <2>1, <2>3, <3>1, WriteEffect DEF Drop
      <3> QED
        BY <1>5, <2>1, <2>3, <3>2 DEF Drop, DataOK
    <2> QED
      BY <2>2, <2>3
  <1>6. ASSUME NEW h \in handlers, Lookup(h) PROVE DataOK'
    <2>1. stateMap[Partition(h.tp)] \in Nat
      BY TPFacts DEF MapOK, DataOK
    <2>2. [h EXCEPT !.ps = StateOf(h.tp)] \in [tp : TPs, off : Offsets, ps : Nat, session : Nat]
      BY <2>1 DEF DataOK, StateOf
    <2> QED
      BY <1>6, <2>2 DEF Lookup, DataOK
  <1>7. ASSUME NEW h \in handlers, LookupMissing(h) PROVE DataOK'
    BY <1>7 DEF LookupMissing, DataOK, Messages
  <1>8. ASSUME NEW h \in handlers, NEW s \in MsgState, WriteState(h, s) PROVE DataOK'
    <2>1. h.ps \in 1 .. Len(ps) /\ h.off \in Offsets /\ h.tp \in TPs
      BY <1>8 DEF WriteState, MapOK, DataOK
    <2>2. StatesOK'
      BY <1>1, <1>8, <2>1, WriteEffect DEF WriteState
    <2> QED
      BY <1>8, <2>1, <2>2 DEF WriteState, DataOK, Messages
  <1>9. ASSUME NEW id \in DOMAIN ps, CommitLoop(id) PROVE DataOK'
    <2>0. id \in 1 .. Len(ps) /\ ps[id] \in PartitionStates
      BY DEF DataOK
    <2>1. CASE CommitTick(id)
      <3>1. PICK r \in FindLatestToCommit(ps[id]) : ps' = [ps EXCEPT ![id] = [r EXCEPT !.loop = "commit"]]
        BY <2>1 DEF CommitTick
      <3>2. Changed(id) /\ ps'[id].topic = ps[id].topic /\ ps'[id].latestTopic = ps[id].topic
        BY <2>0, <3>1, ScanEffect DEF Loops
      <3>3. StatesOK'
        BY <1>0, <2>0, <3>2, ChangeKeepsStates
      <3> QED
        BY <2>1, <3>3 DEF CommitTick, DataOK
    <2>2. CASE CommitOk(id) \/ CommitErr(id)
      <3>1. StatesOK'
        BY <1>1, <2>0, <2>2, LoopEffect DEF CommitOk, CommitErr, Loops
      <3>2. committed' \in [TPs -> Int]
        BY <2>0, <2>2 DEF CommitOk, CommitErr, DataOK, PartitionStates
      <3> QED
        BY <2>2, <3>1, <3>2 DEF CommitOk, CommitErr, DataOK
    <2>3. CASE RecordCommit(id)
      <3>1. StatesOK'
        BY <1>1, <2>0, <2>3, RecordEffect
      <3> QED
        BY <2>3, <3>1 DEF RecordCommit, DataOK
    <2>4. CASE LoopExit(id)
      <3>1. StatesOK'
        BY <1>1, <2>0, <2>4, LoopEffect DEF LoopExit, Loops
      <3> QED
        BY <2>4, <3>1 DEF LoopExit, DataOK
    <2> QED
      BY <1>9, <2>1, <2>2, <2>3, <2>4 DEF CommitLoop
  <1>10. ASSUME NEW tp \in TPs, AssignNext(tp) \/ RevokeCancel(tp) PROVE DataOK'
    <2>1. StatesOK'
      <3>1. CASE UNCHANGED ps
        BY <1>0, <3>1
      <3>2. CASE StateOf(tp) # None /\ ps' = [ps EXCEPT ![StateOf(tp)].ctxDone = TRUE]
        <4>1. StateOf(tp) \in 1 .. Len(ps)
          BY <3>2, MapEntry, TPFacts DEF StateOf
        <4> QED
          BY <1>1, <3>2, <4>1, CancelEffect
      <3> QED
        BY <1>10, <3>1, <3>2 DEF AssignNext, RevokeCancel
    <2> QED
      BY <1>10, <2>1 DEF AssignNext, RevokeCancel, DataOK
  <1>11. CASE AssignState
    <2>1. StatesOK'
      <3> DEFINE id == Len(ps) + 1
      <3>1. /\ cur \in TPs
            /\ ps' \in Seq(PartitionStates) /\ Len(ps') = id /\ id \in Nat
            /\ \A j \in 1 .. Len(ps) : ps'[j] = ps[j]
            /\ ps'[id] = NewPartitionState(cur, offsets[cur])
        BY <1>11, NewEffect
      <3>2. <<ps'[id].topic, ps'[id].ID>> \in TPs /\ <<ps'[id].latestTopic, ps'[id].ID>> \in TPs
        BY <3>1, TPFacts DEF NewPartitionState
      <3>3. Len(ps) \in Nat
        BY DEF DataOK
      <3> HIDE DEF id
      <3>4. \A j \in 1 .. Len(ps') : j \in 1 .. Len(ps) \/ j = id
        BY <3>1, <3>3 DEF id
      <3> QED
        BY <1>0, <3>1, <3>2, <3>4
    <2> QED
      BY <1>11, <2>1 DEF AssignState, DataOK
  <1>12. CASE AssignDone
    BY <1>12 DEF AssignDone, DataOK, ControlOK, Assigning
  <1>13. CASE RevokeFind
    <2>1. CASE UNCHANGED ps
      BY <1>13, <2>1 DEF RevokeFind, DataOK
    <2>2. ASSUME NEW q \in FindLatestToCommit(ps[StateOf(cur)]), ps' = [ps EXCEPT ![StateOf(cur)] = q]
          PROVE  StatesOK'
      <3>1. cur \in TPs /\ StateOf(cur) # None
        BY <1>13 DEF RevokeFind, ControlOK, Revoking, DataOK
      <3>2. StateOf(cur) \in 1 .. Len(ps) /\ ps[StateOf(cur)] \in PartitionStates
        BY <3>1, MapEntry, TPFacts DEF StateOf, DataOK
      <3>3. /\ q \in PartitionStates /\ q.ID = ps[StateOf(cur)].ID
            /\ q.topic = ps[StateOf(cur)].topic /\ q.latestTopic = ps[StateOf(cur)].topic
        BY <2>2, <3>2, ScanFacts
      <3>4. Changed(StateOf(cur)) /\ ps'[StateOf(cur)] = q
        BY <2>2, <3>2, <3>3, ChangeOne DEF DataOK
      <3> QED
        BY <1>0, <3>2, <3>3, <3>4, ChangeKeepsStates
    <2> QED
      BY <1>13, <2>1, <2>2 DEF RevokeFind, DataOK
  <1>14. CASE RevokeDone
    <2>1. committed' \in [TPs -> Int]
      BY <1>14 DEF RevokeDone, DataOK, ControlOK
    <2> QED
      BY <1>14, <2>1 DEF RevokeDone, DataOK
  <1>15. ASSUME NEW tp \in TPs, NEW o \in Offsets, OtherMember(tp, o) PROVE DataOK'
    <2>1. {<<tp, p>> : p \in 0 .. o} \subseteq Messages
      BY ConsumerAssumption DEF Messages, Offsets
    <2>2. o + 1 \in Int
      BY DEF Offsets
    <2> QED
      BY <1>15, <2>1, <2>2 DEF OtherMember, DataOK
  <1>16. CASE Crash
    BY <1>16 DEF Crash, DataOK
  <1>17. CASE Startup \/ SkipUndecodable \/ AssignLock \/ RevokeDelete
                \/ (\E S \in SUBSET TPs : AssignEvent(S) \/ RevokeEvent(S))
                \/ (\E tp \in TPs : RevokeMissing(tp))
    BY <1>2, <1>17 DEF Startup, InitializeKafkaTopic, WaitForTopicReady, SubscribeTopics,
         SkipUndecodable, AssignLock, RevokeDelete, AssignEvent, RevokeEvent, RevokeMissing,
         groupData
  <1> QED
    BY <1>3, <1>4, <1>5, <1>6, <1>7, <1>8, <1>9, <1>10, <1>11, <1>12, <1>13, <1>14, <1>15,
       <1>16, <1>17 DEF Next, Rebalance

-----------------------------------------------------------------------------
(***************************************************************************)
(* The consume loop's registers                                            *)
(***************************************************************************)
\* Steps of handlers, of commit loops and of other members.
Elsewhere ==
  \/ \E h \in handlers : Lookup(h) \/ LookupMissing(h)
  \/ \E h \in handlers, s \in MsgState : WriteState(h, s)
  \/ \E id \in DOMAIN ps : CommitLoop(id)
  \/ \E tp \in TPs, o \in Offsets : OtherMember(tp, o)

LEMMA ElsewhereKeeps ==
  ASSUME Elsewhere
  PROVE  UNCHANGED <<pc, event, todo, cur, offsets, stateMap, assigned, position>>
  BY DEF Elsewhere, Lookup, LookupMissing, WriteState, CommitLoop, CommitTick, CommitOk,
         CommitErr, RecordCommit, LoopExit, OtherMember, psVars, loopVars, groupVars

LEMMA NextControl ==
  ASSUME DataOK, ControlOK, MapOK, Next
  PROVE  ControlOK'
  <1> USE DEF psVars, loopVars, groupVars, envVars, Assigning, Revoking, StateOf
  <1>1. CASE Elsewhere
    BY <1>1, ElsewhereKeeps DEF ControlOK
  <1>2. CASE Startup
    BY <1>2 DEF Startup, InitializeKafkaTopic, WaitForTopicReady, SubscribeTopics, ControlOK
  <1>3. ASSUME NEW tp \in TPs, Receive(tp) PROVE ControlOK'
    <2>1. <<tp, position[tp]>> \in Messages
      BY <1>3, ConsumerAssumption DEF Receive, DataOK, Messages, Offsets
    <2> QED
      BY <1>3, <2>1 DEF Receive, ControlOK
  <1>4. CASE Enqueue \/ Drop \/ SkipUndecodable
    BY <1>4 DEF Enqueue, Drop, SkipUndecodable, ControlOK
  <1>5. ASSUME NEW S \in SUBSET TPs, AssignEvent(S) PROVE ControlOK'
    BY <1>5 DEF AssignEvent, ControlOK
  <1>6. ASSUME NEW S \in SUBSET TPs, RevokeEvent(S) PROVE ControlOK'
    BY <1>6 DEF RevokeEvent, ControlOK, NoFunction
  <1>7. CASE AssignLock
    <2>1. event \subseteq TPs
      BY <1>7 DEF AssignLock, ControlOK
    <2>2. DOMAIN offsets' = event /\ \A tp \in event : offsets'[tp] \in Int
      BY <1>7, <2>1 DEF AssignLock, DataOK, OffsetBeginning
    <2> QED
      BY <1>7, <2>2 DEF AssignLock, ControlOK
  <1>8. ASSUME NEW tp \in TPs, AssignNext(tp) PROVE ControlOK'
    BY <1>8 DEF AssignNext, ControlOK
  <1>9. CASE AssignState
    BY <1>9 DEF AssignState, ControlOK
  <1>10. CASE AssignDone
    BY <1>10 DEF AssignDone, ControlOK, NoFunction
  <1>11. ASSUME NEW tp \in TPs, RevokeMissing(tp) PROVE ControlOK'
    BY <1>11 DEF RevokeMissing, ControlOK
  <1>12. ASSUME NEW tp \in TPs, RevokeCancel(tp) PROVE ControlOK'
    BY <1>12 DEF RevokeCancel, ControlOK
  <1>13. CASE RevokeFind
    <2>1. CASE UNCHANGED <<ps, offsets>> /\ pc' = "revoke"
      BY <1>13, <2>1 DEF RevokeFind, ControlOK
    <2>2. ASSUME NEW q \in FindLatestToCommit(ps[StateOf(cur)]),
                 offsets' = IF q.latest >= 0 THEN Put(offsets, cur, q.latest) ELSE offsets,
                 pc' = "revokeLock", UNCHANGED cur
          PROVE  ControlOK'
      <3>1. cur \in TPs /\ StateOf(cur) # None /\ cur \in event
        BY <1>13 DEF RevokeFind, ControlOK, DataOK
      <3>2. StateOf(cur) \in 1 .. Len(ps) /\ ps[StateOf(cur)] \in PartitionStates
        BY <3>1, MapEntry, TPFacts DEF DataOK
      <3>3. q.latest \in Int
        BY <2>2, <3>2, ScanFacts DEF PartitionStates
      <3>4. DOMAIN offsets' \subseteq event /\ \A tp \in DOMAIN offsets' : offsets'[tp] \in Int
        BY <1>13, <2>2, <3>1, <3>3 DEF RevokeFind, ControlOK, Put
      <3> QED
        BY <1>13, <2>2, <3>4 DEF RevokeFind, ControlOK
    <2> QED
      BY <1>13, <2>1, <2>2 DEF RevokeFind
  <1>14. CASE RevokeDelete
    BY <1>14 DEF RevokeDelete, ControlOK
  <1>15. CASE RevokeDone
    BY <1>15 DEF RevokeDone, ControlOK, NoFunction
  <1>16. CASE Crash
    BY <1>16 DEF Crash, ControlOK, NoFunction
  <1> QED
    BY <1>1, <1>2, <1>3, <1>4, <1>5, <1>6, <1>7, <1>8, <1>9, <1>10, <1>11, <1>12, <1>13,
       <1>14, <1>15, <1>16 DEF Next, Rebalance, Elsewhere

-----------------------------------------------------------------------------
(***************************************************************************)
(* The map, the handlers' pointers and the running commit loops            *)
(***************************************************************************)
\* Steps that create no state and drop none keep each state's partition, and an
\* exited loop; only the callbacks cancel a context, that of the state they are at.
StatesKept ==
  /\ Len(ps') = Len(ps)
  /\ \A id \in 1 .. Len(ps) :
       /\ ps'[id].ID = ps[id].ID
       /\ ps[id].loop = "exited" => ps'[id].loop = "exited"
       /\ ps'[id].ctxDone # ps[id].ctxDone =>
            /\ pc' \in {"assignWait", "revokeWait"} /\ pc' # pc
            /\ id = stateMap[Partition(cur')]

LEMMA StatesKeep ==
  ASSUME DataOK, ControlOK, MapOK, Next, ~AssignState, ~Crash
  PROVE  StatesKept
  <1> USE DEF psVars, loopVars, groupVars, envVars
  <1>0. UNCHANGED ps => StatesKept
    BY DEF StatesKept
  <1>1. ASSUME NEW id, Changed(id), ps[id].loop = "exited" => ps'[id].loop = "exited",
               \/ ps'[id].ctxDone = ps[id].ctxDone
               \/ /\ pc' \in {"assignWait", "revokeWait"} /\ pc' # pc
                  /\ id = stateMap[Partition(cur')]
        PROVE  StatesKept
    BY <1>1 DEF Changed, StatesKept
  <1>2. ASSUME NEW tp \in TPs, Receive(tp) PROVE StatesKept
    <2>1. CASE StateOf(tp) = None
      BY <1>0, <1>2, <2>1 DEF Receive
    <2>2. CASE StateOf(tp) # None
      <3>1. Changed(StateOf(tp)) /\ SameLoop(ps[StateOf(tp)], ps'[StateOf(tp)])
        BY <1>2, <2>2, AppendEffect
      <3> QED
        BY <1>1, <3>1 DEF SameLoop
    <2> QED
      BY <2>1, <2>2
  <1>3. CASE Drop
    <2>1. cur[1] \in TPs /\ cur[2] \in Offsets /\ Error \in MsgState
      BY <1>3 DEF Drop, ControlOK, Messages, MsgState
    <2>2. CASE StateOf(cur[1]) # None
      <3>1. StateOf(cur[1]) \in 1 .. Len(ps)
        BY <2>1, <2>2, MapEntry, TPFacts DEF StateOf
      <3>2. Changed(StateOf(cur[1])) /\ SameLoop(ps[StateOf(cur[1])], ps'[StateOf(cur[1])])
        BY <1>3, <2>1, <2>2, <3>1, WriteEffect DEF Drop
      <3> QED
        BY <1>1, <3>2 DEF SameLoop
    <2> QED
      BY <1>0, <1>3, <2>2 DEF Drop
  <1>4. ASSUME NEW h \in handlers, NEW s \in MsgState, WriteState(h, s) PROVE StatesKept
    <2>1. h.ps \in 1 .. Len(ps) /\ h.off \in Offsets
      BY <1>4 DEF WriteState, MapOK, DataOK
    <2>2. Changed(h.ps) /\ SameLoop(ps[h.ps], ps'[h.ps])
      BY <1>4, <2>1, WriteEffect DEF WriteState
    <2> QED
      BY <1>1, <2>2 DEF SameLoop
  <1>5. ASSUME NEW id \in DOMAIN ps, CommitLoop(id) PROVE StatesKept
    <2>0. id \in 1 .. Len(ps) /\ ps[id] \in PartitionStates
      BY DEF DataOK
    <2>1. CASE CommitTick(id)
      <3>1. PICK r \in FindLatestToCommit(ps[id]) : ps' = [ps EXCEPT ![id] = [r EXCEPT !.loop = "commit"]]
        BY <2>1 DEF CommitTick
      <3>2. Changed(id) /\ ps'[id].ctxDone = ps[id].ctxDone
        BY <2>0, <3>1, ScanEffect DEF Loops
      <3> QED
        BY <1>1, <2>1, <3>2 DEF CommitTick
    <2>2. CASE CommitOk(id) \/ CommitErr(id)
      <3>1. Changed(id) /\ ps'[id].ctxDone = ps[id].ctxDone /\ ps[id].loop # "exited"
        BY <2>0, <2>2, LoopEffect DEF CommitOk, CommitErr, Loops
      <3> QED
        BY <1>1, <3>1
    <2>3. CASE RecordCommit(id)
      <3>1. Changed(id) /\ ps'[id].ctxDone = ps[id].ctxDone /\ ps[id].loop # "exited"
        BY <2>0, <2>3, RecordEffect DEF RecordCommit
      <3> QED
        BY <1>1, <3>1
    <2>4. CASE LoopExit(id)
      <3>1. Changed(id) /\ ps'[id].ctxDone = ps[id].ctxDone /\ ps[id].loop # "exited"
        BY <2>0, <2>4, LoopEffect DEF LoopExit, Loops
      <3> QED
        BY <1>1, <3>1
    <2> QED
      BY <1>5, <2>1, <2>2, <2>3, <2>4 DEF CommitLoop
  <1>6. ASSUME NEW tp \in TPs, AssignNext(tp) \/ RevokeCancel(tp) PROVE StatesKept
    <2>1. CASE StateOf(tp) # None /\ ps' = [ps EXCEPT ![StateOf(tp)].ctxDone = TRUE]
      <3>1. StateOf(tp) \in 1 .. Len(ps)
        BY <2>1, MapEntry, TPFacts DEF StateOf
      <3>2. Changed(StateOf(tp)) /\ ps'[StateOf(tp)].loop = ps[StateOf(tp)].loop
        BY <2>1, <3>1, CancelEffect
      <3>3. /\ pc' \in {"assignWait", "revokeWait"} /\ pc' # pc
            /\ StateOf(tp) = stateMap[Partition(cur')]
        BY <1>6 DEF AssignNext, RevokeCancel, StateOf
      <3> QED
        BY <1>1, <3>2, <3>3
    <2> QED
      BY <1>0, <1>6, <2>1 DEF AssignNext, RevokeCancel
  <1>7. CASE RevokeFind
    <2>1. ASSUME NEW q \in FindLatestToCommit(ps[StateOf(cur)]), ps' = [ps EXCEPT ![StateOf(cur)] = q]
          PROVE  StatesKept
      <3>1. cur \in TPs /\ StateOf(cur) # None
        BY <1>7 DEF RevokeFind, ControlOK, Revoking, DataOK
      <3>2. StateOf(cur) \in 1 .. Len(ps) /\ ps[StateOf(cur)] \in PartitionStates
        BY <3>1, MapEntry, TPFacts DEF StateOf, DataOK
      <3>3. /\ q \in PartitionStates /\ q.ID = ps[StateOf(cur)].ID
            /\ q.loop = ps[StateOf(cur)].loop /\ q.ctxDone = ps[StateOf(cur)].ctxDone
        BY <2>1, <3>2, ScanFacts
      <3>4. Changed(StateOf(cur)) /\ ps'[StateOf(cur)] = q
        BY <2>1, <3>2, <3>3, ChangeOne DEF DataOK
      <3> QED
        BY <1>1, <3>3, <3>4
    <2> QED
      BY <1>0, <1>7, <2>1 DEF RevokeFind
  <1>8. CASE \/ Startup \/ SkipUndecodable \/ Enqueue \/ AssignLock \/ AssignDone
             \/ RevokeDelete \/ RevokeDone
             \/ (\E S \in SUBSET TPs : AssignEvent(S) \/ RevokeEvent(S))
             \/ (\E tp \in TPs : RevokeMissing(tp))
             \/ (\E h \in handlers : Lookup(h) \/ LookupMissing(h))
             \/ (\E tp \in TPs, o \in Offsets : OtherMember(tp, o))
    <2>1. UNCHANGED ps
      BY <1>8 DEF Startup, InitializeKafkaTopic, WaitForTopicReady, SubscribeTopics,
         SkipUndecodable, Enqueue, AssignLock, AssignDone, RevokeDelete, RevokeDone, AssignEvent,
         RevokeEvent, RevokeMissing, Lookup, LookupMissing, OtherMember
    <2> QED
      BY <1>0, <2>1
  <1> QED
    BY <1>2, <1>3, <1>4, <1>5, <1>6, <1>7, <1>8 DEF Next, Rebalance

LEMMA IdsTyped ==
  ASSUME DataOK
  PROVE  \A j \in 1 .. Len(ps) : ps[j] \in PartitionStates /\ ps[j].ID \in Partitions
  <1>1. ASSUME NEW j \in 1 .. Len(ps) PROVE ps[j] \in PartitionStates
    BY <1>1 DEF DataOK
  <1>2. \A q \in PartitionStates : q.ID \in Partitions
    BY DEF PartitionStates
  <1> QED
    BY <1>1, <1>2

LEMMA NextMap ==
  ASSUME DataOK, ControlOK, MapOK, Next
  PROVE  MapOK'
  <1> USE DEF psVars, loopVars, groupVars, envVars, None
  <1>0. Len(ps) \in Nat
    BY DEF DataOK
  <1>1. ASSUME StatesKept, UNCHANGED stateMap, handlers' \subseteq handlers,
               pc' = "revokeLock" => /\ ps'[StateOf(cur')].loop = "exited"
        PROVE  MapOK'
    BY <1>0, <1>1 DEF StatesKept, MapOK, StateOf
  <1>2. ASSUME NEW h \in handlers, Lookup(h) PROVE MapOK'
    <2>1. StateOf(h.tp) \in 1 .. Len(ps) /\ ps[StateOf(h.tp)].ID = Partition(h.tp)
      BY <1>2, MapEntry, TPFacts DEF Lookup, StateOf, DataOK
    <2>2. h \in [tp : TPs, off : Offsets, ps : Nat, session : Nat]
      BY DEF DataOK
    <2>3. \A g \in handlers' : g.ps # None =>
            g.ps \in 1 .. Len(ps) /\ ps[g.ps].ID = Partition(g.tp)
      BY <1>2, <2>1, <2>2 DEF Lookup, MapOK
    <2> QED
      BY <1>2, <2>3 DEF Lookup, MapOK, StateOf
  <1>3. CASE Enqueue
    BY <1>3 DEF Enqueue, MapOK, StateOf
  <1>4. CASE AssignState
    <2> DEFINE id == Len(ps) + 1
    <2>1. /\ cur \in TPs /\ Len(ps') = id
          /\ \A j \in 1 .. Len(ps) : ps'[j] = ps[j]
          /\ ps'[id] = NewPartitionState(cur, offsets[cur])
      BY <1>4, NewEffect
    <2>2. Partition(cur) \in Partitions
      BY <2>1, TPFacts
    <2>3. ps'[id].ID = Partition(cur)
      BY <2>1 DEF NewPartitionState
    <2>4. /\ stateMap' = [stateMap EXCEPT ![Partition(cur)] = id]
          /\ StateOf(cur) # None => ps[StateOf(cur)].loop = "exited"
          /\ pc' = "assign" /\ handlers' = handlers
      BY <1>4 DEF AssignState
    <2>5. \A j \in 1 .. Len(ps) : ps[j].loop # "exited" => ps[j].ID # Partition(cur)
      BY <2>2, <2>4 DEF MapOK, StateOf
    <2>6. \A j \in 1 .. Len(ps') : j \in 1 .. Len(ps) \/ j = id
      BY <1>0, <2>1
    <2>7. /\ stateMap' \in [Partitions -> 0 .. Len(ps')]
          /\ stateMap'[Partition(cur)] = id
          /\ \A p \in Partitions : p # Partition(cur) => stateMap'[p] = stateMap[p]
      <3>1. stateMap \in [Partitions -> 0 .. Len(ps)]
        BY DEF MapOK
      <3>2. 0 .. Len(ps) \subseteq 0 .. id /\ id \in 0 .. id
        BY <1>0
      <3> HIDE DEF id
      <3> QED
        BY <2>1, <2>2, <2>4, <3>1, <3>2
    <2>8. \A p \in Partitions : stateMap[p] \in 0 .. Len(ps)
      BY DEF MapOK
    <2>9. \A j \in 1 .. Len(ps) : ps[j].ID \in Partitions
      BY IdsTyped
    <2>10. \A j \in 1 .. Len(ps) : j \in 1 .. Len(ps')
      BY <1>0, <2>1
    <2> HIDE DEF id
    <2>11. \A p \in Partitions : stateMap'[p] # None => ps'[stateMap'[p]].ID = p
      BY <1>0, <2>1, <2>3, <2>7, <2>8 DEF MapOK
    <2>12. \A h \in handlers : h.ps # None => h.ps \in 1 .. Len(ps') /\ ps'[h.ps].ID = Partition(h.tp)
      BY <2>1, <2>10 DEF MapOK
    <2>13. \A j \in 1 .. Len(ps') : ps'[j].loop # "exited" => stateMap'[ps'[j].ID] = j
      BY <2>1, <2>3, <2>5, <2>6, <2>7, <2>9 DEF MapOK
    <2> QED
      BY <2>4, <2>7, <2>11, <2>12, <2>13 DEF MapOK
  <1>5. CASE RevokeDelete
    <2>1. cur \in TPs /\ pc = "revokeLock" /\ StateOf(cur) # None
      BY <1>5 DEF RevokeDelete, ControlOK, Revoking, DataOK
    <2>2. Partition(cur) \in Partitions /\ ps[StateOf(cur)].loop = "exited"
      BY <2>1, TPFacts DEF MapOK
    <2>3. \A j \in 1 .. Len(ps) : ps[j].loop # "exited" => ps[j].ID # Partition(cur)
      BY <2>2 DEF MapOK, StateOf
    <2>4. /\ stateMap' = [stateMap EXCEPT ![Partition(cur)] = 0]
          /\ pc' = "revoke" /\ handlers' = handlers /\ ps' = ps
      BY <1>5 DEF RevokeDelete
    <2>5. \A j \in 1 .. Len(ps) : ps[j].ID \in Partitions
      BY IdsTyped
    <2>6. /\ stateMap' \in [Partitions -> 0 .. Len(ps)]
          /\ stateMap'[Partition(cur)] = 0
          /\ \A p \in Partitions : p # Partition(cur) => stateMap'[p] = stateMap[p]
      <3>1. 0 \in 0 .. Len(ps)
        BY <1>0
      <3> QED
        BY <2>2, <2>4, <3>1 DEF MapOK
    <2>7. \A j \in 1 .. Len(ps) : ps[j].loop # "exited" => stateMap'[ps[j].ID] = j
      BY <2>3, <2>5, <2>6 DEF MapOK
    <2> QED
      BY <2>4, <2>6, <2>7 DEF MapOK
  <1>6. CASE Crash
    BY <1>6 DEF Crash, MapOK
  <1>c. SUFFICES ASSUME ~AssignState, ~Crash PROVE MapOK'
    BY <1>4, <1>6
  <1>k. StatesKept
    BY <1>c, StatesKeep
  <1>7. CASE RevokeFind
    <2>1. cur \in TPs /\ StateOf(cur) # None
      BY <1>7 DEF RevokeFind, ControlOK, Revoking, DataOK
    <2>2. StateOf(cur) \in 1 .. Len(ps)
      BY <2>1, MapEntry, TPFacts DEF StateOf
    <2>4. /\ UNCHANGED stateMap /\ handlers' = handlers
          /\ pc' = "revokeLock" => cur' = cur /\ ps[StateOf(cur)].loop = "exited"
      BY <1>7 DEF RevokeFind
    <2> QED
      BY <1>1, <1>k, <2>2, <2>4 DEF StatesKept, StateOf
  <1>8. CASE Elsewhere /\ handlers' \subseteq handlers
    <2>1. UNCHANGED <<pc, cur, stateMap>>
      BY <1>8, ElsewhereKeeps
    <2>3. pc = "revokeLock" => StateOf(cur) \in 1 .. Len(ps)
      BY MapEntry, TPFacts DEF ControlOK, Revoking, DataOK, StateOf
    <2> QED
      BY <1>1, <1>8, <1>k, <2>1, <2>3 DEF StatesKept, StateOf, MapOK
  <1>9. CASE \/ Startup \/ SkipUndecodable \/ Drop \/ AssignLock \/ AssignDone \/ RevokeDone
             \/ (\E S \in SUBSET TPs : AssignEvent(S) \/ RevokeEvent(S))
             \/ (\E tp \in TPs : Receive(tp) \/ RevokeMissing(tp) \/ AssignNext(tp) \/ RevokeCancel(tp))
    <2>1. UNCHANGED <<stateMap, handlers>> /\ pc' # "revokeLock"
      BY <1>9 DEF Startup, InitializeKafkaTopic, WaitForTopicReady, SubscribeTopics,
         SkipUndecodable, Drop, AssignLock, AssignDone, RevokeDone, AssignEvent,
         RevokeEvent, Receive, RevokeMissing, AssignNext, RevokeCancel
    <2> QED
      BY <1>1, <1>k, <2>1
  <1>10. ASSUME Elsewhere PROVE handlers' \subseteq handlers \/ \E h \in handlers : Lookup(h)
    BY <1>10 DEF Elsewhere, LookupMissing, WriteState, CommitLoop, CommitTick, CommitOk,
         CommitErr, RecordCommit, LoopExit, OtherMember
  <1> QED
    BY <1>2, <1>3, <1>4, <1>5, <1>6, <1>7, <1>8, <1>9, <1>10 DEF Next, Rebalance, Elsewhere

-----------------------------------------------------------------------------
(***************************************************************************)
(* Sessions: tracked while assigned, ended when given back                 *)
(***************************************************************************)
LEMMA KeepTracked ==
  ASSUME MapOK, StatesKept, NEW tp \in TPs, Tracked(tp),
         stateMap'[Partition(tp)] = stateMap[Partition(tp)],
         pc' \notin {"assignWait", "revokeWait"} \/ pc' = pc
           \/ (cur' \in TPs /\ Partition(cur') # Partition(tp))
  PROVE  Tracked(tp)'
  <1>1. /\ Partition(tp) \in Partitions /\ stateMap[Partition(tp)] # None
        /\ ~ps[stateMap[Partition(tp)]].ctxDone
    BY TPFacts DEF Tracked, StateOf
  <1>2. stateMap[Partition(tp)] \in 1 .. Len(ps) /\ ps[stateMap[Partition(tp)]].ID = Partition(tp)
    BY <1>1, MapEntry
  <1>3. ASSUME cur' \in TPs, Partition(cur') # Partition(tp)
        PROVE  stateMap[Partition(cur')] # stateMap[Partition(tp)]
    <2>1. Partition(cur') \in Partitions
      BY <1>3, TPFacts
    <2> QED
      BY <1>1, <1>2, <1>3, <2>1, MapEntry
  <1>4. ps'[stateMap[Partition(tp)]].ctxDone = ps[stateMap[Partition(tp)]].ctxDone
    BY <1>2, <1>3 DEF StatesKept
  <1> QED
    BY <1>1, <1>4 DEF Tracked, StateOf

LEMMA KeepEnded ==
  ASSUME MapOK, StatesKept, NEW tp \in TPs, Ended(tp),
         stateMap'[Partition(tp)] = stateMap[Partition(tp)]
  PROVE  Ended(tp)'
  <1>1. Partition(tp) \in Partitions
    BY TPFacts
  <1>2. stateMap[Partition(tp)] # None =>
          /\ stateMap[Partition(tp)] \in 1 .. Len(ps)
          /\ ps[stateMap[Partition(tp)]].loop = "exited"
    BY <1>1, MapEntry DEF Ended, StateOf
  <1> QED
    BY <1>2 DEF StatesKept, Ended, StateOf

LEMMA NextSessions ==
  ASSUME DataOK, ControlOK, MapOK, SessionsOK, Next
  PROVE  SessionsOK'
  <1> USE DEF psVars, loopVars, groupVars, envVars
  <1>1. CASE Crash
    BY <1>1, TPFacts DEF Crash, SessionsOK, Ended, StateOf, Opened, Assigning, Revoking
  <1>2. CASE AssignState
    <2> DEFINE id == Len(ps) + 1
    <2>1. /\ cur \in TPs /\ Len(ps) \in Nat
          /\ \A j \in 1 .. Len(ps) : ps'[j] = ps[j]
          /\ ps'[id] = NewPartitionState(cur, offsets[cur])
      BY <1>2, NewEffect DEF DataOK
    <2>2. Partition(cur) \in Partitions /\ ~ps'[id].ctxDone /\ id # None
      BY <2>1, TPFacts DEF NewPartitionState, None
    <2>3. /\ stateMap'[Partition(cur)] = id
          /\ \A tp \in TPs : Partition(tp) # Partition(cur) =>
               stateMap'[Partition(tp)] = stateMap[Partition(tp)]
      BY <1>2, <2>2, TPFacts DEF AssignState, MapOK
    <2> HIDE DEF id
    <2>4. ASSUME NEW tp \in TPs, Partition(tp) = Partition(cur) PROVE Tracked(tp)'
      BY <2>2, <2>3, <2>4 DEF Tracked, StateOf
    <2>5. ASSUME NEW tp \in TPs, Partition(tp) # Partition(cur)
          PROVE  Tracked(tp)' = Tracked(tp) /\ Ended(tp)' = Ended(tp)
      <3>1. stateMap[Partition(tp)] # None => stateMap[Partition(tp)] \in 1 .. Len(ps)
        BY TPFacts, MapEntry
      <3> QED
        BY <2>1, <2>3, <2>5, <3>1 DEF Tracked, Ended, StateOf
    <2>6. /\ pc = "assignWait" /\ pc' = "assign" /\ UNCHANGED <<event, todo, assigned>>
          /\ assigned \subseteq TPs /\ event \subseteq TPs
      BY <1>2 DEF AssignState, DataOK, ControlOK, Assigning
    <2>7. ASSUME NEW tp \in TPs, Sole(tp), ~Opened(tp)' PROVE ~Opened(tp) /\ Partition(tp) # Partition(cur)
      BY <1>2, <2>1, <2>6, <2>7 DEF Opened, Assigning, Sole, ControlOK
    <2>8. \A tp \in assigned : Kept(tp) => Tracked(tp)'
      BY <2>4, <2>5, <2>6 DEF SessionsOK, Revoking
    <2>9. \A tp \in event \ todo : Tracked(tp)'
      BY <2>4, <2>5, <2>6 DEF SessionsOK, Assigning
    <2>10. \A tp \in TPs : Sole(tp) /\ ~Opened(tp)' => Ended(tp)'
      BY <2>5, <2>7 DEF SessionsOK
    <2> QED
      BY <2>6, <2>8, <2>9, <2>10 DEF SessionsOK, Assigning, Revoking, Kept, Sole
  <1>c. SUFFICES ASSUME ~AssignState, ~Crash PROVE SessionsOK'
    BY <1>1, <1>2
  <1>k. StatesKept
    BY <1>c, StatesKeep
  <1>t. assigned \subseteq TPs
    BY DEF DataOK
  <1>3. CASE RevokeDelete
    <2>1. cur \in TPs /\ cur \in event /\ Partition(cur) \in Partitions
      BY <1>3, TPFacts DEF RevokeDelete, ControlOK, Revoking, DataOK
    <2>2. /\ stateMap'[Partition(cur)] = None
          /\ \A tp \in TPs : Partition(tp) # Partition(cur) =>
               stateMap'[Partition(tp)] = stateMap[Partition(tp)]
      BY <1>3, <2>1, TPFacts DEF RevokeDelete, MapOK
    <2>3. ASSUME NEW tp \in TPs, Partition(tp) = Partition(cur) PROVE Ended(tp)'
      BY <2>2, <2>3 DEF Ended, StateOf
    <2>4. /\ pc = "revokeLock" /\ pc' = "revoke" /\ UNCHANGED <<event, todo, assigned>>
          /\ event \subseteq TPs /\ (~Cooperative => event = assigned)
      BY <1>3, <1>t DEF RevokeDelete, ControlOK, Revoking
    <2>5. ASSUME NEW tp \in TPs, Ended(tp) PROVE Ended(tp)'
      BY <1>k, <2>2, <2>3, <2>5, KeepEnded
    <2>6. ASSUME NEW tp \in assigned \ event, Kept(tp) PROVE Tracked(tp)'
      <3>1. tp \in TPs /\ Tracked(tp)
        BY <1>t, <2>4, <2>6 DEF SessionsOK, Revoking
      <3>2. Partition(tp) # Partition(cur)
        BY <2>1, <2>4, <2>6 DEF Kept, Sole
      <3> QED
        BY <1>k, <2>2, <2>4, <3>1, <3>2, KeepTracked
    <2>7. \A tp \in TPs : Opened(tp)' = Opened(tp)
      BY <2>4 DEF Opened, Assigning
    <2>8. \A tp \in event \ todo : Sole(tp) => Ended(tp)'
      BY <2>3, <2>4, <2>5 DEF SessionsOK, Revoking
    <2> QED
      BY <2>4, <2>5, <2>6, <2>7, <2>8 DEF SessionsOK, Assigning, Revoking, Kept, Sole
  <1>d. SUFFICES ASSUME UNCHANGED stateMap PROVE SessionsOK'
    BY <1>3, <1>c DEF Next, Startup, InitializeKafkaTopic, WaitForTopicReady, SubscribeTopics,
       Receive, Enqueue, Drop, SkipUndecodable, Lookup, LookupMissing, WriteState, CommitLoop,
       CommitTick, CommitOk, CommitErr, RecordCommit, LoopExit, AssignEvent, RevokeEvent,
       Rebalance, AssignLock, AssignDone, AssignNext, RevokeFind, RevokeDone, RevokeMissing,
       RevokeCancel, OtherMember
  <1>e. \A tp \in TPs : Ended(tp) => Ended(tp)'
    BY <1>d, <1>k, KeepEnded
  <1>f. ASSUME pc' \notin {"assignWait", "revokeWait"} \/ pc' = pc, NEW tp \in TPs, Tracked(tp)
        PROVE Tracked(tp)'
    BY <1>d, <1>f, <1>k, KeepTracked
  <1> USE DEF Assigning, Revoking
  <1>4. CASE Elsewhere
    <2>1. UNCHANGED <<pc, event, todo, cur, assigned>>
      BY <1>4, ElsewhereKeeps
    <2>2. \A tp \in TPs : Tracked(tp) => Tracked(tp)'
      BY <1>f, <2>1
    <2>3. \A tp \in TPs : Opened(tp)' = Opened(tp)
      BY <2>1 DEF Opened
    <2>4. pc \in {"assign", "assignWait"} \cup Revoking => event \subseteq TPs
      BY <1>t DEF ControlOK
    <2> QED
      BY <1>e, <1>t, <2>1, <2>2, <2>3, <2>4 DEF SessionsOK, Kept, Sole
  <1>5. CASE \/ Startup \/ Enqueue \/ Drop \/ SkipUndecodable \/ AssignLock
             \/ (\E S \in SUBSET TPs : AssignEvent(S)) \/ (\E tp \in TPs : Receive(tp))
    <2>1. /\ UNCHANGED assigned
          /\ pc \in {"start", "waitTopic", "poll", "send", "assignLock"}
          /\ pc' \in {"start", "waitTopic", "poll", "send", "assignLock", "assign"}
          /\ pc' = "assign" => event' = todo'
      BY <1>5 DEF Startup, InitializeKafkaTopic, WaitForTopicReady, SubscribeTopics,
         Receive, Enqueue, Drop, SkipUndecodable, AssignLock, AssignEvent, ControlOK
    <2>2. \A tp \in TPs : Tracked(tp) => Tracked(tp)'
      BY <1>f, <2>1
    <2>3. \A tp \in TPs : Opened(tp)' = Opened(tp)
      BY <2>1 DEF Opened
    <2> QED
      BY <1>e, <1>t, <2>1, <2>2, <2>3 DEF SessionsOK, Kept, Sole
  <1>6. ASSUME NEW t \in TPs, AssignNext(t) PROVE SessionsOK'
    <2>1. /\ UNCHANGED <<event, assigned>> /\ pc = "assign" /\ pc' = "assignWait" /\ cur' = t
          /\ t \in todo /\ todo' = todo \ {t} /\ event \subseteq TPs /\ todo \subseteq event
          /\ event \cap assigned = {} /\ (~Cooperative => assigned = {})
      BY <1>6 DEF AssignNext, ControlOK
    <2>2. ASSUME NEW tp \in TPs, Tracked(tp), Partition(tp) # Partition(t) PROVE Tracked(tp)'
      BY <1>d, <1>k, <2>1, <2>2, KeepTracked
    <2>3. \A tp \in TPs : Opened(tp)' = Opened(tp)
      BY <2>1 DEF Opened
    <2>4. \A tp \in assigned : Kept(tp) => Partition(tp) # Partition(t)
      BY <2>1 DEF Kept, Sole
    <2>5. \A tp \in assigned : Kept(tp) => Tracked(tp)'
      BY <1>t, <2>1, <2>2, <2>4 DEF SessionsOK
    <2>6. \A tp \in event \ todo' : Partition(tp) # Partition(t) => Tracked(tp)'
      BY <2>1, <2>2 DEF SessionsOK
    <2> QED
      BY <1>e, <2>1, <2>3, <2>5, <2>6 DEF SessionsOK, Kept, Sole
  <1>7. CASE AssignDone
    <2>1. /\ assigned' = assigned \cup event /\ pc = "assign" /\ pc' = "poll" /\ todo = {}
          /\ event \subseteq TPs
      BY <1>7 DEF AssignDone, ControlOK
    <2>2. \A tp \in TPs : Tracked(tp) => Tracked(tp)'
      BY <1>f, <2>1
    <2>3. \A tp \in TPs : Opened(tp)' = Opened(tp)
      BY <2>1 DEF Opened
    <2> QED
      BY <1>e, <1>t, <2>1, <2>2, <2>3 DEF SessionsOK, Kept, Sole
  <1>8. ASSUME NEW S \in SUBSET TPs, RevokeEvent(S) PROVE SessionsOK'
    <2>1. UNCHANGED assigned /\ pc = "poll" /\ pc' = "revoke" /\ event' = todo'
      BY <1>8 DEF RevokeEvent
    <2>2. \A tp \in TPs : Tracked(tp) => Tracked(tp)'
      BY <1>f, <2>1
    <2>3. \A tp \in TPs : Opened(tp)' = Opened(tp)
      BY <2>1 DEF Opened
    <2> QED
      BY <1>e, <1>t, <2>1, <2>2, <2>3 DEF SessionsOK, Kept, Sole
  <1>9. ASSUME NEW t \in TPs, RevokeMissing(t) PROVE SessionsOK'
    <2>1. /\ UNCHANGED <<assigned, event, pc, cur>> /\ pc = "revoke" /\ todo' = todo \ {t}
          /\ StateOf(t) = None /\ event \subseteq TPs
      BY <1>9, <1>t DEF RevokeMissing, ControlOK
    <2>2. \A tp \in TPs : Tracked(tp) => Tracked(tp)'
      BY <1>f, <2>1
    <2>3. \A tp \in TPs : Opened(tp)' = Opened(tp)
      BY <2>1 DEF Opened
    <2>4. Ended(t)'
      BY <1>e, <2>1 DEF Ended
    <2> QED
      BY <1>e, <1>t, <2>1, <2>2, <2>3, <2>4 DEF SessionsOK, Kept, Sole
  <1>10. ASSUME NEW t \in TPs, RevokeCancel(t) PROVE SessionsOK'
    <2>1. /\ UNCHANGED <<assigned, event>> /\ pc = "revoke" /\ pc' = "revokeWait" /\ cur' = t
          /\ t \in todo /\ todo' = todo \ {t} /\ event \subseteq TPs /\ todo \subseteq event
          /\ (~Cooperative => event = assigned)
      BY <1>10, <1>t DEF RevokeCancel, ControlOK
    <2>2. ASSUME NEW tp \in TPs, Tracked(tp), Partition(tp) # Partition(t) PROVE Tracked(tp)'
      BY <1>d, <1>k, <2>1, <2>2, KeepTracked
    <2>3. \A tp \in TPs : Opened(tp)' = Opened(tp)
      BY <2>1 DEF Opened
    <2>4. \A tp \in assigned \ event : Kept(tp) => Partition(tp) # Partition(t)
      BY <1>t, <2>1 DEF Kept, Sole
    <2>5. \A tp \in assigned \ event : Kept(tp) => Tracked(tp)'
      BY <1>t, <2>1, <2>2, <2>4 DEF SessionsOK
    <2>6. \A tp \in event \ todo' : Sole(tp) /\ tp # t => Ended(tp)'
      BY <1>e, <2>1 DEF SessionsOK
    <2> QED
      BY <1>e, <2>1, <2>3, <2>5, <2>6 DEF SessionsOK, Kept, Sole
  <1>11. CASE RevokeFind
    <2>1. /\ UNCHANGED <<assigned, event, todo>> /\ pc = "revokeWait" /\ pc' \in {"revoke", "revokeLock"}
          /\ pc' = "revokeLock" => cur' = cur
          /\ cur \in event /\ event \subseteq TPs /\ ps[StateOf(cur)].loop = "exited"
      BY <1>11, <1>t DEF RevokeFind, ControlOK
    <2>2. \A tp \in TPs : Tracked(tp) => Tracked(tp)'
      BY <1>f, <2>1
    <2>3. \A tp \in TPs : Opened(tp)' = Opened(tp)
      BY <2>1 DEF Opened
    <2>4. Ended(cur)
      BY <2>1 DEF Ended
    <2>5. \A tp \in event \ todo : Sole(tp) /\ (pc' = "revokeLock" => tp # cur) => Ended(tp)'
      BY <1>e, <2>1, <2>4 DEF SessionsOK
    <2> QED
      BY <1>e, <1>t, <2>1, <2>2, <2>3, <2>5 DEF SessionsOK, Kept, Sole
  <1>12. CASE RevokeDone
    <2>1. /\ assigned' = (IF Cooperative THEN assigned \ event ELSE {})
          /\ pc = "revoke" /\ pc' = "poll" /\ todo = {}
          /\ (~Cooperative => event = assigned) /\ event \subseteq TPs
      BY <1>12, <1>t DEF RevokeDone, ControlOK
    <2>2. \A tp \in TPs : Tracked(tp) => Tracked(tp)'
      BY <1>f, <2>1
    <2>3. \A tp \in TPs : ~Opened(tp)' => ~Opened(tp) \/ tp \in event
      BY <2>1 DEF Opened
    <2>4. \A tp \in event : Sole(tp) => Ended(tp)
      BY <2>1 DEF SessionsOK
    <2>5. \A tp \in TPs : Sole(tp) /\ ~Opened(tp)' => Ended(tp)'
      BY <1>e, <2>3, <2>4 DEF SessionsOK
    <2> QED
      BY <1>t, <2>1, <2>2, <2>5 DEF SessionsOK, Kept, Sole
  <1> QED
    BY <1>c, <1>3, <1>4, <1>5, <1>6, <1>7, <1>8, <1>9, <1>10, <1>11, <1>12
       DEF Next, Rebalance, Elsewhere

-----------------------------------------------------------------------------
(***************************************************************************)
(* What was not reported stays covered by the partition's state            *)
(***************************************************************************)
\* A message once reported stays so.
LEMMA ReportedGrows ==
  ASSUME Next
  PROVE  reported \subseteq reported' /\ \A tp \in TPs : Unreported(tp)' \subseteq Unreported(tp)
  <1>1. reported \subseteq reported'
    BY DEF Next, Startup, InitializeKafkaTopic, WaitForTopicReady, SubscribeTopics,
       Receive, Enqueue, Drop, SkipUndecodable, Lookup, LookupMissing, WriteState, CommitLoop,
       CommitTick, CommitOk, CommitErr, RecordCommit, LoopExit, AssignEvent, RevokeEvent,
       Rebalance, AssignLock, AssignState, AssignDone, AssignNext, RevokeFind, RevokeDelete,
       RevokeDone, RevokeMissing, RevokeCancel, OtherMember, Crash
  <1> QED
    BY <1>1 DEF Unreported

\* The only partition with a state at the index of a partition of its own number.
LEMMA SoleState ==
  ASSUME MapOK, NEW tp \in TPs, Sole(tp), StateOf(tp) # None, NEW t \in TPs,
         StateOf(t) = StateOf(tp) \/ ps[StateOf(tp)].ID = Partition(t)
  PROVE  t = tp
  <1>1. ps[StateOf(tp)].ID = Partition(tp)
    BY MapEntry, TPFacts DEF StateOf
  <1>2. StateOf(t) = StateOf(tp) => ps[StateOf(tp)].ID = Partition(t)
    BY MapEntry, TPFacts DEF StateOf
  <1> QED
    BY <1>1, <1>2 DEF Sole

\* TracksOK' for one partition.
CoversNext(tp) ==
  Covers(ps'[stateMap'[Partition(tp)]], Unreported(tp)', tp \in assigned', position'[tp])

LEMMA NextTracks ==
  ASSUME DataOK, ControlOK, MapOK, SessionsOK, TracksOK, CommitsOK, Next
  PROVE  TracksOK'
  <1> USE DEF psVars, loopVars, groupVars, envVars
  <1>0. SUFFICES ASSUME NEW tp \in TPs, Sole(tp), Opened(tp)', stateMap'[Partition(tp)] # None
                 PROVE  CoversNext(tp)
    BY DEF TracksOK, Tracks, StateOf, Sole, CoversNext
  <1> DEFINE id == stateMap[Partition(tp)]
             U == Unreported(tp)
             V == Unreported(tp)'
  <1>1. U \in SUBSET Offsets /\ V \in SUBSET U /\ position[tp] \in Int
    BY ReportedGrows DEF Unreported, DataOK
  <1>2. Partition(tp) \in Partitions
    BY TPFacts
  <1>3. ASSUME Opened(tp), id # None
        PROVE  /\ Covers(ps[id], U, tp \in assigned, position[tp])
               /\ id \in 1 .. Len(ps) /\ ps[id] \in PartitionStates
    BY <1>0, <1>2, <1>3, MapEntry, IdsTyped DEF TracksOK, Tracks, StateOf
  <1> HIDE DEF U, V
  <1>4. ASSUME Opened(tp), id # None, stateMap'[Partition(tp)] = id,
               ps'[id].State = ps[id].State, SameOffsets(ps[id], ps'[id]),
               ps'[id].loop \in {"commit", "record"} =>
                 ps[id].loop \in {"commit", "record"} /\ ps'[id].latest = ps[id].latest,
               (tp \in assigned') = (tp \in assigned), position'[tp] = position[tp]
        PROVE  CoversNext(tp)
    BY <1>1, <1>3, <1>4, CoversSame DEF SameOffsets, CoversNext, V
  <1>5. ASSUME Opened(tp), id # None, stateMap'[Partition(tp)] = id, ps'[id] = ps[id],
               (tp \in assigned') = (tp \in assigned), position'[tp] = position[tp]
        PROVE  CoversNext(tp)
    BY <1>4, <1>5 DEF SameOffsets
  <1>6. CASE Elsewhere
    <2>1. /\ UNCHANGED <<pc, event, todo, cur, assigned, position>> /\ stateMap' = stateMap
          /\ id # None /\ stateMap'[Partition(tp)] = id
      BY <1>0, <1>6, ElsewhereKeeps
    <2>2. Opened(tp)
      BY <1>0, <2>1 DEF Opened
    <2>3. Covers(ps[id], U, tp \in assigned, position[tp]) /\ id \in 1 .. Len(ps) /\ ps[id] \in PartitionStates
      BY <1>3, <2>1, <2>2
    <2>a. ASSUME ps'[id] = ps[id] PROVE CoversNext(tp)
      BY <1>5, <2>1, <2>2, <2>a
    <2>b. ASSUME NEW j \in 1 .. Len(ps), Changed(j), j # id PROVE CoversNext(tp)
      BY <2>3, <2>a, <2>b DEF Changed
    <2>4. ASSUME NEW h \in handlers, Lookup(h) \/ LookupMissing(h) PROVE CoversNext(tp)
      BY <2>4, <2>a DEF Lookup, LookupMissing
    <2>5. ASSUME NEW t \in TPs, NEW o \in Offsets, OtherMember(t, o) PROVE CoversNext(tp)
      BY <2>5, <2>a DEF OtherMember
    <2>6. ASSUME NEW h \in handlers, NEW s \in MsgState, WriteState(h, s) PROVE CoversNext(tp)
      <3>1. /\ h.ps \in 1 .. Len(ps) /\ h.off \in Offsets /\ h.tp \in TPs
            /\ ps[h.ps].ID = Partition(h.tp)
        BY <2>6 DEF WriteState, MapOK, DataOK
      <3>2. /\ Changed(h.ps) /\ ps'[h.ps].State = Put(ps[h.ps].State, h.off, s)
            /\ SameOffsets(ps[h.ps], ps'[h.ps]) /\ SameLoop(ps[h.ps], ps'[h.ps])
        BY <2>6, <3>1, WriteEffect DEF WriteState
      <3>3. CASE h.ps = id
        <4>1. h.tp = tp
          BY <1>0, <2>1, <3>1, <3>3, SoleState DEF StateOf
        <4>2. h.off \notin V
          BY <2>6, <4>1 DEF WriteState, V, Unreported
        <4>3. Covers(ps'[id], V, tp \in assigned, position[tp])
          BY <1>1, <2>3, <3>1, <3>2, <3>3, <4>2, CoversWrite DEF SameOffsets, SameLoop
        <4> QED
          BY <2>1, <4>3 DEF CoversNext, V
      <3> QED
        BY <2>b, <3>1, <3>2, <3>3
    <2>7. ASSUME NEW j \in DOMAIN ps, CommitLoop(j) PROVE CoversNext(tp)
      <3>0. j \in 1 .. Len(ps) /\ ps[j] \in PartitionStates
        BY DEF DataOK
      <3>1. CASE CommitTick(j)
        <4>1. PICK r \in FindLatestToCommit(ps[j]) : ps' = [ps EXCEPT ![j] = [r EXCEPT !.loop = "commit"]]
          BY <3>1 DEF CommitTick
        <4>2. /\ Changed(j) /\ ps'[j].State = r.State /\ ps'[j].latest = r.latest
              /\ SameOffsets(ps[j], ps'[j])
          BY <3>0, <4>1, ScanEffect DEF Loops
        <4>3. CASE j = id
          <5>1. Covers(ps'[id], V, tp \in assigned, position[tp])
            BY <1>1, <2>3, <4>1, <4>2, <4>3, CoversScan DEF SameOffsets
          <5> QED
            BY <2>1, <5>1 DEF CoversNext, V
        <4> QED
          BY <2>b, <3>0, <4>2, <4>3
      <3>2. CASE CommitOk(j) \/ CommitErr(j) \/ LoopExit(j)
        <4>1. /\ Changed(j) /\ ps'[j].State = ps[j].State /\ SameOffsets(ps[j], ps'[j])
              /\ ps'[j].latest = ps[j].latest
              /\ ps'[j].loop \in {"commit", "record"} => ps[j].loop \in {"commit", "record"}
          BY <3>0, <3>2, LoopEffect DEF CommitOk, CommitErr, LoopExit, Loops
        <4>2. CASE j = id
          BY <1>4, <2>1, <2>2, <4>1, <4>2
        <4> QED
          BY <2>b, <3>0, <4>1, <4>2
      <3>3. CASE RecordCommit(j)
        <4>1. /\ Changed(j) /\ ps'[j].State = ps[j].State /\ ps'[j].loop = "idle"
              /\ ps'[j].LastCommited = ps[j].latest /\ ps[j].loop = "record"
              /\ ps'[j].MaxReceived = (IF ps[j].latest > ps[j].MaxReceived
                                       THEN ps[j].latest ELSE ps[j].MaxReceived)
          BY <3>0, <3>3, RecordEffect DEF RecordCommit
        <4>2. CASE j = id
          <5>1. Covers(ps'[id], V, tp \in assigned, position[tp])
            BY <1>1, <2>3, <4>1, <4>2, CoversRecord
          <5> QED
            BY <2>1, <5>1 DEF CoversNext, V
        <4> QED
          BY <2>b, <3>0, <4>1, <4>2
      <3> QED
        BY <2>7, <3>1, <3>2, <3>3 DEF CommitLoop
    <2> QED
      BY <1>6, <2>4, <2>5, <2>6, <2>7 DEF Elsewhere
  <1>7. ASSUME NEW t \in TPs, Receive(t) PROVE CoversNext(tp)
    <2>1. /\ stateMap' = stateMap /\ assigned' = assigned /\ t \in assigned
          /\ pc = "poll" /\ pc' = "send" /\ id # None /\ stateMap'[Partition(tp)] = id
      BY <1>0, <1>7 DEF Receive
    <2>2. Opened(tp)
      BY <1>0, <2>1 DEF Opened, Assigning
    <2>3. Covers(ps[id], U, tp \in assigned, position[tp]) /\ id \in 1 .. Len(ps) /\ ps[id] \in PartitionStates
      BY <1>3, <2>1, <2>2
    <2>4. CASE t = tp
      <3>1. StateOf(t) = id /\ StateOf(t) # None
        BY <2>1, <2>4 DEF StateOf
      <3>2. /\ position[tp] \in Offsets
            /\ ps'[id].State = Put(ps[id].State, position[tp], Pending)
            /\ ps'[id].MaxReceived = (IF ps[id].MaxReceived < position[tp]
                                      THEN position[tp] ELSE ps[id].MaxReceived)
            /\ ps'[id].LastCommited = ps[id].LastCommited /\ SameLoop(ps[id], ps'[id])
        BY <1>7, <2>4, <3>1, AppendEffect
      <3>3. Covers(ps'[id], U, TRUE, position[tp] + 1)
        BY <1>1, <2>1, <2>3, <2>4, <3>2, CoversAppend DEF SameLoop
      <3>4. Covers(ps'[id], V, TRUE, position[tp] + 1)
        BY <1>1, <3>3, CoversSame
      <3>5. position'[tp] = position[tp] + 1
        BY <1>7, <2>4 DEF Receive, DataOK
      <3> QED
        BY <2>1, <2>4, <3>4, <3>5 DEF CoversNext, V
    <2>5. CASE t # tp
      <3>1. StateOf(t) # id
        BY <1>0, <2>1, <2>5, SoleState DEF StateOf
      <3>2. position'[tp] = position[tp]
        BY <1>7, <2>5 DEF Receive, DataOK
      <3>3. ps'[id] = ps[id]
        <4>1. CASE StateOf(t) = None
          BY <1>7, <4>1 DEF Receive
        <4>2. CASE StateOf(t) # None
          BY <1>7, <2>3, <3>1, <4>2, AppendEffect DEF Changed
        <4> QED
          BY <4>1, <4>2
      <3> QED
        BY <1>5, <2>1, <2>2, <3>2, <3>3
    <2> QED
      BY <2>4, <2>5
  <1>8. CASE Drop
    <2>1. /\ stateMap' = stateMap /\ assigned' = assigned /\ position' = position
          /\ pc = "send" /\ pc' = "poll" /\ id # None /\ stateMap'[Partition(tp)] = id
      BY <1>0, <1>8 DEF Drop
    <2>2. Opened(tp)
      BY <1>0, <2>1 DEF Opened, Assigning
    <2>3. Covers(ps[id], U, tp \in assigned, position[tp]) /\ id \in 1 .. Len(ps) /\ ps[id] \in PartitionStates
      BY <1>3, <2>1, <2>2
    <2>4. cur[1] \in TPs /\ cur[2] \in Offsets /\ cur = <<cur[1], cur[2]>> /\ Error \in MsgState
      BY <2>1 DEF ControlOK, Messages, MsgState
    <2>5. CASE StateOf(cur[1]) = id
      <3>1. cur[1] = tp
        BY <1>0, <2>1, <2>4, <2>5, SoleState DEF StateOf
      <3>2. cur[2] \notin V
        <4>1. <<tp, cur[2]>> \in reported'
          BY <1>8, <2>4, <3>1 DEF Drop
        <4> QED
          BY <4>1 DEF V, Unreported
      <3>3. ps' = [ps EXCEPT ![id].State = Put(@, cur[2], Error)]
        BY <1>8, <2>1, <2>5 DEF Drop
      <3>4. /\ ps'[id].State = Put(ps[id].State, cur[2], Error)
            /\ SameOffsets(ps[id], ps'[id]) /\ SameLoop(ps[id], ps'[id])
        BY <2>3, <2>4, <3>3, WriteEffect
      <3>5. Covers(ps'[id], V, tp \in assigned, position[tp])
        BY <1>1, <2>3, <2>4, <3>2, <3>4, CoversWrite DEF SameOffsets, SameLoop
      <3> QED
        BY <2>1, <3>5 DEF CoversNext, V
    <2>6. CASE StateOf(cur[1]) # id
      <3>1. ps'[id] = ps[id]
        BY <1>8, <2>3, <2>6 DEF Drop, DataOK
      <3> QED
        BY <1>5, <2>1, <2>2, <3>1
    <2> QED
      BY <2>5, <2>6
  <1>9. ASSUME NEW t \in TPs, AssignNext(t) \/ RevokeCancel(t) PROVE CoversNext(tp)
    <2>1. /\ stateMap' = stateMap /\ assigned' = assigned /\ position' = position
          /\ id # None /\ stateMap'[Partition(tp)] = id
      BY <1>0, <1>9 DEF AssignNext, RevokeCancel
    <2>2. Opened(tp)
      BY <1>0, <1>9, <2>1 DEF Opened, Assigning, AssignNext, RevokeCancel
    <2>3. id \in 1 .. Len(ps)
      BY <1>3, <2>1, <2>2
    <2>4. CASE ps' = ps
      BY <1>5, <2>1, <2>2, <2>4
    <2>5. CASE StateOf(t) # None /\ ps' = [ps EXCEPT ![StateOf(t)].ctxDone = TRUE]
      <3>1. StateOf(t) \in 1 .. Len(ps)
        BY <2>5, MapEntry, TPFacts DEF StateOf
      <3>2. LET q == ps[StateOf(t)]  r == ps'[StateOf(t)]
            IN  Changed(StateOf(t)) /\ r.State = q.State /\ SameOffsets(q, r)
                /\ r.latest = q.latest /\ r.loop = q.loop
        BY <2>5, <3>1, CancelEffect
      <3>3. CASE StateOf(t) = id
        BY <1>4, <2>1, <2>2, <3>2, <3>3
      <3>4. CASE StateOf(t) # id
        BY <1>5, <2>1, <2>2, <2>3, <3>2, <3>4 DEF Changed
      <3> QED
        BY <3>3, <3>4
    <2> QED
      BY <1>9, <2>4, <2>5 DEF AssignNext, RevokeCancel
  <1>10. CASE AssignState
    <2>1. /\ cur \in TPs /\ Len(ps) \in Nat /\ offsets[cur] \in Int
          /\ \A j \in 1 .. Len(ps) : ps'[j] = ps[j]
          /\ ps'[Len(ps) + 1] = NewPartitionState(cur, offsets[cur])
      BY <1>10, NewEffect DEF DataOK
    <2>2. /\ UNCHANGED <<event, todo, assigned, position>> /\ pc = "assignWait" /\ pc' = "assign"
          /\ cur \in DOMAIN offsets /\ cur \notin assigned
      BY <1>10 DEF AssignState, ControlOK, Assigning
    <2>3. /\ stateMap'[Partition(cur)] = Len(ps) + 1
          /\ Partition(tp) # Partition(cur) => stateMap'[Partition(tp)] = id
      BY <1>10, <1>2, <2>1, TPFacts DEF AssignState, MapOK
    <2>4. CASE tp = cur
      <3>1. \A o \in V : offsets[cur] <= o
        BY <1>0, <1>1, <2>2, <2>4 DEF CommitsOK, U
      <3>2. V \in SUBSET Offsets
        BY <1>1
      <3>3. Covers(NewPartitionState(cur, offsets[cur]), V, FALSE, position[tp])
        BY <2>1, <3>1, <3>2, CoversNew
      <3>4. (tp \in assigned') = FALSE /\ position'[tp] = position[tp]
            /\ ps'[stateMap'[Partition(tp)]] = NewPartitionState(cur, offsets[cur])
        BY <2>1, <2>2, <2>3, <2>4
      <3> QED
        BY <3>3, <3>4 DEF CoversNext, V
    <2>5. CASE tp # cur
      <3>1. Partition(tp) # Partition(cur)
        BY <1>0, <2>1, <2>5 DEF Sole
      <3>2. Opened(tp)
        BY <1>0, <2>2, <2>5 DEF Opened, Assigning
      <3>3. id # None /\ id \in 1 .. Len(ps)
        BY <1>0, <1>3, <2>3, <3>1, <3>2
      <3> QED
        BY <1>5, <2>1, <2>2, <2>3, <3>1, <3>2, <3>3
    <2> QED
      BY <2>4, <2>5
  <1>11. CASE AssignDone
    <2>1. /\ pc = "assign" /\ todo = {} /\ ps' = ps /\ stateMap' = stateMap
          /\ assigned' = assigned \cup event /\ event \cap assigned = {}
          /\ id # None /\ stateMap'[Partition(tp)] = id /\ pc' = "poll"
      BY <1>0, <1>11 DEF AssignDone, ControlOK, Assigning
    <2>2. Opened(tp)
      BY <1>0, <2>1 DEF Opened, Assigning
    <2>3. Covers(ps[id], U, tp \in assigned, position[tp]) /\ ps[id] \in PartitionStates
      BY <1>3, <2>1, <2>2
    <2>4. CASE tp \notin event
      <3>1. position'[tp] = position[tp]
        BY <1>11, <2>4 DEF AssignDone
      <3> QED
        BY <1>5, <2>1, <2>2, <2>4, <3>1
    <2>5. CASE tp \in event
      <3>1. position'[tp] = (IF committed[tp] < 0 THEN 0 ELSE committed[tp])
        BY <1>11, <2>5 DEF AssignDone
      <3>2. committed[tp] \in Int /\ \A o \in U : committed[tp] <= o /\ o \in Nat
        BY <1>0, <1>1 DEF CommitsOK, U, DataOK, Offsets
      <3>3. position'[tp] \in Int /\ \A o \in U : position'[tp] <= o
        BY <3>1, <3>2
      <3>4. (tp \in assigned) = FALSE /\ (tp \in assigned') = TRUE
        BY <2>1, <2>5
      <3>5. Covers(ps[id], V, TRUE, position'[tp])
        BY <1>1, <2>3, <3>3, <3>4, CoversAssign
      <3> QED
        BY <2>1, <3>4, <3>5 DEF CoversNext, V
    <2> QED
      BY <2>4, <2>5
  <1>12. CASE RevokeFind
    <2>1. /\ UNCHANGED <<event, todo, assigned, position>> /\ stateMap' = stateMap
          /\ pc = "revokeWait" /\ pc' \in {"revoke", "revokeLock"}
          /\ id # None /\ stateMap'[Partition(tp)] = id
      BY <1>0, <1>12 DEF RevokeFind
    <2>2. Opened(tp)
      BY <1>0, <2>1 DEF Opened, Assigning
    <2>3. Covers(ps[id], U, tp \in assigned, position[tp]) /\ id \in 1 .. Len(ps) /\ ps[id] \in PartitionStates
      BY <1>3, <2>1, <2>2
    <2>4. CASE ps'[id] = ps[id]
      BY <1>5, <2>1, <2>2, <2>4
    <2>5. ASSUME StateOf(cur) = id,
                 NEW q \in FindLatestToCommit(ps[id]), ps' = [ps EXCEPT ![id] = q]
          PROVE  CoversNext(tp)
      <3>1. /\ q \in PartitionStates /\ q.MaxReceived = ps[id].MaxReceived
            /\ q.LastCommited = ps[id].LastCommited
        BY <2>3, <2>5, ScanFacts
      <3>2. ps'[id] = q
        BY <2>3, <2>5 DEF DataOK
      <3>3. Covers(q, V, tp \in assigned, position[tp])
        BY <1>1, <2>3, <2>5, <3>1, CoversScan
      <3> QED
        BY <2>1, <3>2, <3>3 DEF CoversNext, V
    <2>6. CASE StateOf(cur) # id
      <3>1. \/ ps' = ps
            \/ \E q : ps' = [ps EXCEPT ![StateOf(cur)] = q]
        BY <1>12 DEF RevokeFind
      <3>2. ps'[id] = ps[id]
        BY <2>3, <2>6, <3>1 DEF DataOK
      <3> QED
        BY <2>4, <3>2
    <2>7. CASE StateOf(cur) = id
      <3>1. \/ ps' = ps
            \/ \E q \in FindLatestToCommit(ps[id]) : ps' = [ps EXCEPT ![id] = q]
        BY <1>12, <2>7 DEF RevokeFind
      <3> QED
        BY <2>4, <2>5, <2>7, <3>1
    <2> QED
      BY <2>6, <2>7
  <1>13. CASE RevokeDelete
    <2>1. /\ UNCHANGED <<event, todo, assigned, position>> /\ ps' = ps /\ cur \in TPs
          /\ pc = "revokeLock" /\ pc' = "revoke"
      BY <1>13 DEF RevokeDelete, ControlOK, Revoking, DataOK
    <2>2. Opened(tp)
      BY <1>0, <2>1 DEF Opened, Assigning
    <2>3. Partition(tp) # Partition(cur) /\ stateMap'[Partition(tp)] = id
      BY <1>0, <1>2, <1>13, <2>1 DEF RevokeDelete, MapOK, None
    <2> QED
      BY <1>0, <1>5, <2>1, <2>2, <2>3
  <1>14. CASE RevokeDone
    <2>1. /\ ps' = ps /\ stateMap' = stateMap /\ position' = position /\ pc' = "poll"
          /\ assigned' \subseteq assigned /\ id # None /\ stateMap'[Partition(tp)] = id
      BY <1>0, <1>14 DEF RevokeDone
    <2>2. tp \in assigned' /\ tp \in assigned /\ Opened(tp)
      BY <1>0, <2>1 DEF Opened, Assigning
    <2> QED
      BY <1>5, <2>1, <2>2
  <1>15. CASE Crash
    BY <1>0, <1>2, <1>15 DEF Crash
  <1>16. CASE \/ Startup \/ Enqueue \/ SkipUndecodable \/ AssignLock
             \/ (\E S \in SUBSET TPs : AssignEvent(S) \/ RevokeEvent(S))
             \/ (\E t \in TPs : RevokeMissing(t))
    <2>1. ps' = ps /\ stateMap' = stateMap /\ UNCHANGED <<assigned, position>>
      BY <1>16 DEF Startup, InitializeKafkaTopic, WaitForTopicReady, SubscribeTopics,
         Enqueue, SkipUndecodable, AssignLock, AssignEvent, RevokeEvent, RevokeMissing
    <2>2. Opened(tp)
      BY <1>0, <1>16, <2>1 DEF Startup, InitializeKafkaTopic, WaitForTopicReady, SubscribeTopics,
         Enqueue, SkipUndecodable, AssignLock, AssignEvent, RevokeEvent, RevokeMissing,
         Opened, Assigning, ControlOK
    <2> QED
      BY <1>0, <1>5, <2>1, <2>2
  <1> QED
    BY <1>6, <1>7, <1>8, <1>9, <1>10, <1>11, <1>12, <1>13, <1>14, <1>15, <1>16
       DEF Next, Rebalance, Elsewhere

-----------------------------------------------------------------------------
(***************************************************************************)
(* Committed offsets                                                       *)
(***************************************************************************)
\* A request of a commit loop for a partition whose number is its own.
LEMMA RequestIsSafe ==
  ASSUME DataOK, MapOK, SessionsOK, TracksOK, NEW id \in 1 .. Len(ps), ps[id].loop = "commit",
         Sole(Request(id)), NEW u \in Unreported(Request(id))
  PROVE  ps[id].latest <= u
  <1> DEFINE tp == Request(id)
  <1>1. tp \in TPs /\ Partition(tp) = ps[id].ID
    BY DEF DataOK, Request, Partition
  <1>2. StateOf(tp) = id /\ id # None
    BY <1>1 DEF MapOK, StateOf, None
  <1>3. Opened(tp)
    BY <1>1, <1>2 DEF SessionsOK, Ended
  <1>4. Covers(ps[id], Unreported(tp), tp \in assigned, position[tp])
    BY <1>1, <1>2, <1>3 DEF TracksOK, Tracks
  <1> QED
    BY <1>4 DEF Covers

LEMMA NextCommits ==
  ASSUME DataOK, ControlOK, MapOK, SessionsOK, TracksOK, CommitsOK, Next
  PROVE  CommitsOK'
  <1> USE DEF psVars, loopVars, groupVars, envVars
  <1>0. SUFFICES ASSUME NEW tp \in TPs, Sole(tp), NEW o \in Unreported(tp)'
                 PROVE  committed'[tp] <= o /\ (tp \in DOMAIN offsets' => offsets'[tp] <= o)
    BY DEF CommitsOK, Sole
  <1> DEFINE Safe == committed'[tp] <= o /\ (tp \in DOMAIN offsets' => offsets'[tp] <= o)
  <1>1. o \in Unreported(tp) /\ o \in Int /\ 0 <= o
    BY ReportedGrows DEF Unreported, Offsets
  <1>2. /\ committed[tp] <= o /\ (tp \in DOMAIN offsets => offsets[tp] <= o)
        /\ committed[tp] \in Int
    BY <1>0, <1>1 DEF CommitsOK, DataOK
  <1>3. ASSUME UNCHANGED committed, UNCHANGED offsets \/ offsets' = NoFunction PROVE Safe
    BY <1>2, <1>3 DEF NoFunction
  <1>4. ASSUME NEW id \in DOMAIN ps, CommitOk(id) \/ CommitErr(id) PROVE Safe
    <2>1. id \in 1 .. Len(ps) /\ ps[id].loop = "commit"
      BY <1>4 DEF DataOK, CommitOk, CommitErr
    <2>2. /\ UNCHANGED offsets
          /\ \/ UNCHANGED committed
             \/ committed' = [committed EXCEPT ![Request(id)] = ps[id].latest]
      BY <1>4 DEF CommitOk, CommitErr
    <2>3. CASE Request(id) = tp
      <3>1. ps[id].latest <= o
        BY <1>0, <1>1, <2>1, <2>3, RequestIsSafe
      <3> QED
        BY <1>2, <2>2, <2>3, <3>1 DEF DataOK
    <2>4. CASE Request(id) # tp
      BY <1>2, <2>2, <2>4 DEF DataOK
    <2> QED
      BY <2>3, <2>4
  <1>5. CASE AssignLock
    <2>1. UNCHANGED committed /\ DOMAIN offsets' = event
      BY <1>5 DEF AssignLock
    <2>2. tp \in event => offsets'[tp] \in {committed[tp], OffsetBeginning}
      BY <1>5 DEF AssignLock
    <2> QED
      BY <1>1, <1>2, <2>1, <2>2 DEF OffsetBeginning
  <1>6. CASE RevokeFind
    <2>1. /\ cur \in TPs /\ cur \in assigned /\ StateOf(cur) # None /\ pc = "revokeWait"
          /\ UNCHANGED committed
      BY <1>6 DEF RevokeFind, ControlOK, Revoking, DataOK
    <2>2. CASE UNCHANGED offsets
      BY <1>3, <2>1, <2>2
    <2>3. ASSUME NEW q \in FindLatestToCommit(ps[StateOf(cur)]), offsets' = Put(offsets, cur, q.latest)
          PROVE  Safe
      <3>1. CASE cur = tp
        <4>1. Covers(ps[StateOf(tp)], Unreported(tp), tp \in assigned, position[tp])
          BY <1>0, <2>1, <3>1 DEF Opened, TracksOK, Tracks
        <4>2. ps[StateOf(tp)] \in PartitionStates
          BY <2>1, <3>1, MapEntry, TPFacts, IdsTyped DEF StateOf
        <4>3. position[tp] \in Int /\ Unreported(tp) \in SUBSET Offsets
          BY DEF DataOK, Unreported
        <4>4. q.latest <= o
          BY <1>1, <2>3, <3>1, <4>1, <4>2, <4>3, ScanIsSafe
        <4>5. offsets'[tp] = q.latest
          BY <2>3, <3>1 DEF Put
        <4> QED
          BY <1>2, <2>1, <4>4, <4>5
      <3>2. CASE cur # tp
        <4>1. tp \in DOMAIN offsets' => tp \in DOMAIN offsets /\ offsets'[tp] = offsets[tp]
          BY <2>3, <3>2 DEF Put
        <4> QED
          BY <1>2, <2>1, <4>1
      <3> QED
        BY <3>1, <3>2
    <2>4. \/ UNCHANGED offsets
          \/ \E q \in FindLatestToCommit(ps[StateOf(cur)]) : offsets' = Put(offsets, cur, q.latest)
      BY <1>6 DEF RevokeFind
    <2> QED
      BY <2>2, <2>3, <2>4
  <1>7. CASE RevokeDone
    <2>1. offsets' = NoFunction /\ DOMAIN NoFunction = {}
      BY <1>7 DEF RevokeDone, NoFunction
    <2>2. committed'[tp] = committed[tp] \/ (tp \in DOMAIN offsets /\ committed'[tp] = offsets[tp])
      BY <1>7 DEF RevokeDone
    <2> QED
      BY <1>2, <2>1, <2>2
  <1>8. ASSUME NEW t \in TPs, NEW l \in Offsets, OtherMember(t, l) PROVE Safe
    <2>1. UNCHANGED offsets
      BY <1>8 DEF OtherMember
    <2>2. CASE t = tp
      <3>1. <<tp, o>> \notin reported' /\ l \in Int
        BY <1>0 DEF Unreported, Offsets
      <3>2. o \notin 0 .. l
        BY <1>8, <2>2, <3>1 DEF OtherMember
      <3>3. committed'[tp] = l + 1
        BY <1>8, <2>2 DEF OtherMember, DataOK
      <3> QED
        BY <1>1, <1>2, <2>1, <3>1, <3>2, <3>3
    <2>3. CASE t # tp
      <3>1. committed'[tp] = committed[tp]
        BY <1>8, <2>3 DEF OtherMember, DataOK
      <3> QED
        BY <1>2, <2>1, <3>1
    <2> QED
      BY <2>2, <2>3
  <1>9. CASE \/ Startup \/ Enqueue \/ Drop \/ SkipUndecodable \/ AssignState \/ AssignDone
             \/ RevokeDelete \/ Crash
             \/ (\E t \in TPs : Receive(t) \/ AssignNext(t) \/ RevokeMissing(t) \/ RevokeCancel(t))
             \/ (\E h \in handlers : Lookup(h) \/ LookupMissing(h))
             \/ (\E h \in handlers, s \in MsgState : WriteState(h, s))
             \/ (\E id \in DOMAIN ps : CommitTick(id) \/ RecordCommit(id) \/ LoopExit(id))
             \/ (\E S \in SUBSET TPs : AssignEvent(S) \/ RevokeEvent(S))
    <2>1. UNCHANGED committed /\ (UNCHANGED offsets \/ offsets' = NoFunction)
      BY <1>9 DEF Startup, InitializeKafkaTopic, WaitForTopicReady, SubscribeTopics,
         Receive, Enqueue, Drop, SkipUndecodable, Lookup, LookupMissing, WriteState, CommitTick,
         RecordCommit, LoopExit, AssignEvent, RevokeEvent, AssignState, AssignDone, AssignNext,
         RevokeDelete, RevokeMissing, RevokeCancel, Crash
    <2> QED
      BY <1>3, <2>1
  <1> QED
    BY <1>4, <1>5, <1>6, <1>7, <1>8, <1>9 DEF Next, Rebalance, CommitLoop

-----------------------------------------------------------------------------
(***************************************************************************)
(* The pending entries                                                     *)
(***************************************************************************)
PendingAt(p, o) ==
  /\ stateMap[p] # None /\ o \in DOMAIN ps[stateMap[p]].State
  /\ ps[stateMap[p]].State[o] = Pending

Explained(p, o) ==
  \/ \E tp \in TPs : Partition(tp) = p /\ <<tp, o>> \in Undecodable
  \/ pc = "send" /\ Partition(cur[1]) = p /\ cur[2] = o
  \/ \E h \in handlers : Partition(h.tp) = p /\ h.off = o /\ h.ps \in {None, stateMap[p]}

LEMMA PendingIs ==
  PendingHasHandler <=> \A p \in Partitions : \A o : PendingAt(p, o) => Explained(p, o)
  BY DEF PendingHasHandler, PendingAt, Explained

LEMMA NextPending ==
  ASSUME DataOK, ControlOK, MapOK, PendingHasHandler, Next
  PROVE  PendingHasHandler'
  <1> USE DEF psVars, loopVars, groupVars, envVars
  <1>0. SUFFICES ASSUME NEW p \in Partitions, NEW o, PendingAt(p, o)' PROVE Explained(p, o)'
    BY DEF PendingHasHandler, PendingAt, Explained
  <1>1. PendingAt(p, o) => Explained(p, o)
    BY PendingIs
  <1>2. /\ stateMap[p] # None => stateMap[p] \in 1 .. Len(ps) /\ ps[stateMap[p]].ID = p
        /\ Pending # Success /\ Pending # Error
    BY MapEntry DEF Pending, Success, Error
  \* A write of a finished entry leaves the others as they were.
  <1>3. ASSUME NEW j \in 1 .. Len(ps), NEW k \in Offsets, NEW v \in {Success, Error},
               ps' = [ps EXCEPT ![j].State = Put(@, k, v)], UNCHANGED stateMap
        PROVE  PendingAt(p, o) /\ ~(stateMap[p] = j /\ o = k)
    <2> DEFINE id == stateMap[p]
    <2>1. id # None /\ o \in DOMAIN ps'[id].State /\ ps'[id].State[o] = Pending
      BY <1>0, <1>3 DEF PendingAt
    <2>2. v \in MsgState /\ v # Pending
      BY <1>2 DEF MsgState
    <2>3. Changed(j) /\ ps'[j].State = Put(ps[j].State, k, v)
      BY <1>3, <2>2, WriteEffect
    <2>4. CASE id # j
      BY <1>2, <2>1, <2>3, <2>4 DEF Changed, PendingAt
    <2>5. CASE id = j
      <3> DEFINE m == Put(ps[j].State, k, v)
      <3>1. ps[j].State \in StateMaps
        BY <2>3 DEF Changed, PartitionStates
      <3>2. /\ DOMAIN m = DOMAIN ps[j].State \cup {k} /\ m[k] = v
            /\ \A i \in DOMAIN ps[j].State : i # k => m[i] = ps[j].State[i]
        BY <2>2, <3>1, PutFacts
      <3> HIDE DEF m
      <3>3. o \in DOMAIN m /\ m[o] = Pending
        BY <2>1, <2>3, <2>5 DEF m
      <3>4. o # k /\ o \in DOMAIN ps[j].State /\ ps[j].State[o] = Pending
        BY <2>2, <3>2, <3>3
      <3> QED
        BY <2>1, <2>5, <3>4 DEF PendingAt
    <2> QED
      BY <2>4, <2>5
  \* The consume loop is not at a message, and nobody's report is made.
  <1>4. ASSUME PendingAt(p, o), pc # "send", handlers' = handlers, stateMap'[p] = stateMap[p]
        PROVE  Explained(p, o)'
    BY <1>1, <1>4 DEF Explained
  <1>5. ASSUME PendingAt(p, o), UNCHANGED <<pc, cur, handlers, stateMap>> PROVE Explained(p, o)'
    BY <1>1, <1>5 DEF Explained
  <1>6. ASSUME NEW t \in TPs, Receive(t) PROVE Explained(p, o)'
    <2>1. /\ pc = "poll" /\ pc' = "send" /\ cur' = <<t, position[t]>>
          /\ handlers' = handlers /\ stateMap' = stateMap
      BY <1>6 DEF Receive
    <2>2. CASE Partition(t) = p /\ position[t] = o
      BY <2>1, <2>2 DEF Explained
    <2>3. CASE ~(Partition(t) = p /\ position[t] = o)
      <3>1. CASE StateOf(t) = None \/ Partition(t) # p
        <4>1. ps'[stateMap[p]] = ps[stateMap[p]]
          <5>1. CASE StateOf(t) = None
            BY <1>6, <5>1 DEF Receive
          <5>2. CASE StateOf(t) # None
            <6>1. stateMap[p] # None /\ Partition(t) # p
              BY <1>0, <2>1, <3>1, <5>2 DEF PendingAt
            <6>2. ps[StateOf(t)].ID = Partition(t) /\ StateOf(t) # stateMap[p]
              BY <1>2, <5>2, <6>1, MapEntry, TPFacts DEF StateOf
            <6> QED
              BY <1>2, <1>6, <5>2, <6>1, <6>2, AppendEffect DEF Changed
          <5> QED
            BY <5>1, <5>2
        <4>2. PendingAt(p, o)
          BY <1>0, <2>1, <4>1 DEF PendingAt
        <4> QED
          BY <1>4, <2>1, <4>2
      <3>2. CASE StateOf(t) # None /\ Partition(t) = p
        <4> DEFINE id == stateMap[p]  m == Put(ps[id].State, position[t], Pending)
        <4>1. StateOf(t) = id /\ position[t] # o
          BY <2>3, <3>2 DEF StateOf
        <4>2. Changed(id) /\ position[t] \in Offsets /\ ps'[id].State = m
          BY <1>6, <3>2, <4>1, AppendEffect
        <4>3. ps[id].State \in StateMaps /\ Pending \in MsgState
          BY <4>2 DEF Changed, PartitionStates, MsgState
        <4>4. /\ DOMAIN m = DOMAIN ps[id].State \cup {position[t]}
              /\ \A i \in DOMAIN ps[id].State : i # position[t] => m[i] = ps[id].State[i]
          <5> DEFINE n == ps[id].State  k == position[t]
          <5>1. n \in StateMaps /\ k \in Offsets
            BY <4>2, <4>3
          <5> HIDE DEF n, k
          <5>2. /\ DOMAIN Put(n, k, Pending) = DOMAIN n \cup {k}
                /\ \A i \in DOMAIN n : i # k => Put(n, k, Pending)[i] = n[i]
            BY <4>3, <5>1, PutFacts
          <5> QED
            BY <5>2 DEF n, k
        <4> HIDE DEF m
        <4>5. id # None /\ o \in DOMAIN m /\ m[o] = Pending
          BY <1>0, <2>1, <4>2 DEF PendingAt
        <4>6. PendingAt(p, o)
          BY <4>1, <4>4, <4>5 DEF PendingAt
        <4> QED
          BY <1>4, <2>1, <4>6
      <3> QED
        BY <3>1, <3>2
    <2> QED
      BY <2>2, <2>3
  <1>7. CASE SkipUndecodable
    <2>1. /\ cur \in Undecodable /\ handlers' = handlers /\ stateMap' = stateMap /\ ps' = ps
          /\ cur[1] \in TPs /\ cur = <<cur[1], cur[2]>>
      BY <1>7 DEF SkipUndecodable, ControlOK, Messages
    <2>2. Explained(p, o)
      BY <1>0, <1>1, <2>1 DEF PendingAt
    <2> QED
      BY <2>1, <2>2 DEF Explained
  <1>8. CASE Enqueue
    <2> DEFINE g == [tp |-> cur[1], off |-> cur[2], ps |-> None, session |-> StateOf(cur[1])]
    <2>1. handlers' = handlers \cup {g} /\ stateMap' = stateMap /\ ps' = ps
      BY <1>8 DEF Enqueue
    <2>2. g.tp = cur[1] /\ g.off = cur[2] /\ g.ps = None
      OBVIOUS
    <2> HIDE DEF g
    <2>3. Explained(p, o)
      BY <1>0, <1>1, <2>1 DEF PendingAt
    <2> QED
      BY <2>1, <2>2, <2>3 DEF Explained
  <1>9. CASE Drop
    <2>1. cur[1] \in TPs /\ cur[2] \in Offsets /\ handlers' = handlers /\ stateMap' = stateMap
      BY <1>9 DEF Drop, ControlOK, Messages
    <2>2. CASE StateOf(cur[1]) = None
      <3>1. PendingAt(p, o) /\ Partition(cur[1]) # p
        BY <1>0, <1>9, <2>1, <2>2 DEF Drop, PendingAt, StateOf
      <3> QED
        BY <1>1, <2>1, <3>1 DEF Explained
    <2>3. CASE StateOf(cur[1]) # None
      <3>1. StateOf(cur[1]) \in 1 .. Len(ps)
        BY <2>1, <2>3, MapEntry, TPFacts DEF StateOf
      <3>2. ps' = [ps EXCEPT ![StateOf(cur[1])].State = Put(@, cur[2], Error)]
        BY <1>9, <2>3 DEF Drop
      <3>3. PendingAt(p, o) /\ ~(stateMap[p] = StateOf(cur[1]) /\ o = cur[2])
        BY <1>3, <2>1, <3>1, <3>2
      <3>4. ~(Partition(cur[1]) = p /\ cur[2] = o)
        BY <3>3 DEF StateOf
      <3> QED
        BY <1>1, <2>1, <3>3, <3>4 DEF Explained
    <2> QED
      BY <2>2, <2>3
  <1>10. ASSUME NEW h \in handlers, Lookup(h) PROVE Explained(p, o)'
    <2> DEFINE g == [h EXCEPT !.ps = StateOf(h.tp)]
    <2>1. /\ handlers' = (handlers \ {h}) \cup {g} /\ UNCHANGED <<pc, cur>>
          /\ ps' = ps /\ stateMap' = stateMap
      BY <1>10 DEF Lookup
    <2>2. g.tp = h.tp /\ g.off = h.off /\ g.ps = stateMap[Partition(h.tp)]
      BY DEF DataOK, StateOf
    <2> HIDE DEF g
    <2>3. Explained(p, o)
      BY <1>0, <1>1, <2>1 DEF PendingAt
    <2>4. CASE \E f \in handlers : Partition(f.tp) = p /\ f.off = o /\ f.ps \in {None, stateMap[p]}
      <3>1. PICK f \in handlers : Partition(f.tp) = p /\ f.off = o /\ f.ps \in {None, stateMap[p]}
        BY <2>4
      <3>2. CASE f = h
        BY <2>1, <2>2, <3>1, <3>2 DEF Explained
      <3>3. CASE f # h
        BY <2>1, <3>1, <3>3 DEF Explained
      <3> QED
        BY <3>2, <3>3
    <2> QED
      BY <2>1, <2>3, <2>4 DEF Explained
  <1>11. ASSUME NEW h \in handlers, LookupMissing(h) PROVE Explained(p, o)'
    <2>1. /\ handlers' = handlers \ {h} /\ UNCHANGED <<pc, cur>> /\ ps' = ps /\ stateMap' = stateMap
          /\ stateMap[Partition(h.tp)] = None
      BY <1>11 DEF LookupMissing, StateOf
    <2>2. Explained(p, o) /\ Partition(h.tp) # p
      BY <1>0, <1>1, <2>1 DEF PendingAt
    <2> QED
      BY <2>1, <2>2 DEF Explained
  <1>12. ASSUME NEW h \in handlers, NEW s \in MsgState, WriteState(h, s) PROVE Explained(p, o)'
    <2>1. /\ handlers' = handlers \ {h} /\ UNCHANGED <<pc, cur>> /\ stateMap' = stateMap
          /\ ps' = [ps EXCEPT ![h.ps].State = Put(@, h.off, s)] /\ s \in {Success, Error}
          /\ h.ps # None
      BY <1>12 DEF WriteState
    <2>2. h.ps \in 1 .. Len(ps) /\ h.off \in Offsets
      BY <2>1 DEF MapOK, DataOK
    <2>3. PendingAt(p, o) /\ ~(stateMap[p] = h.ps /\ o = h.off)
      BY <1>3, <2>1, <2>2
    <2>4. Explained(p, o)
      BY <1>1, <2>3
    <2>5. CASE \E f \in handlers : Partition(f.tp) = p /\ f.off = o /\ f.ps \in {None, stateMap[p]}
      <3>1. PICK f \in handlers : Partition(f.tp) = p /\ f.off = o /\ f.ps \in {None, stateMap[p]}
        BY <2>5
      <3>2. f # h
        BY <2>1, <2>3, <3>1
      <3> QED
        BY <2>1, <3>1, <3>2 DEF Explained
    <2> QED
      BY <2>1, <2>4, <2>5 DEF Explained
  <1>13. ASSUME NEW j \in DOMAIN ps, CommitLoop(j) PROVE Explained(p, o)'
    <2>0. /\ j \in 1 .. Len(ps) /\ ps[j] \in PartitionStates
          /\ UNCHANGED <<pc, cur, handlers>> /\ stateMap' = stateMap
      BY <1>13 DEF DataOK, CommitLoop, CommitTick, CommitOk, CommitErr, RecordCommit, LoopExit
    <2>1. /\ Changed(j) /\ DOMAIN ps'[j].State \subseteq DOMAIN ps[j].State
          /\ \A i \in DOMAIN ps'[j].State : ps'[j].State[i] = ps[j].State[i]
      <3>1. CASE CommitTick(j)
        <4>1. PICK r \in FindLatestToCommit(ps[j]) : ps' = [ps EXCEPT ![j] = [r EXCEPT !.loop = "commit"]]
          BY <3>1 DEF CommitTick
        <4>2. Changed(j) /\ ps'[j].State = r.State
          BY <2>0, <4>1, ScanEffect DEF Loops
        <4>3. /\ DOMAIN r.State \subseteq DOMAIN ps[j].State
              /\ \A i \in DOMAIN r.State : r.State[i] = ps[j].State[i]
          BY <2>0, <4>1, ScanFacts
        <4> QED
          BY <4>2, <4>3
      <3>2. CASE CommitOk(j) \/ CommitErr(j) \/ LoopExit(j)
        BY <2>0, <3>2, LoopEffect DEF CommitOk, CommitErr, LoopExit, Loops
      <3>3. CASE RecordCommit(j)
        BY <2>0, <3>3, RecordEffect
      <3> QED
        BY <1>13, <3>1, <3>2, <3>3 DEF CommitLoop
    <2>2. PendingAt(p, o)
      <3>1. CASE stateMap[p] = j
        BY <1>0, <2>0, <2>1, <3>1 DEF PendingAt
      <3>2. CASE stateMap[p] # j
        BY <1>0, <1>2, <2>0, <2>1, <3>2 DEF PendingAt, Changed
      <3> QED
        BY <3>1, <3>2
    <2> QED
      BY <1>5, <2>0, <2>2
  <1>14. ASSUME NEW t \in TPs, AssignNext(t) \/ RevokeCancel(t) PROVE Explained(p, o)'
    <2>1. pc # "send" /\ handlers' = handlers /\ stateMap' = stateMap
      BY <1>14 DEF AssignNext, RevokeCancel
    <2>2. PendingAt(p, o)
      <3>1. CASE ps' = ps
        BY <1>0, <2>1, <3>1 DEF PendingAt
      <3>2. CASE StateOf(t) # None /\ ps' = [ps EXCEPT ![StateOf(t)].ctxDone = TRUE]
        <4>1. StateOf(t) \in 1 .. Len(ps)
          BY <3>2, MapEntry, TPFacts DEF StateOf
        <4>2. Changed(StateOf(t)) /\ ps'[StateOf(t)].State = ps[StateOf(t)].State
          BY <3>2, <4>1, CancelEffect
        <4>3. stateMap[p] # None /\ ps'[stateMap[p]].State = ps[stateMap[p]].State
          BY <1>0, <1>2, <2>1, <4>2 DEF Changed, PendingAt
        <4> QED
          BY <1>0, <2>1, <4>3 DEF PendingAt
      <3> QED
        BY <1>14, <3>1, <3>2 DEF AssignNext, RevokeCancel
    <2> QED
      BY <1>4, <2>1, <2>2
  <1>15. CASE AssignState
    <2>1. /\ cur \in TPs /\ Len(ps) \in Nat
          /\ \A j \in 1 .. Len(ps) : ps'[j] = ps[j]
          /\ ps'[Len(ps) + 1] = NewPartitionState(cur, offsets[cur])
      BY <1>15, NewEffect DEF DataOK
    <2>2. DOMAIN ps'[Len(ps) + 1].State = {}
      BY <2>1 DEF NewPartitionState
    <2>3. stateMap'[Partition(cur)] = Len(ps) + 1 /\ (p # Partition(cur) => stateMap'[p] = stateMap[p])
      BY <1>15, <2>1, TPFacts DEF AssignState, MapOK
    <2>4. p # Partition(cur) /\ stateMap'[p] = stateMap[p]
      BY <1>0, <2>2, <2>3 DEF PendingAt
    <2>5. PendingAt(p, o)
      BY <1>0, <1>2, <2>1, <2>4 DEF PendingAt
    <2>6. pc # "send" /\ handlers' = handlers
      BY <1>15 DEF AssignState
    <2> QED
      BY <1>4, <2>4, <2>5, <2>6
  <1>16. CASE RevokeFind
    <2>1. /\ pc # "send" /\ handlers' = handlers /\ stateMap' = stateMap
          /\ cur \in TPs /\ StateOf(cur) # None
      BY <1>16 DEF RevokeFind, ControlOK, Revoking, DataOK
    <2>2. StateOf(cur) \in 1 .. Len(ps) /\ ps[StateOf(cur)] \in PartitionStates
      BY <2>1, MapEntry, TPFacts, IdsTyped DEF StateOf
    <2>3. CASE ps' = ps
      BY <1>0, <1>4, <2>1, <2>3 DEF PendingAt
    <2>4. ASSUME NEW q \in FindLatestToCommit(ps[StateOf(cur)]), ps' = [ps EXCEPT ![StateOf(cur)] = q]
          PROVE  Explained(p, o)'
      <3>1. /\ q \in PartitionStates /\ q.ID = ps[StateOf(cur)].ID
            /\ DOMAIN q.State \subseteq DOMAIN ps[StateOf(cur)].State
            /\ \A i \in DOMAIN q.State : q.State[i] = ps[StateOf(cur)].State[i]
        BY <2>2, <2>4, ScanFacts
      <3>2. Changed(StateOf(cur)) /\ ps'[StateOf(cur)] = q
        BY <2>2, <2>4, <3>1, ChangeOne DEF DataOK
      <3>3. PendingAt(p, o)
        <4>1. CASE stateMap[p] = StateOf(cur)
          BY <1>0, <2>1, <3>1, <3>2, <4>1 DEF PendingAt
        <4>2. CASE stateMap[p] # StateOf(cur)
          BY <1>0, <1>2, <2>1, <3>2, <4>2 DEF PendingAt, Changed
        <4> QED
          BY <4>1, <4>2
      <3> QED
        BY <1>4, <2>1, <3>3
    <2> QED
      BY <1>16, <2>3, <2>4 DEF RevokeFind
  <1>17. CASE RevokeDelete
    <2>1. /\ pc # "send" /\ handlers' = handlers /\ ps' = ps
          /\ stateMap' = [stateMap EXCEPT ![Partition(cur)] = None]
      BY <1>17 DEF RevokeDelete
    <2>2. p # Partition(cur) /\ stateMap'[p] = stateMap[p]
      BY <1>0, <2>1 DEF PendingAt, MapOK
    <2>3. PendingAt(p, o)
      BY <1>0, <2>1, <2>2 DEF PendingAt
    <2> QED
      BY <1>4, <2>1, <2>2, <2>3
  <1>18. CASE Crash
    BY <1>0, <1>18 DEF Crash, PendingAt
  <1>19. ASSUME NEW t \in TPs, NEW l \in Offsets, OtherMember(t, l) PROVE Explained(p, o)'
    <2>1. UNCHANGED <<pc, cur, handlers>> /\ ps' = ps /\ stateMap' = stateMap
      BY <1>19 DEF OtherMember
    <2> QED
      BY <1>0, <1>5, <2>1 DEF PendingAt
  <1>20. CASE \/ Startup \/ AssignLock \/ AssignDone \/ RevokeDone
              \/ (\E S \in SUBSET TPs : AssignEvent(S) \/ RevokeEvent(S))
              \/ (\E t \in TPs : RevokeMissing(t))
    <2>1. pc # "send" /\ handlers' = handlers /\ ps' = ps /\ stateMap' = stateMap
      BY <1>20 DEF Startup, InitializeKafkaTopic, WaitForTopicReady, SubscribeTopics,
         AssignLock, AssignDone, RevokeDone, AssignEvent, RevokeEvent, RevokeMissing
    <2> QED
      BY <1>0, <1>4, <2>1 DEF PendingAt
  <1> QED
    BY <1>6, <1>7, <1>8, <1>9, <1>10, <1>11, <1>12, <1>13, <1>14, <1>15, <1>16, <1>17, <1>18,
       <1>19, <1>20 DEF Next, Rebalance

-----------------------------------------------------------------------------
(***************************************************************************)
(* The theorems                                                            *)
(***************************************************************************)
LEMMA InitInv ==
  ASSUME Init
  PROVE  ConsumerInv /\ PendingHasHandler
  <1> USE DEF Init
  <1>1. DataOK
    BY DEF DataOK, NoOffset
  <1>2. ControlOK
    BY DEF ControlOK, Assigning, Revoking, NoFunction
  <1>3. MapOK
    BY DEF MapOK, None
  <1>4. \A tp \in TPs : StateOf(tp) = None
    BY TPFacts DEF StateOf
  <1>5. SessionsOK
    BY <1>4 DEF SessionsOK, Ended, Assigning, Revoking
  <1>6. TracksOK
    BY <1>4 DEF TracksOK
  <1>7. CommitsOK
    BY DEF CommitsOK, Unreported, Offsets, NoOffset, NoFunction
  <1>8. PendingHasHandler
    BY DEF PendingHasHandler
  <1> QED
    BY <1>1, <1>2, <1>3, <1>5, <1>6, <1>7, <1>8 DEF ConsumerInv

LEMMA StutterInv ==
  ASSUME UNCHANGED vars
  PROVE  ConsumerInv' = ConsumerInv /\ PendingHasHandler' = PendingHasHandler
  <1>1. UNCHANGED <<ps, stateMap, leaked, pc, event, todo, cur, offsets, handlers, assigned,
                    position, committed, reported, created, crashes>>
    BY DEF vars, psVars, loopVars, groupVars, envVars
  <1> QED
    BY <1>1 DEF ConsumerInv, DataOK, ControlOK, MapOK, SessionsOK, TracksOK, CommitsOK,
       PendingHasHandler, StateOf, Kept, Sole, Tracked, Ended, Opened, Unreported, Tracks

\* The invariant is inductive: states, map, callbacks, commit loops and handlers
\* agree through every interleaving, rebalance and crash.  (consumer.go:26-424)
THEOREM ConsumerInvariant == Spec => []ConsumerInv
  <1>1. Init => ConsumerInv
    BY InitInv
  <1>2. ConsumerInv /\ [Next]_vars => ConsumerInv'
    <2>1. ASSUME ConsumerInv, Next PROVE ConsumerInv'
      BY <2>1, NextData, NextControl, NextMap, NextSessions, NextTracks, NextCommits DEF ConsumerInv
    <2>2. ASSUME ConsumerInv, UNCHANGED vars PROVE ConsumerInv'
      BY <2>2, StutterInv
    <2> QED
      BY <2>1, <2>2
  <1> QED
    BY <1>1, <1>2, PTL DEF Spec

\* At-least-once for every number of sessions, crashes and other members: the
\* committed offset passes no message that was not reported, if the partition's
\* number belongs to one topic.  (commitOffsetLoop, revokePrtnCB)
THEOREM ConsumerCommitSafety == Spec => []CommitSafety
  <1>1. ConsumerInv => CommitSafety
    <2>1. ASSUME ConsumerInv, NEW tp \in TPs, Sole(tp), NEW o \in Offsets, o < committed[tp]
          PROVE  <<tp, o>> \in reported
      <3>1. committed[tp] \in Int /\ o \in Int
        BY <2>1 DEF ConsumerInv, DataOK, Offsets
      <3>2. o \notin Unreported(tp)
        BY <2>1, <3>1 DEF ConsumerInv, CommitsOK
      <3> QED
        BY <3>2 DEF Unreported
    <2> QED
      BY <2>1 DEF CommitSafety
  <1> QED
    BY <1>1, ConsumerInvariant, PTL

\* Outside the callbacks every assigned partition has a running state in the
\* map, for any number of rebalances.  (assignPrntCB, revokePrtnCB)
THEOREM AssignedTracked == Spec => []AssignedIsTracked
  <1>1. ConsumerInv => AssignedIsTracked
    BY DEF ConsumerInv, SessionsOK, AssignedIsTracked, Revoking, Kept, Tracked
  <1> QED
    BY <1>1, ConsumerInvariant, PTL

\* A pending entry of a state in the map has a handler that has not ended and whose
\* report, if it makes one, goes there, or could not be decoded, however late handlers look the map up.  (UpdateState, consumeLoop)
THEOREM PendingExplained == Spec => []PendingHasHandler
  <1>1. Init => PendingHasHandler
    BY InitInv
  <1>2. PendingHasHandler /\ ConsumerInv /\ [Next]_vars => PendingHasHandler'
    <2>1. ASSUME PendingHasHandler, ConsumerInv, Next PROVE PendingHasHandler'
      BY <2>1, NextPending DEF ConsumerInv
    <2>2. ASSUME PendingHasHandler, UNCHANGED vars PROVE PendingHasHandler'
      BY <2>2, StutterInv
    <2> QED
      BY <2>1, <2>2
  <1> QED
    BY <1>1, <1>2, ConsumerInvariant, PTL DEF Spec

=============================================================================
