----------------------------- MODULE RoomHistory -----------------------------
(***************************************************************************)
(* The ring buffer under a sequence of Push calls, against what a reader   *)
(* of the room expects of it: the newest messages, oldest first.           *)
(***************************************************************************)
EXTENDS RingBuffer

CONSTANTS Offsets,     \* the offsets messages of the room can have
          MaxPushed    \* bound on the number of messages pushed

ASSUME OffsetsAssumption == Offsets \subseteq Nat
ASSUME MaxPushedAssumption == MaxPushed \in Nat

VARIABLES rb,      \* the buffer
          pushed   \* history: every message ever pushed, in order

vars == << rb, pushed >>

TypeOK ==
  /\ rb \in Buffers
  /\ pushed \in Seq(Offsets)

Init ==
  /\ rb = NewRingBuffer
  /\ pushed = << >>

\* sendRoomMsg pushes the response it is about to send.  Goroutines of
\* different messages run in any order: offsets need not increase.
PushMsg(m) ==
  /\ Len(pushed) < MaxPushed
  /\ rb' = Push(rb, m)
  /\ pushed' = Append(pushed, m)

Next == \E m \in Offsets : PushMsg(m)

Spec == Init /\ [][Next]_vars

-----------------------------------------------------------------------------
\* The newest Size messages of the history, oldest first.
Latest ==
  IF Len(pushed) <= Size
  THEN pushed
  ELSE [i \in 1 .. Size |-> pushed[Len(pushed) - Size + i]]

\* GetAll returns the newest messages in the order of their pushes: nothing is
\* lost before the buffer is full, and after that exactly the oldest is.
GetAllIsLatest == GetAll(rb) = Latest

\* GetFromOffset never returns a message the caller has already seen, when
\* the messages of the room were pushed in the order of their offsets.
Ascending == \A i, j \in 1 .. Len(pushed) : i < j => pushed[i] < pushed[j]

ReplayIsNew ==
  Ascending =>
    \A o \in Offsets :
      ~ GetFromOffsetPanics(rb) =>
        \A i \in 1 .. Len(GetFromOffset(rb, o)) : GetFromOffset(rb, o)[i] > o

\* The dereference of an empty slot happens exactly when one message is stored.
PanicsOnlyOnOne == GetFromOffsetPanics(rb) <=> (Size > 1 /\ Len(pushed) = 1)

-----------------------------------------------------------------------------
\* The slot j steps behind slot h.
Back(h, j) == IF j <= h THEN h - j ELSE h - j + Size

\* The inductive invariant: counting back from the head one meets the history
\* backwards, and until the buffer is full the slots from the head on are empty.
RingInv ==
  /\ TypeOK
  /\ rb.count = IF Len(pushed) < Size THEN Len(pushed) ELSE Size
  /\ \A j \in 1 .. rb.count :
       rb.buffer[Back(rb.head, j)] = pushed[Len(pushed) + 1 - j]
  /\ Len(pushed) < Size =>
       /\ rb.head = Len(pushed)
       /\ \A s \in Slots : s >= Len(pushed) => rb.buffer[s] = NoMsg
=============================================================================
