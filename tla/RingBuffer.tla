----------------------------- MODULE RingBuffer -----------------------------
(***************************************************************************)
(* The message history of a chat room (chat/with-loop-per-client/          *)
(* ring-buffer.go): a slice of fixed size in which the newest message      *)
(* replaces the oldest.  Every method holds rb.mu from its first line to   *)
(* its return, so each is one operator on the whole buffer.                *)
(*                                                                         *)
(* The value of a message is its Kafka offset, the only field the buffer   *)
(* reads.  A slot that was never written holds the nil pointer NoMsg.      *)
(***************************************************************************)
EXTENDS Integers, Sequences

CONSTANT Size    \* rb.size, MaxMsgStoredPerRoom in the server

ASSUME SizeAssumption == Size \in Nat \ {0}

Slots == 0 .. Size - 1

\* The nil pointer.  Kafka offsets start at 0.
NoMsg == -1

Buffers == [buffer : [Slots -> Int], head : Slots, count : 0 .. Size]

NewRingBuffer == [buffer |-> [i \in Slots |-> NoMsg], head |-> 0, count |-> 0]

\* The slot after s, rb.size wrapping around to 0.
NextSlot(s) == (s + 1) % Size

Push(rb, m) ==
  [buffer |-> [rb.buffer EXCEPT ![rb.head] = m],
   head   |-> NextSlot(rb.head),
   count  |-> IF rb.count < Size THEN rb.count + 1 ELSE rb.count]

OldestIdx(rb) == (rb.head - rb.count + Size) % Size

\* The i-th message of the buffer, the oldest being the 0-th.
Nth(rb, i) == rb.buffer[(OldestIdx(rb) + i) % Size]

GetAllFromSlotZero(rb) == [i \in 1 .. rb.count |-> rb.buffer[i - 1]]

GetAll(rb) == [i \in 1 .. rb.count |-> Nth(rb, i - 1)]

\* The loop looks at slot oldestIdx + 1 in every iteration, so startPos is
\* either never set or set by the last iteration.
Probe(rb) == rb.buffer[NextSlot(OldestIdx(rb))]

\* A buffer with a single message (and more than one slot) has nothing in the
\* slot the loop looks at: reading its Offset is a nil dereference.
GetFromOffsetPanics(rb) == rb.count > 0 /\ Probe(rb) = NoMsg

GetFromOffsetFromOldest(rb, offset) ==
  IF rb.count > 0 /\ Probe(rb) > offset THEN GetAll(rb) ELSE << >>

GetFromOffset(rb, offset) ==
  IF rb.count > 0 /\ Probe(rb) > offset
  THEN << Nth(rb, rb.count - 1) >>
  ELSE << >>
=============================================================================
