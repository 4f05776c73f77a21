-------------------------- MODULE ChatVariants_proofs --------------------------
(***************************************************************************)
(* Proofs about programs of chat/: the ring buffer of a room, for every    *)
(* size and every history; the server with workers, for every hash and     *)
(* every number of clients; the rate limiter, for every rate and burst;    *)
(* the client-loop server, for all clients, rooms, workers and messages.   *)
(***************************************************************************)
EXTENDS RoomHistory, ClientLoopServer, WorkerServer, RateLimiter, FiniteSetTheorems, TLAPS

\* The remainders the code takes are of numbers below 2 * rb.size: each is the
\* number itself or the number less one size.
LEMMA Wrap ==
  ASSUME NEW x \in 0 .. (2 * Size - 1)
  PROVE  /\ x < Size => x % Size = x
         /\ Size <= x => x % Size = x - Size
<1>1. Size \in Nat \ {0} BY SizeAssumption
<1>2. x \in Nat /\ x < 2 * Size BY <1>1
<1>3. ASSUME x < Size PROVE x % Size = x BY <1>1, <1>2, <1>3, Z3
<1>4. ASSUME Size <= x PROVE x % Size = x - Size BY <1>1, <1>2, <1>4, Z3
<1> QED BY <1>3, <1>4

\* Advancing the head makes every distance to it one larger.
LEMMA NextSlotBack ==
  ASSUME NEW h \in Slots
  PROVE  /\ NextSlot(h) \in Slots
         /\ Back(NextSlot(h), 1) = h
         /\ h + 1 < Size => NextSlot(h) = h + 1
         /\ \A j \in 1 .. Size - 1 :
              /\ Back(NextSlot(h), j + 1) = Back(h, j)
              /\ Back(h, j) # h
              /\ Back(h, j) \in Slots
<1>1. Size \in Nat \ {0} BY SizeAssumption
<1>2. h + 1 \in 0 .. (2 * Size - 1) BY <1>1 DEF Slots
<1>3. NextSlot(h) = IF h + 1 < Size THEN h + 1 ELSE 0
  <2>1. CASE h + 1 < Size BY <2>1, <1>2, Wrap DEF NextSlot
  <2>2. CASE ~ (h + 1 < Size)
    <3>1. h + 1 = Size BY <2>2, <1>1 DEF Slots
    <3> QED BY <3>1, <1>2, <1>1, Wrap DEF NextSlot
  <2> QED BY <2>1, <2>2
<1> QED BY <1>1, <1>3 DEF Slots, Back

\* Reading forward from the oldest slot and counting back from the head meet.
LEMMA ForwardIsBack ==
  ASSUME NEW h \in Slots, NEW c \in 0 .. Size, NEW i \in 0 .. c - 1
  PROVE  (((h - c + Size) % Size) + i) % Size = Back(h, c - i)
<1>1. Size \in Nat \ {0} /\ h \in 0 .. Size - 1 BY SizeAssumption DEF Slots
<1>2. PICK o \in Int : /\ c <= h => o = h - c
                       /\ ~ (c <= h) => o = h - c + Size
  <2>1. CASE c <= h
    <3>1. h - c \in Int BY <1>1
    <3> QED BY <3>1, <2>1
  <2>2. CASE ~ (c <= h)
    <3>1. h - c + Size \in Int BY <1>1
    <3> QED BY <3>1, <2>2
  <2> QED BY <2>1, <2>2
<1>3. (h - c + Size) % Size = o
  <2>1. PICK y \in 0 .. (2 * Size - 1) : y = h - c + Size BY <1>1
  <2>2. CASE c <= h BY <2>1, <2>2, <1>1, <1>2, Wrap
  <2>3. CASE ~ (c <= h) BY <2>1, <2>3, <1>1, <1>2, Wrap
  <2> QED BY <2>2, <2>3
<1>4. PICK x \in 0 .. (2 * Size - 1) : x = o + i
  <2>1. o + i \in 0 .. (2 * Size - 1) BY <1>1, <1>2
  <2> QED BY <2>1
<1>5. x % Size = Back(h, c - i)
  <2>1. CASE x < Size
    <3>1. x % Size = x BY <2>1, <1>4, Wrap
    <3> QED BY <3>1, <2>1, <1>1, <1>2, <1>4 DEF Back
  <2>2. CASE Size <= x
    <3>1. x % Size = x - Size BY <2>2, <1>4, Wrap
    <3> QED BY <3>1, <2>2, <1>1, <1>2, <1>4 DEF Back
  <2> QED BY <2>1, <2>2, <1>1, <1>4
<1> QED BY <1>3, <1>4, <1>5

\* The i-th message read is the i-th of the stored end of the history.
LEMMA NthIsPushed ==
  ASSUME RingInv, NEW i \in 0 .. rb.count - 1
  PROVE  Nth(rb, i) = pushed[Len(pushed) - rb.count + 1 + i]
<1>1. /\ rb.head \in Slots
      /\ rb.count \in 0 .. Size
      /\ Len(pushed) \in Nat
  BY DEF RingInv, TypeOK, Buffers
<1>2. Nth(rb, i) = rb.buffer[Back(rb.head, rb.count - i)]
  BY <1>1, ForwardIsBack DEF Nth, OldestIdx
<1>3. rb.count - i \in 1 .. rb.count BY <1>1, SizeAssumption
<1>4. rb.buffer[Back(rb.head, rb.count - i)] = pushed[Len(pushed) + 1 - (rb.count - i)]
  BY <1>3 DEF RingInv
<1>5. Len(pushed) + 1 - (rb.count - i) = Len(pushed) - rb.count + 1 + i
  BY <1>1, SizeAssumption
<1> QED BY <1>2, <1>4, <1>5

\* RingInv holds of the empty buffer and every Push keeps it.
LEMMA RingInvInit == Init => RingInv
<1> SUFFICES ASSUME Init PROVE RingInv OBVIOUS
<1>1. Size \in Nat \ {0} BY SizeAssumption
<1>2. rb = [buffer |-> [i \in Slots |-> NoMsg], head |-> 0, count |-> 0] /\ pushed = << >>
  BY DEF Init, NewRingBuffer
<1>3. NoMsg \in Int BY DEF NoMsg
<1>4. TypeOK BY <1>1, <1>2, <1>3 DEF TypeOK, Buffers, Slots
<1> QED BY <1>1, <1>2, <1>4 DEF RingInv, Slots

LEMMA RingInvPush ==
  ASSUME RingInv, NEW m \in Offsets, PushMsg(m)
  PROVE  RingInv'
<1> DEFINE n == Len(pushed)
<1>1. /\ Size \in Nat \ {0}
      /\ rb.head \in Slots
      /\ rb.count \in 0 .. Size
      /\ rb.buffer \in [Slots -> Int]
      /\ n \in Nat
      /\ m \in Int
      /\ pushed \in Seq(Offsets)
  BY SizeAssumption, OffsetsAssumption DEF RingInv, TypeOK, Buffers
<1>2. /\ rb'.buffer = [rb.buffer EXCEPT ![rb.head] = m]
      /\ rb'.head = NextSlot(rb.head)
      /\ rb'.count = IF rb.count < Size THEN rb.count + 1 ELSE rb.count
      /\ rb' = [buffer |-> rb'.buffer, head |-> rb'.head, count |-> rb'.count]
  BY DEF PushMsg, Push
<1>3. /\ pushed' = Append(pushed, m)
      /\ Len(pushed') = n + 1
      /\ pushed' \in Seq(Offsets)
      /\ pushed'[n + 1] = m
      /\ \A k \in 1 .. n : pushed'[k] = pushed[k]
  BY <1>1 DEF PushMsg
<1>4. /\ NextSlot(rb.head) \in Slots
      /\ Back(NextSlot(rb.head), 1) = rb.head
      /\ rb.head + 1 < Size => NextSlot(rb.head) = rb.head + 1
      /\ \A j \in 1 .. Size - 1 :
           /\ Back(NextSlot(rb.head), j + 1) = Back(rb.head, j)
           /\ Back(rb.head, j) # rb.head
           /\ Back(rb.head, j) \in Slots
  BY <1>1, NextSlotBack
<1>5. TypeOK'
  <2>1. rb'.count \in 0 .. Size BY <1>1, <1>2
  <2>2. rb'.buffer \in [Slots -> Int] BY <1>1, <1>2
  <2> QED BY <2>1, <2>2, <1>2, <1>3, <1>4 DEF TypeOK, Buffers
<1>6. rb'.count = IF n + 1 < Size THEN n + 1 ELSE Size
  BY <1>1, <1>2 DEF RingInv
<1>7. ASSUME NEW j \in 1 .. rb'.count
      PROVE  rb'.buffer[Back(rb'.head, j)] = pushed'[n + 1 + 1 - j]
  <2>1. CASE j = 1
    <3>1. rb'.buffer[rb.head] = m BY <1>1, <1>2
    <3> QED BY <3>1, <2>1, <1>1, <1>2, <1>3, <1>4
  <2>2. CASE j # 1
    <3>1. j - 1 \in 1 .. Size - 1 /\ j - 1 \in 1 .. rb.count /\ j - 1 \in 1 .. n
      BY <2>2, <1>1, <1>2 DEF RingInv
    <3>2. PICK i \in 1 .. Size - 1 : i = j - 1 /\ j = i + 1 BY <3>1, <1>1
    <3>3. Back(rb'.head, j) = Back(rb.head, i) BY <3>2, <1>2, <1>4
    <3>4. rb'.buffer[Back(rb.head, i)] = rb.buffer[Back(rb.head, i)]
      BY <3>2, <1>1, <1>2, <1>4
    <3>5. rb.buffer[Back(rb.head, i)] = pushed[n + 1 - i]
      BY <3>1, <3>2 DEF RingInv
    <3>6. n + 1 - i \in 1 .. n /\ n + 1 - i = n + 1 + 1 - j BY <3>1, <3>2, <1>1
    <3> QED BY <3>3, <3>4, <3>5, <3>6, <1>3
  <2> QED BY <2>1, <2>2
<1>8. ASSUME n + 1 < Size
      PROVE  /\ rb'.head = n + 1
             /\ \A s \in Slots : s >= n + 1 => rb'.buffer[s] = NoMsg
  <2>1. n < Size BY <1>8, <1>1
  <2>2. rb.head = n /\ \A s \in Slots : s >= n => rb.buffer[s] = NoMsg
    BY <2>1 DEF RingInv
  <2>3. rb'.head = n + 1 BY <2>2, <1>8, <1>2, <1>4
  <2>4. ASSUME NEW s \in Slots, s >= n + 1 PROVE rb'.buffer[s] = NoMsg
    <3>1. s # rb.head /\ s >= n BY <2>2, <2>4, <1>1 DEF Slots
    <3> QED BY <3>1, <2>2, <1>1, <1>2
  <2> QED BY <2>3, <2>4
<1> QED BY <1>3, <1>5, <1>6, <1>7, <1>8 DEF RingInv

LEMMA RingInvStutter == RingInv /\ UNCHANGED vars => RingInv'
BY DEF RingInv, TypeOK, vars

\* Whatever the size of the buffer and the messages pushed into it by the
\* goroutines of sendRoomMsg, counting back from the head reads the history
\* backwards.
THEOREM RingInvariant == Spec => []RingInv
<1>1. RingInv /\ [Next]_vars => RingInv'
  BY RingInvPush, RingInvStutter DEF Next
<1> QED BY RingInvInit, <1>1, PTL DEF Spec

\* GetAll returns exactly the newest rb.size messages, oldest first.
THEOREM HistoryIsLatest == Spec => []GetAllIsLatest
<1>1. RingInv => GetAllIsLatest
  <2> SUFFICES ASSUME RingInv PROVE GetAll(rb) = Latest BY DEF GetAllIsLatest
  <2>1. /\ Size \in Nat \ {0}
        /\ rb.count = IF Len(pushed) < Size THEN Len(pushed) ELSE Size
        /\ pushed \in Seq(Offsets)
        /\ Len(pushed) \in Nat
    BY SizeAssumption DEF RingInv, TypeOK
  <2>2. \A i \in 1 .. rb.count : Nth(rb, i - 1) = pushed[Len(pushed) - rb.count + i]
    <3> SUFFICES ASSUME NEW i \in 1 .. rb.count
                 PROVE  Nth(rb, i - 1) = pushed[Len(pushed) - rb.count + i]
      OBVIOUS
    <3>1. i - 1 \in 0 .. rb.count - 1 BY <2>1
    <3>2. Nth(rb, i - 1) = pushed[Len(pushed) - rb.count + 1 + (i - 1)]
      BY <3>1, NthIsPushed
    <3>3. Len(pushed) - rb.count + 1 + (i - 1) = Len(pushed) - rb.count + i BY <2>1
    <3> QED BY <3>2, <3>3
  <2>3. CASE Len(pushed) <= Size
    <3>1. rb.count = Len(pushed) BY <2>1, <2>3
    <3>2. \A i \in 1 .. Len(pushed) : Nth(rb, i - 1) = pushed[i]
      <4> SUFFICES ASSUME NEW i \in 1 .. Len(pushed) PROVE Nth(rb, i - 1) = pushed[i]
        OBVIOUS
      <4>1. Len(pushed) - rb.count + i = i BY <3>1, <2>1
      <4> QED BY <4>1, <3>1, <2>2
    <3>3. pushed = [i \in 1 .. Len(pushed) |-> pushed[i]] BY <2>1
    <3> QED BY <3>1, <3>2, <3>3, <2>3 DEF GetAll, Latest
  <2>4. CASE ~ (Len(pushed) <= Size)
    <3>1. rb.count = Size BY <2>1, <2>4
    <3> QED BY <3>1, <2>2, <2>4 DEF GetAll, Latest
  <2> QED BY <2>3, <2>4
<1> QED BY RingInvariant, <1>1, PTL

\* The slot GetFromOffset looks at: the second oldest message, or the only one
\* when the buffer has a single slot, or nothing.
LEMMA ProbeIsSecond ==
  ASSUME RingInv, rb.count > 0
  PROVE  /\ rb.count > 1 => Probe(rb) = pushed[Len(pushed) - rb.count + 2]
         /\ Size = 1 => Probe(rb) = pushed[Len(pushed)]
         /\ rb.count = 1 /\ Size > 1 => Probe(rb) = NoMsg
<1>1. /\ Size \in Nat \ {0}
      /\ rb.head \in Slots
      /\ rb.head \in 0 .. Size - 1
      /\ rb.count \in 1 .. Size
      /\ Len(pushed) \in Nat
      /\ Len(pushed) < Size => rb.count = Len(pushed)
      /\ Size <= Len(pushed) => rb.count = Size
  BY SizeAssumption DEF RingInv, TypeOK, Buffers, Slots
<1>2. Probe(rb) = Nth(rb, 1) BY DEF Probe, Nth, NextSlot
<1>3. ASSUME rb.count > 1 PROVE Probe(rb) = pushed[Len(pushed) - rb.count + 2]
  <2>1. 1 \in 0 .. rb.count - 1 BY <1>1, <1>3
  <2>2. Nth(rb, 1) = pushed[Len(pushed) - rb.count + 1 + 1] BY <2>1, NthIsPushed
  <2>3. Len(pushed) - rb.count + 1 + 1 = Len(pushed) - rb.count + 2 BY <1>1
  <2> QED BY <1>2, <2>2, <2>3
<1>4. ASSUME Size = 1 PROVE Probe(rb) = pushed[Len(pushed)]
  <2>1. OldestIdx(rb) \in Int /\ NextSlot(OldestIdx(rb)) = 0
    BY <1>1, <1>4 DEF OldestIdx, NextSlot
  <2>2. Back(rb.head, 1) = 0 BY <1>1, <1>4 DEF Back
  <2>3. rb.buffer[Back(rb.head, 1)] = pushed[Len(pushed) + 1 - 1] BY <1>1 DEF RingInv
  <2> QED BY <1>1, <2>1, <2>2, <2>3 DEF Probe
<1>5. ASSUME rb.count = 1, Size > 1 PROVE Probe(rb) = NoMsg
  <2>1. Len(pushed) = 1 BY <1>1, <1>5
  <2>2. rb.head = 1 /\ \A s \in Slots : s >= 1 => rb.buffer[s] = NoMsg
    BY <2>1, <1>1, <1>5 DEF RingInv
  <2>3. OldestIdx(rb) = 0
    <3>1. Size \in 0 .. (2 * Size - 1) BY <1>1
    <3>2. Size % Size = 0 BY <3>1, <1>1, Wrap
    <3>3. rb.head - rb.count + Size = Size BY <2>2, <1>1, <1>5
    <3> QED BY <3>2, <3>3 DEF OldestIdx
  <2>4. NextSlot(0) = 1
    <3>1. 1 \in 0 .. (2 * Size - 1) BY <1>1
    <3>2. 1 % Size = 1 BY <3>1, <1>5, Wrap
    <3> QED BY <3>2 DEF NextSlot
  <2>5. 1 \in Slots BY <1>1, <1>5 DEF Slots
  <2> QED BY <2>2, <2>3, <2>4, <2>5 DEF Probe
<1> QED BY <1>3, <1>4, <1>5

\* Every stored message carries a Kafka offset.
LEMMA PushedAreOffsets ==
  ASSUME RingInv
  PROVE  \A k \in 1 .. Len(pushed) : pushed[k] \in Nat
<1>1. pushed \in Seq(Offsets) BY DEF RingInv, TypeOK
<1>2. \A k \in 1 .. Len(pushed) : pushed[k] \in Offsets BY <1>1
<1> QED BY <1>2, OffsetsAssumption

\* GetFromOffset dereferences an empty slot when exactly one message is stored
\* in a buffer of several slots, and never otherwise.
THEOREM ReplayPanics == Spec => []PanicsOnlyOnOne
<1>1. RingInv => PanicsOnlyOnOne
  <2> SUFFICES ASSUME RingInv PROVE PanicsOnlyOnOne OBVIOUS
  <2>1. /\ Size \in Nat \ {0}
        /\ rb.count \in 0 .. Size
        /\ Len(pushed) \in Nat
        /\ Len(pushed) < Size => rb.count = Len(pushed)
        /\ Size <= Len(pushed) => rb.count = Size
    BY SizeAssumption DEF RingInv, TypeOK, Buffers
  <2>2. \A k \in 1 .. Len(pushed) : pushed[k] # NoMsg
    BY PushedAreOffsets DEF NoMsg
  <2>3. CASE rb.count = 0 BY <2>1, <2>3 DEF PanicsOnlyOnOne, GetFromOffsetPanics
  <2>4. CASE rb.count > 1
    <3>1. Len(pushed) - rb.count + 2 \in 1 .. Len(pushed) BY <2>1, <2>4
    <3>2. Probe(rb) # NoMsg BY <3>1, <2>1, <2>2, <2>4, ProbeIsSecond
    <3>3. Len(pushed) >= rb.count BY <2>1
    <3>4. Len(pushed) > 1 BY <3>3, <2>1, <2>4
    <3>5. Len(pushed) # 1 BY <3>4
    <3> QED BY <3>2, <3>5 DEF PanicsOnlyOnOne, GetFromOffsetPanics
  <2>5. CASE rb.count = 1 /\ Size = 1
    <3>1. Len(pushed) \in 1 .. Len(pushed) BY <2>1, <2>5
    <3>2. Probe(rb) # NoMsg BY <3>1, <2>1, <2>2, <2>5, ProbeIsSecond
    <3> QED BY <3>2, <2>1, <2>5 DEF PanicsOnlyOnOne, GetFromOffsetPanics
  <2>6. CASE rb.count = 1 /\ Size > 1
    <3>1. Len(pushed) = 1 BY <2>1, <2>6
    <3>2. Probe(rb) = NoMsg BY <2>1, <2>6, ProbeIsSecond
    <3> QED BY <3>1, <3>2, <2>6 DEF PanicsOnlyOnOne, GetFromOffsetPanics
  <2> QED BY <2>1, <2>3, <2>4, <2>5, <2>6
<1> QED BY RingInvariant, <1>1, PTL

\* When the messages of a room were pushed in the order of their offsets,
\* GetFromOffset returns only messages newer than the offset asked for.
THEOREM ReplaysAreNew == Spec => []ReplayIsNew
<1>1. RingInv => ReplayIsNew
  <2> SUFFICES ASSUME RingInv, Ascending, NEW o \in Offsets,
                      NEW i \in 1 .. Len(GetFromOffset(rb, o))
               PROVE  GetFromOffset(rb, o)[i] > o
    BY DEF ReplayIsNew
  <2>1. /\ Size \in Nat \ {0}
        /\ rb.count \in 0 .. Size
        /\ Len(pushed) \in Nat
        /\ Len(pushed) < Size => rb.count = Len(pushed)
        /\ Size <= Len(pushed) => rb.count = Size
    BY SizeAssumption DEF RingInv, TypeOK, Buffers
  <2>2. o \in Nat /\ \A k \in 1 .. Len(pushed) : pushed[k] \in Nat
    BY PushedAreOffsets, OffsetsAssumption
  <2>3. rb.count > 0 /\ Probe(rb) > o BY DEF GetFromOffset
  <2>4. GetFromOffset(rb, o) = << Nth(rb, rb.count - 1) >> BY <2>3 DEF GetFromOffset
  <2>5. Nth(rb, rb.count - 1) = pushed[Len(pushed)]
    <3>1. rb.count - 1 \in 0 .. rb.count - 1 BY <2>1, <2>3
    <3>2. Nth(rb, rb.count - 1) = pushed[Len(pushed) - rb.count + 1 + (rb.count - 1)]
      BY <3>1, NthIsPushed
    <3>3. Len(pushed) - rb.count + 1 + (rb.count - 1) = Len(pushed) BY <2>1
    <3> QED BY <3>2, <3>3
  <2>6. pushed[Len(pushed)] > o
    <3>1. CASE rb.count > 1
      <4>1. Probe(rb) = pushed[Len(pushed) - rb.count + 2]
        BY <3>1, <2>3, ProbeIsSecond
      <4>2. PICK k \in 1 .. Len(pushed) : k = Len(pushed) - rb.count + 2
        <5>1. Len(pushed) - rb.count + 2 \in 1 .. Len(pushed) BY <2>1, <3>1
        <5> QED BY <5>1
      <4>3. Len(pushed) \in 1 .. Len(pushed) BY <2>1, <3>1
      <4>4. k < Len(pushed) => pushed[k] < pushed[Len(pushed)]
        BY <4>3 DEF Ascending
      <4>5. pushed[k] > o BY <4>1, <4>2, <2>3
      <4>6. k = Len(pushed) \/ k < Len(pushed) BY <2>1
      <4> QED BY <4>3, <4>4, <4>5, <4>6, <2>2
    <3>2. CASE rb.count = 1 /\ Size = 1 BY <3>2, <2>3, ProbeIsSecond
    <3>3. CASE rb.count = 1 /\ Size > 1
      <4>1. Probe(rb) = NoMsg BY <3>3, <2>3, ProbeIsSecond
      <4> QED BY <4>1, <2>2, <2>3 DEF NoMsg
    <3> QED BY <2>1, <2>3, <3>1, <3>2, <3>3
  <2>7. i = 1 BY <2>4
  <2> QED BY <2>4, <2>5, <2>6, <2>7
<1> QED BY RingInvariant, <1>1, PTL

(***************************************************************************)
(* The server with workers.                                                *)
(***************************************************************************)

\* The number of workers stays at least one and within the bound.
LEMMA WkScaleBounds ==
  ASSUME NEW n \in 1..WkMaxWorkers, NEW k \in Nat, k <= Cardinality(WkClients)
  PROVE  /\ n * WkPerWorker < 2 * k => n + 1 \in 1..WkMaxWorkers
         /\ k > WkPerWorker /\ n * WkPerWorker >= 2 * k => n - 1 \in 1..WkMaxWorkers
  <1>1. PICK p \in Nat \ {0}, m \in Nat \ {0}, t \in Nat :
          p = WkPerWorker /\ m = WkMaxWorkers /\ t = Cardinality(WkClients) /\ 2 * t <= p * m
    BY WkAssumption, FS_CardinalityType
  <1>2. n \in Nat /\ 1 <= n /\ n <= m /\ k <= t
    BY <1>1
  <1>3. ASSUME n * p < 2 * k PROVE n + 1 <= m
    <2>1. n * p < p * m
      BY ONLY <1>1, <1>2, <1>3, k \in Nat
    <2>2. n # m
      BY ONLY <1>1, <1>2, <2>1
    <2> QED
      BY ONLY <1>1, <1>2, <2>2
  <1>4. ASSUME k > p, n * p >= 2 * k PROVE 2 <= n
    <2>1. n # 1
      BY ONLY <1>1, <1>2, <1>4, k \in Nat
    <2> QED
      BY <1>2, <2>1
  <1> QED
    BY <1>1, <1>2, <1>3, <1>4

LEMMA WkGetWorkerType ==
  ASSUME NEW c \in WkClients, NEW n \in 1..WkMaxWorkers
  PROVE  WkGetWorker(c, n) \in WkIndex
  <1>1. PICK h \in Nat : h = WkHash(c)
    BY WkAssumption
  <1>2. n \in Nat \ {0} /\ WkMaxWorkers \in Nat
    BY WkAssumption
  <1>3. h % n \in 0..(n - 1)
    BY <1>1, <1>2
  <1> QED
    BY <1>1, <1>2, <1>3 DEF WkGetWorker, WkIndex

\* The bookkeeping s holds exactly the given clients, by their hash modulo n.
WkStates == [n : Nat, in : [WkIndex -> SUBSET WkClients], of : [WkClients -> Nat]]
WkPlaced(s, clients, n) ==
  /\ \A w \in WkIndex : s.in[w] = {c \in clients : WkGetWorker(c, n) = w}
  /\ \A c \in clients : s.of[c] = WkGetWorker(c, n)

LEMMA WkAddPlaces ==
  ASSUME NEW s \in WkStates, s.n \in 1..WkMaxWorkers, NEW clients \in SUBSET WkClients,
         WkPlaced(s, clients, s.n), NEW c \in WkClients
  PROVE  /\ WkAdd(s, c) \in WkStates /\ WkAdd(s, c).n = s.n
         /\ WkPlaced(WkAdd(s, c), clients \cup {c}, s.n)
  <1> DEFINE w == WkGetWorker(c, s.n)
             t == WkAdd(s, c)
  <1>1. w \in WkIndex /\ w \in Nat
    BY WkGetWorkerType, WkAssumption DEF WkIndex
  <1>2. /\ t \in WkStates /\ t.n = s.n
        /\ t.in = [s.in EXCEPT ![w] = @ \cup {c}] /\ t.of = [s.of EXCEPT ![c] = w]
    BY <1>1 DEF WkAdd, WkStates
  <1>3. \A v \in WkIndex : t.in[v] = {d \in clients \cup {c} : WkGetWorker(d, s.n) = v}
    BY <1>1, <1>2 DEF WkPlaced, WkStates
  <1>4. \A d \in clients \cup {c} : t.of[d] = WkGetWorker(d, s.n)
    BY <1>1, <1>2 DEF WkPlaced, WkStates
  <1> QED
    BY <1>2, <1>3, <1>4 DEF WkPlaced

LEMMA WkRemovePlaces ==
  ASSUME NEW s \in WkStates, s.n \in 1..WkMaxWorkers, NEW clients \in SUBSET WkClients,
         WkPlaced(s, clients, s.n), NEW c \in WkClients
  PROVE  /\ WkRemove(s, c) \in WkStates /\ WkRemove(s, c).n = s.n
         /\ WkPlaced(WkRemove(s, c), clients \ {c}, s.n)
  <1> DEFINE w == WkGetWorker(c, s.n)
             t == WkRemove(s, c)
  <1>1. w \in WkIndex /\ WkNoWorker \in Nat
    BY WkGetWorkerType, WkAssumption DEF WkNoWorker
  <1>2. /\ t \in WkStates /\ t.n = s.n
        /\ t.in = [s.in EXCEPT ![w] = @ \ {c}] /\ t.of = [s.of EXCEPT ![c] = WkNoWorker]
    BY <1>1 DEF WkRemove, WkStates
  <1>3. \A v \in WkIndex : t.in[v] = {d \in clients \ {c} : WkGetWorker(d, s.n) = v}
    BY <1>1, <1>2 DEF WkPlaced, WkStates
  <1>4. \A d \in clients \ {c} : t.of[d] = WkGetWorker(d, s.n)
    BY <1>1, <1>2 DEF WkPlaced, WkStates
  <1> QED
    BY <1>2, <1>3, <1>4 DEF WkPlaced

\* Whatever the number of workers was, rehashing places the clients by the new one.
LEMMA WkRehashPlaces ==
  ASSUME NEW s \in WkStates, s.n \in 1..WkMaxWorkers, NEW clients \in SUBSET WkClients,
         NEW n \in 1..WkMaxWorkers, WkPlaced(s, clients, n)
  PROVE  /\ WkRehash(s, clients) \in WkStates /\ WkRehash(s, clients).n = s.n
         /\ WkPlaced(WkRehash(s, clients), clients, s.n)
  <1> DEFINE moved == {c \in clients : s.of[c] # WkGetWorker(c, s.n)}
             t == WkRehash(s, clients)
             in == [w \in WkIndex |-> {c \in s.in[w] : ~(c \in moved /\ s.of[c] = w)}
                                        \cup {c \in moved : WkGetWorker(c, s.n) = w}]
             of == [c \in WkClients |-> IF c \in moved THEN WkGetWorker(c, s.n) ELSE s.of[c]]
  <1>1. \A c \in WkClients : WkGetWorker(c, s.n) \in Nat
    BY WkGetWorkerType, WkAssumption DEF WkIndex
  <1>2. t = [n |-> s.n, in |-> in, of |-> of]
    BY DEF WkRehash
  <1>3. in \in [WkIndex -> SUBSET WkClients] /\ of \in [WkClients -> Nat]
    BY <1>1 DEF WkStates
  <1>4. t \in WkStates /\ t.n = s.n /\ t.in = in /\ t.of = of
    BY <1>2, <1>3 DEF WkStates
  <1>5. ASSUME NEW v \in WkIndex PROVE in[v] = {d \in clients : WkGetWorker(d, s.n) = v}
    <2>1. \A d \in clients : s.of[d] = WkGetWorker(d, n)
      BY DEF WkPlaced
    <2>2. s.in[v] = {d \in clients : s.of[d] = v}
      BY <2>1 DEF WkPlaced
    <2> QED
      BY <2>2
  <1>6. \A d \in clients : of[d] = WkGetWorker(d, s.n)
    OBVIOUS
  <1> QED
    BY <1>4, <1>5, <1>6 DEF WkPlaced

LEMMA WkScalePlaces ==
  ASSUME NEW s \in WkStates, s.n \in 1..WkMaxWorkers, NEW clients \in SUBSET WkClients,
         WkPlaced(s, clients, s.n), NEW t, t \in {WkCheckScaleUp(s, clients), WkCheckScaleDown(s, clients)}
  PROVE  t \in WkStates /\ t.n \in 1..WkMaxWorkers /\ WkPlaced(t, clients, t.n)
  <1>1. /\ IsFiniteSet(clients) /\ Cardinality(clients) \in Nat
        /\ Cardinality(clients) <= Cardinality(WkClients)
    BY WkAssumption, FS_Subset, FS_CardinalityType
  <1>2. PICK n \in 1..WkMaxWorkers : n = s.n
    OBVIOUS
  <1>3. ASSUME NEW m \in 1..WkMaxWorkers, t = WkRehash([s EXCEPT !.n = m], clients)
        PROVE  t \in WkStates /\ t.n \in 1..WkMaxWorkers /\ WkPlaced(t, clients, t.n)
    <2>1. PICK u \in WkStates : u = [s EXCEPT !.n = m]
      <3>1. m \in Nat
        OBVIOUS
      <3> QED
        BY <3>1 DEF WkStates
    <2>2. u.n = m /\ u.in = s.in /\ u.of = s.of
      BY <2>1 DEF WkStates
    <2>3. WkPlaced(u, clients, n)
      BY <1>2, <2>2 DEF WkPlaced
    <2> QED
      BY <1>3, <2>1, <2>2, <2>3, WkRehashPlaces
  <1>4. CASE t = s
    BY <1>4
  <1>5. CASE /\ s.n * WkPerWorker < 2 * Cardinality(clients)
             /\ t = WkRehash([s EXCEPT !.n = @ + 1], clients)
    <2>1. s.n + 1 \in 1..WkMaxWorkers
      BY <1>1, <1>5, WkScaleBounds
    <2> QED
      BY <1>3, <1>5, <2>1
  <1>6. CASE /\ Cardinality(clients) > WkPerWorker /\ s.n * WkPerWorker >= 2 * Cardinality(clients)
             /\ t = WkRehash([s EXCEPT !.n = @ - 1], clients)
    <2>1. s.n - 1 \in 1..WkMaxWorkers
      BY <1>1, <1>6, WkScaleBounds
    <2> QED
      BY <1>3, <1>6, <2>1
  <1> QED
    BY <1>4, <1>5, <1>6 DEF WkCheckScaleUp, WkCheckScaleDown

\* What the channels and the sending goroutines hold.
WkMsgs == [id : Nat, from : WkClients, room : WkRooms]
WkItems(ch) == IF ch \in {"joinServer", "leaveServer"} THEN WkClients ELSE WkMsgs
WkChOK ==
  /\ DOMAIN wkCh = WkChannels
  /\ \A ch \in WkChannels : wkCh[ch] \in Seq(WkItems(ch))
WkSendOK == \A g \in wkSend : {"m", "at", "todo"} \subseteq DOMAIN g /\ g.m \in WkMsgs
WkBcastOK ==
  \A g \in wkBcast : /\ {"m", "w", "at", "todo"} \subseteq DOMAIN g
                     /\ g.w \in WkIndex /\ g.todo \subseteq WkClients
WkGoroutinesOK == WkChOK /\ WkSendOK /\ WkBcastOK /\ wkSent \in Nat

\* The clients are placed by their hash and counted.
WkServerOK ==
  /\ wkClients \subseteq WkClients /\ wkActive = Cardinality(wkClients)
  /\ WkNow \in WkStates /\ wkN \in 1..WkMaxWorkers /\ WkPlaced(WkNow, wkClients, wkN)

WkInv == WkGoroutinesOK /\ WkServerOK

\* Sending to a channel and taking from one.
LEMMA WkPutKeeps ==
  ASSUME WkChOK, NEW ch \in WkChannels, NEW x \in WkItems(ch), WkPut(ch, x)
  PROVE  WkChOK'
  <1>1. wkCh' = [wkCh EXCEPT ![ch] = Append(wkCh[ch], x)]
    BY DEF WkPut
  <1>2. DOMAIN wkCh' = WkChannels
    BY <1>1 DEF WkChOK
  <1>3. ASSUME NEW d \in WkChannels PROVE wkCh'[d] \in Seq(WkItems(d))
    <2>1. CASE d = ch
      <3>1. wkCh[ch] \in Seq(WkItems(ch)) /\ wkCh'[ch] = Append(wkCh[ch], x)
        BY <1>1 DEF WkChOK
      <3> QED
        BY <2>1, <3>1
    <2>2. CASE d # ch
      BY <1>1, <2>2 DEF WkChOK
    <2> QED
      BY <2>1, <2>2
  <1> QED
    BY <1>2, <1>3 DEF WkChOK, WkItems

LEMMA WkTakeKeeps ==
  ASSUME WkChOK, NEW ch \in WkChannels, wkCh[ch] # <<>>, WkTake(ch)
  PROVE  WkChOK' /\ Head(wkCh[ch]) \in WkItems(ch)
  <1>1. wkCh' = [wkCh EXCEPT ![ch] = Tail(wkCh[ch])]
    BY DEF WkTake
  <1>2. wkCh[ch] \in Seq(WkItems(ch))
    BY DEF WkChOK
  <1>3. Head(wkCh[ch]) \in WkItems(ch) /\ Tail(wkCh[ch]) \in Seq(WkItems(ch))
    BY <1>2
  <1>4. DOMAIN wkCh' = WkChannels /\ \A d \in WkChannels : wkCh'[d] \in Seq(WkItems(d))
    BY <1>1, <1>3 DEF WkChOK
  <1> QED
    BY <1>3, <1>4 DEF WkChOK, WkItems

LEMMA WkCount ==
  ASSUME wkClients \subseteq WkClients, wkActive = Cardinality(wkClients), NEW c \in WkClients
  PROVE  /\ wkActive \in Nat
         /\ c \notin wkClients => Cardinality(wkClients \cup {c}) = wkActive + 1
         /\ Cardinality(wkClients \ {c}) = IF c \in wkClients THEN wkActive - 1 ELSE wkActive
  <1>1. IsFiniteSet(wkClients)
    BY WkAssumption, FS_Subset
  <1> QED
    BY <1>1, FS_AddElement, FS_RemoveElement, FS_CardinalityType

LEMMA WkJoinServerKeeps ==
  ASSUME WkServerOK, NEW c \in WkClients, WkJoinServer(c)
  PROVE  WkServerOK'
  <1>1. CASE c \in wkClients
    <2>1. UNCHANGED wkWorkerVars
      BY <1>1 DEF WkJoinServer
    <2> QED
      BY <2>1 DEF WkServerOK, wkWorkerVars, WkNow, WkPlaced
  <1>2. CASE c \notin wkClients
    <2>1. PICK s \in WkStates : s = WkNow /\ s.n = wkN /\ s.n \in 1..WkMaxWorkers
      BY DEF WkServerOK, WkNow
    <2>2. PICK K \in SUBSET WkClients : K = wkClients \cup {c}
      BY DEF WkServerOK
    <2>3. PICK t : t = WkCheckScaleUp(WkAdd(s, c), K)
      OBVIOUS
    <2>4. /\ WkAdd(s, c) \in WkStates /\ WkAdd(s, c).n = s.n /\ WkPlaced(WkAdd(s, c), K, s.n)
      BY <2>1, <2>2, WkAddPlaces DEF WkServerOK
    <2>5. t \in WkStates /\ t.n \in 1..WkMaxWorkers /\ WkPlaced(t, K, t.n)
      BY <2>1, <2>2, <2>3, <2>4, WkScalePlaces
    <2>6. wkClients' = K /\ wkActive' = wkActive + 1 /\ wkN' = t.n /\ wkIn' = t.in /\ wkOf' = t.of
      BY <1>2, <2>1, <2>2, <2>3 DEF WkJoinServer, WkSet
    <2>7. WkNow' = t
      BY <2>5, <2>6 DEF WkNow, WkStates
    <2>8. wkActive' = Cardinality(wkClients')
      BY <1>2, <2>2, <2>6, WkCount DEF WkServerOK
    <2> QED
      BY <2>5, <2>6, <2>7, <2>8 DEF WkServerOK, WkPlaced
  <1> QED
    BY <1>1, <1>2

LEMMA WkLeaveServerKeeps ==
  ASSUME WkServerOK, NEW c \in WkClients, WkLeaveServer(c)
  PROVE  WkServerOK'
  <1>1. PICK s \in WkStates : s = WkNow /\ s.n = wkN /\ s.n \in 1..WkMaxWorkers
    BY DEF WkServerOK, WkNow
  <1>2. PICK K \in SUBSET WkClients : K = wkClients \ {c}
    BY DEF WkServerOK
  <1>3. PICK t : t = WkCheckScaleDown(WkRemove(s, c), K)
    OBVIOUS
  <1>4. /\ WkRemove(s, c) \in WkStates /\ WkRemove(s, c).n = s.n
        /\ WkPlaced(WkRemove(s, c), K, s.n)
    BY <1>1, <1>2, WkRemovePlaces DEF WkServerOK
  <1>5. t \in WkStates /\ t.n \in 1..WkMaxWorkers /\ WkPlaced(t, K, t.n)
    BY <1>1, <1>2, <1>3, <1>4, WkScalePlaces
  <1>6. /\ wkClients' = K /\ wkActive' = IF c \in wkClients THEN wkActive - 1 ELSE wkActive
        /\ wkN' = t.n /\ wkIn' = t.in /\ wkOf' = t.of
    BY <1>1, <1>2, <1>3 DEF WkLeaveServer, WkSet
  <1>7. WkNow' = t
    BY <1>5, <1>6 DEF WkNow, WkStates
  <1>8. wkActive' = Cardinality(wkClients')
    BY <1>2, <1>6, WkCount DEF WkServerOK
  <1> QED
    BY <1>5, <1>6, <1>7, <1>8 DEF WkServerOK, WkPlaced

\* The steps of AcceptLoop and of the drain.
LEMMA WkAcceptKeeps ==
  ASSUME WkInv, WkAcceptJoin \/ WkAcceptLeave \/ WkJoinRoom \/ WkDrain
  PROVE  WkInv'
  <1> USE DEF WkInv
  <1>1. CASE WkAcceptJoin
    <2>1. WkChOK' /\ Head(wkCh["joinServer"]) \in WkClients
      BY <1>1, WkTakeKeeps DEF WkAcceptJoin, WkAccepts, WkChannels, WkItems, WkGoroutinesOK
    <2>2. WkServerOK'
      BY <1>1, <2>1, WkJoinServerKeeps DEF WkAcceptJoin
    <2> QED
      BY <1>1, <2>1, <2>2 DEF WkAcceptJoin, wkOut, WkGoroutinesOK, WkSendOK, WkBcastOK
  <1>2. CASE WkAcceptLeave
    <2>1. WkChOK' /\ Head(wkCh["leaveServer"]) \in WkClients
      BY <1>2, WkTakeKeeps DEF WkAcceptLeave, WkAccepts, WkChannels, WkItems, WkGoroutinesOK
    <2>2. WkServerOK'
      BY <1>2, <2>1, WkLeaveServerKeeps DEF WkAcceptLeave
    <2> QED
      BY <1>2, <2>1, <2>2 DEF WkAcceptLeave, wkOut, WkGoroutinesOK, WkSendOK, WkBcastOK
  <1>3. CASE WkJoinRoom
    <2>1. WkChOK' /\ Head(wkCh["joinRoom"]) \in WkMsgs
      BY <1>3, WkTakeKeeps DEF WkJoinRoom, WkAccepts, WkChannels, WkItems, WkGoroutinesOK
    <2>2. Head(wkCh["joinRoom"]).from \in WkClients
      BY <2>1 DEF WkMsgs
    <2>3. WkServerOK'
      BY <1>3, <2>2, WkJoinServerKeeps DEF WkJoinRoom
    <2> QED
      BY <1>3, <2>1, <2>3 DEF WkJoinRoom, wkOut, WkGoroutinesOK, WkSendOK, WkBcastOK
  <1>4. CASE WkDrain
    <2>1. WkChOK' /\ Head(wkCh["leaveServer"]) \in WkClients
      BY <1>4, WkTakeKeeps DEF WkDrain, WkChannels, WkItems, WkGoroutinesOK
    <2>2. WkServerOK'
      BY <1>4, <2>1, WkLeaveServerKeeps DEF WkDrain
    <2> QED
      BY <1>4, <2>1, <2>2 DEF WkDrain, wkOut, WkGoroutinesOK, WkSendOK, WkBcastOK
  <1> QED
    BY <1>1, <1>2, <1>3, <1>4

\* A goroutine that goes on keeps its message and its worker.
LEMMA WkGoMember ==
  ASSUME NEW S, NEW g, {"m", "at", "todo"} \subseteq DOMAIN g, NEW todo, NEW h \in WkGo(S, g, todo)
  PROVE  \/ h \in S
         \/ DOMAIN h = DOMAIN g /\ h.m = g.m /\ h.todo = todo /\ ("w" \in DOMAIN g => h.w = g.w)
  BY DEF WkGo

\* Steps that leave the bookkeeping alone.
WkKeeps == UNCHANGED << wkClients, wkActive, wkN, wkIn, wkOf >>

LEMMA WkKeepsServer ==
  ASSUME WkServerOK, WkKeeps
  PROVE  WkServerOK'
  BY DEF WkServerOK, WkKeeps, WkNow, WkPlaced

\* Connections and their read loops.
LEMMA WkConnKeeps ==
  ASSUME WkInv, NEW c \in WkClients, WkHandler(c) \/ WkConnClosed(c) \/ WkReadEnds(c) \/ WkReadMsg(c)
  PROVE  WkInv'
  <1>1. WkKeeps /\ UNCHANGED << wkSend, wkBcast >> /\ (wkSent' = wkSent \/ wkSent' = wkSent + 1)
    BY DEF WkHandler, WkConnClosed, WkReadEnds, WkReadMsg, WkKeeps, wkWorkerVars, wkOut
  <1>2. WkSendOK' /\ WkBcastOK' /\ wkSent' \in Nat
    BY <1>1 DEF WkInv, WkGoroutinesOK, WkSendOK, WkBcastOK
  <1>3. WkChOK /\ wkSent \in Nat
    BY DEF WkInv, WkGoroutinesOK
  <1>4. CASE WkHandler(c) \/ WkReadEnds(c)
    BY <1>3, <1>4, WkPutKeeps, <1>1, <1>2, WkKeepsServer
       DEF WkHandler, WkReadEnds, WkChannels, WkItems, WkInv, WkGoroutinesOK
  <1>5. CASE WkConnClosed(c)
    BY <1>5, <1>1, <1>2, WkKeepsServer DEF WkConnClosed, WkChOK, WkItems, WkInv, WkGoroutinesOK
  <1>6. CASE WkReadMsg(c)
    <2>1. PICK ch \in {"joinRoom", "leaveRoom", "room", "broadcast"}, r \in WkRooms :
            WkPut(ch, [id |-> wkSent + 1, from |-> c, room |-> r])
      BY <1>6 DEF WkReadMsg
    <2>2. [id |-> wkSent + 1, from |-> c, room |-> r] \in WkMsgs
      BY <1>3 DEF WkMsgs
    <2>3. ch \in WkChannels /\ WkItems(ch) = WkMsgs
      BY DEF WkChannels, WkItems
    <2>4. WkChOK'
      BY <1>3, <2>1, <2>2, <2>3, WkPutKeeps
    <2> QED
      BY <2>4, <1>1, <1>2, WkKeepsServer DEF WkInv, WkGoroutinesOK
  <1> QED
    BY <1>4, <1>5, <1>6

\* AcceptLoop's other steps.
LEMMA WkOtherKeeps ==
  ASSUME WkInv, WkLeaveRoom \/ WkAcceptRoomMsg \/ WkAcceptBroadcast \/ WkAcceptLoopEnds
                \/ WkDrainTimeout \/ WkMapRace \/ UNCHANGED wkVars
  PROVE  WkInv'
  <1>1. WkKeeps /\ wkSent' = wkSent
    BY DEF WkLeaveRoom, WkAcceptRoomMsg, WkAcceptBroadcast, WkAcceptLoopEnds, WkDrainTimeout,
           WkMapRace, WkKeeps, wkWorkerVars, wkVars
  <1>2. WkServerOK'
    BY <1>1, WkKeepsServer DEF WkInv
  <1>3. WkGoroutinesOK
    BY DEF WkInv
  <1>4. CASE WkLeaveRoom
    <2>1. WkChOK'
      BY <1>3, <1>4, WkTakeKeeps DEF WkLeaveRoom, WkAccepts, WkChannels, WkGoroutinesOK
    <2> QED
      BY <1>1, <1>2, <1>3, <1>4, <2>1
         DEF WkLeaveRoom, wkOut, WkInv, WkGoroutinesOK, WkSendOK, WkBcastOK
  <1>5. CASE WkAcceptRoomMsg
    <2>1. WkChOK' /\ Head(wkCh["room"]) \in WkMsgs
      BY <1>3, <1>5, WkTakeKeeps DEF WkAcceptRoomMsg, WkAccepts, WkChannels, WkItems, WkGoroutinesOK
    <2>2. WkSendOK'
      BY <1>3, <1>5, <2>1 DEF WkAcceptRoomMsg, WkGoroutinesOK, WkSendOK
    <2> QED
      BY <1>1, <1>2, <1>3, <1>5, <2>1, <2>2 DEF WkAcceptRoomMsg, WkInv, WkGoroutinesOK, WkBcastOK
  <1>6. CASE WkAcceptBroadcast
    <2>1. WkChOK'
      BY <1>3, <1>6, WkTakeKeeps DEF WkAcceptBroadcast, WkAccepts, WkChannels, WkGoroutinesOK
    <2>2. 0..(wkN - 1) \subseteq WkIndex
      BY WkAssumption DEF WkInv, WkServerOK, WkIndex
    <2>3. WkBcastOK'
      BY <1>3, <1>6, <2>2 DEF WkAcceptBroadcast, WkGoroutinesOK, WkBcastOK
    <2> QED
      BY <1>1, <1>2, <1>3, <1>6, <2>1, <2>3 DEF WkAcceptBroadcast, WkInv, WkGoroutinesOK, WkSendOK
  <1>7. CASE WkAcceptLoopEnds \/ WkDrainTimeout \/ WkMapRace \/ UNCHANGED wkVars
    <2>1. UNCHANGED << wkCh, wkSend, wkBcast >>
      BY <1>7 DEF WkAcceptLoopEnds, WkDrainTimeout, WkMapRace, wkVars, wkOut
    <2> QED
      BY <1>1, <1>2, <1>3, <2>1
         DEF WkInv, WkGoroutinesOK, WkSendOK, WkBcastOK, WkChOK, WkItems
  <1> QED
    BY <1>4, <1>5, <1>6, <1>7

\* Delivery.
LEMMA WkDeliveryKeeps ==
  ASSUME WkInv,
         \/ \E g \in wkSend : WkCollectRoom(g) \/ WkWriteRoom(g)
         \/ \E g \in wkBcast : WkCollectBroadcast(g) \/ WkWriteBroadcast(g)
  PROVE  WkInv'
  <1>1. WkKeeps /\ wkSent' = wkSent
    BY DEF WkCollectRoom, WkWriteRoom, WkCollectBroadcast, WkWriteBroadcast, WkKeeps, wkWorkerVars
  <1>2. WkServerOK'
    BY <1>1, WkKeepsServer DEF WkInv
  <1>3. WkChOK /\ WkSendOK /\ WkBcastOK /\ wkSent \in Nat
    BY DEF WkInv, WkGoroutinesOK
  <1>4. ASSUME NEW g \in wkSend, WkCollectRoom(g) \/ WkWriteRoom(g) PROVE WkGoroutinesOK'
    <2>1. PICK todo : wkSend' = WkGo(wkSend, g, todo)
      BY <1>4 DEF WkCollectRoom, WkWriteRoom
    <2>2. g.m \in WkMsgs /\ {"m", "at", "todo"} \subseteq DOMAIN g
      BY <1>3 DEF WkSendOK
    <2>3. WkSendOK'
      BY <1>3, <2>1, <2>2, WkGoMember DEF WkSendOK
    <2>4. g.m.from \in WkClients
      BY <2>2 DEF WkMsgs
    <2>5. wkCh' = wkCh \/ WkPut("leaveServer", g.m.from)
      BY <1>4 DEF WkCollectRoom, WkWriteRoom
    <2>6. WkChOK'
      <3>1. CASE wkCh' = wkCh
        BY <1>3, <3>1 DEF WkChOK, WkItems
      <3>2. CASE WkPut("leaveServer", g.m.from)
        BY <1>3, <2>4, <3>2, WkPutKeeps DEF WkChannels, WkItems
      <3> QED
        BY <2>5, <3>1, <3>2
    <2>7. wkBcast' = wkBcast
      BY <1>4 DEF WkCollectRoom, WkWriteRoom
    <2> QED
      BY <1>1, <1>3, <2>3, <2>6, <2>7 DEF WkGoroutinesOK, WkBcastOK
  <1>5. ASSUME NEW g \in wkBcast, WkCollectBroadcast(g) \/ WkWriteBroadcast(g) PROVE WkGoroutinesOK'
    <2>1. /\ {"m", "w", "at", "todo"} \subseteq DOMAIN g /\ g.w \in WkIndex
          /\ g.todo \subseteq WkClients /\ wkIn[g.w] \subseteq WkClients
      BY <1>3 DEF WkBcastOK, WkInv, WkServerOK, WkNow, WkStates
    <2>2. PICK todo \in SUBSET WkClients : wkBcast' = WkGo(wkBcast, g, todo)
      <3>1. CASE WkCollectBroadcast(g)
        BY <2>1, <3>1 DEF WkCollectBroadcast
      <3>2. CASE WkWriteBroadcast(g)
        BY <2>1, <3>2 DEF WkWriteBroadcast
      <3> QED
        BY <1>5, <3>1, <3>2
    <2>3. WkBcastOK'
      BY <1>3, <2>1, <2>2, WkGoMember DEF WkBcastOK
    <2>4. wkCh' = wkCh \/ \E c \in WkClients : WkPut("leaveServer", c)
      BY <1>5, <2>1 DEF WkCollectBroadcast, WkWriteBroadcast
    <2>5. WkChOK'
      <3>1. CASE wkCh' = wkCh
        BY <1>3, <3>1 DEF WkChOK, WkItems
      <3>2. CASE \E c \in WkClients : WkPut("leaveServer", c)
        BY <1>3, <3>2, WkPutKeeps DEF WkChannels, WkItems
      <3> QED
        BY <2>4, <3>1, <3>2
    <2>6. wkSend' = wkSend
      BY <1>5 DEF WkCollectBroadcast, WkWriteBroadcast
    <2> QED
      BY <1>1, <1>3, <2>3, <2>5, <2>6 DEF WkGoroutinesOK, WkSendOK
  <1> QED
    BY <1>2, <1>4, <1>5 DEF WkInv

\* The bookkeeping of AcceptLoop: placed by hash, counted, and fed by clients only.
THEOREM WorkerInvariant == WkSpec => []WkInv
  <1>1. ASSUME NEW n \in 1..WkMaxWorkers, NEW clients \in SUBSET WkClients, NEW msgs \in Nat,
               WkInit("up", n, clients, msgs)
        PROVE  WkInv
    <2>1. WkGoroutinesOK
      BY <1>1 DEF WkInit, WkGoroutinesOK, WkChOK, WkSendOK, WkBcastOK, WkItems
    <2>2. WkNow \in WkStates /\ wkN \in 1..WkMaxWorkers
      BY <1>1, WkAssumption DEF WkInit, WkNow, WkStates, WkNoWorker
    <2>3. WkPlaced(WkNow, wkClients, wkN)
      BY <1>1 DEF WkInit, WkNow, WkPlaced
    <2>4. wkClients = {} /\ wkActive = Cardinality(wkClients)
      BY <1>1, FS_EmptySet DEF WkInit
    <2> QED
      BY <2>1, <2>2, <2>3, <2>4 DEF WkInv, WkServerOK
  <1>2. (\E n \in 1..WkMaxWorkers, clients \in SUBSET WkClients, msgs \in Nat :
           WkInit("up", n, clients, msgs)) => WkInv
    BY <1>1
  <1>3. WkInv /\ [WkNext]_wkVars => WkInv'
    BY WkConnKeeps, WkAcceptKeeps, WkOtherKeeps, WkDeliveryKeeps DEF WkNext
  <1> QED
    BY <1>2, <1>3, PTL DEF WkSpec

\* Through every join, double leave and change of the number of workers, a registered
\* client of chat/with-workers is with the one worker its id hashes to, and nobody else
\* is with any (scaleUp, scaleDown, addClientToWorker, removeClientFromWorker).
THEOREM WorkersAssigned == WkSpec => []WkAssigned
  <1>1. WkInv => WkAssigned
    BY DEF WkInv, WkServerOK, WkPlaced, WkNow, WkAssigned
  <1> QED
    BY <1>1, WorkerInvariant, PTL

\* activeClients is the number of registered clients, whatever a client does twice
\* (JoinServer, LeaveServer, ShutdownLoopAtomic).
THEOREM ActiveClientsMatch == WkSpec => []WkActiveMatches
  <1>1. WkInv => WkActiveMatches
    BY DEF WkInv, WkServerOK, WkActiveMatches
  <1> QED
    BY <1>1, WorkerInvariant, PTL

(***************************************************************************)
(* The rate limiter.                                                       *)
(***************************************************************************)
RlBuckets == [tokens : 0..RlMaxTokens, last : Nat]
RlReqs == [at : {"idle", "create", "take"}, c : RlClients \cup {RlIdle.c}, b : Nat]
RlTypeOK ==
  /\ rlNow \in Nat
  /\ rlBucket \in Seq(RlBuckets)
  /\ \A b \in DOMAIN rlBucket : rlBucket[b].last <= rlNow
  /\ rlMap \in [RlClients -> 0..Len(rlBucket)]
  /\ rlReq \in [RlRequests -> RlReqs]
  /\ \A q \in RlRequests :
       /\ rlReq[q].at # "idle" => rlReq[q].c \in RlClients
       /\ rlReq[q].at = "take" => rlReq[q].b \in DOMAIN rlBucket
  /\ rlGranted \in [RlClients -> Seq(Nat)]
  /\ \A c \in RlClients : \A i \in DOMAIN rlGranted[c] : rlGranted[c][i] <= rlNow

\* A bucket is one client's, in the map and for the requests that hold it.
RlOwned ==
  /\ \A c, d \in RlClients : rlMap[c] = rlMap[d] /\ rlMap[c] # RlNone => c = d
  /\ \A q \in RlRequests, d \in RlClients :
       rlReq[q].at = "take" /\ rlMap[d] = rlReq[q].b => d = rlReq[q].c

\* The tokens a client could take now: all of them when it has no bucket.
RlTokens(c) ==
  IF rlMap[c] = RlNone THEN RlMaxTokens
  ELSE RlRefill(rlBucket[rlMap[c]].tokens, rlNow - rlBucket[rlMap[c]].last)

\* What a client was allowed in a window and what it could still take are
\* together within its burst and its rate.
RlBudget ==
  \A c \in RlClients : c \in rlShared \/ \A w \in 0..rlNow :
    RlSince(c, w) + RlTokens(c) <= RlMaxTokens + RlRate * (rlNow - w)

RlInv == RlTypeOK /\ RlOwned /\ RlBudget

LEMMA RlElement ==
  ASSUME NEW S, NEW s \in Seq(S), NEW i \in DOMAIN s
  PROVE  s[i] \in S
  OBVIOUS

LEMMA RlReqTakes ==
  ASSUME NEW C, NEW o \in [at : {"idle", "create", "take"}, c : C, b : Nat], NEW n \in Nat
  PROVE  LET r == [o EXCEPT !.at = "take", !.b = n]
         IN  /\ r \in [at : {"idle", "create", "take"}, c : C, b : Nat]
             /\ r.at = "take" /\ r.c = o.c /\ r.b = n
  OBVIOUS

LEMMA RlRefillFacts ==
  ASSUME NEW t \in 0..RlMaxTokens, NEW s \in Nat
  PROVE  /\ RlRefill(t, s) \in 0..RlMaxTokens
         /\ RlRefill(t, 0) = t
         /\ RlRefill(t, s + 1) <= RlRefill(t, s) + RlRate
         /\ s >= RlMaxInactive => RlRefill(t, s) = RlMaxTokens
  <1>1. PICK r \in Nat, m \in Nat, i \in Nat :
          r = RlRate /\ m = RlMaxTokens /\ i = RlMaxInactive /\ m <= r * i
    BY RlAssumption
  <1>2. PICK p \in Nat : p = s * r
    <2>1. s * r \in Nat
      BY ONLY r \in Nat, s \in Nat
    <2> QED
      BY <2>1
  <1>3. (s + 1) * r = p + r /\ 0 * r = 0
    BY ONLY <1>2, r \in Nat, s \in Nat
  <1>4. t \in Nat /\ t <= m
    BY <1>1
  <1>5. /\ RlRefill(t, s) = IF t + p > m THEN m ELSE t + p
        /\ RlRefill(t, 0) = IF t + 0 > m THEN m ELSE t + 0
        /\ RlRefill(t, s + 1) = IF t + (p + r) > m THEN m ELSE t + (p + r)
    BY <1>1, <1>2, <1>3 DEF RlRefill
  <1>6. ASSUME s >= i PROVE t + p >= m
    <2>1. PICK d \in Nat : s = i + d
      <3>1. s - i \in Nat
        BY <1>6
      <3> QED
        BY <3>1
    <2>2. p = r * i + d * r /\ d * r \in Nat /\ r * i \in Nat
      BY ONLY <1>2, <2>1, r \in Nat, i \in Nat, d \in Nat
    <2> QED
      BY <1>1, <1>4, <2>2
  <1> QED
    BY <1>1, <1>2, <1>4, <1>5, <1>6

\* How many of the times s are at least w.
RlCount(s, w) == Cardinality({i \in DOMAIN s : s[i] >= w})

LEMMA RlCountFacts ==
  ASSUME NEW s \in Seq(Nat), NEW w \in Nat
  PROVE  /\ RlCount(s, w) \in Nat
         /\ (\A i \in DOMAIN s : s[i] < w) => RlCount(s, w) = 0
         /\ \A t \in Nat : w <= t => RlCount(Append(s, t), w) = RlCount(s, w) + 1
  <1> DEFINE G == {i \in DOMAIN s : s[i] >= w}
  <1>1. PICK n \in Nat : n = Len(s) /\ DOMAIN s = 1..n
    OBVIOUS
  <1>2. IsFiniteSet(1..n)
    BY FS_Interval
  <1>3. IsFiniteSet(G) /\ Cardinality(G) \in Nat
    BY <1>1, <1>2, FS_Subset, FS_CardinalityType
  <1>4. ASSUME \A i \in DOMAIN s : s[i] < w PROVE RlCount(s, w) = 0
    <2>1. G = {}
      BY <1>4, <1>1
    <2> QED
      BY <2>1, FS_EmptySet DEF RlCount
  <1>5. ASSUME NEW t \in Nat, w <= t PROVE RlCount(Append(s, t), w) = RlCount(s, w) + 1
    <2> DEFINE a == Append(s, t)
               H == {i \in DOMAIN a : a[i] >= w}
    <2>1. /\ DOMAIN a = 1..(n + 1) /\ a[n + 1] = t
          /\ \A i \in 1..n : a[i] = s[i]
      BY <1>1
    <2>2. H = G \cup {n + 1} /\ n + 1 \notin G
      BY <1>1, <1>5, <2>1
    <2>3. Cardinality(G \cup {n + 1}) = Cardinality(G) + 1
      BY <1>3, <2>2, FS_AddElement
    <2> QED
      BY <2>2, <2>3 DEF RlCount
  <1> QED
    BY <1>3, <1>4, <1>5 DEF RlCount

\* A client whose grants and bucket did not change keeps its budget.
RlKeepsClient(c) ==
  /\ rlGranted'[c] = rlGranted[c]
  /\ rlMap'[c] = rlMap[c]
  /\ rlMap[c] # RlNone => rlBucket'[rlMap[c]] = rlBucket[rlMap[c]]

LEMMA RlKeepsBudget ==
  ASSUME RlTypeOK, RlBudget, NEW c \in RlClients, rlNow' = rlNow, rlShared \subseteq rlShared',
         RlKeepsClient(c), c \notin rlShared', NEW w \in 0..rlNow'
  PROVE  RlSince(c, w)' + RlTokens(c)' <= RlMaxTokens + RlRate * (rlNow' - w)
  <1>1. RlSince(c, w)' = RlSince(c, w) /\ RlTokens(c)' = RlTokens(c)
    BY DEF RlKeepsClient, RlSince, RlTokens
  <1> QED
    BY <1>1 DEF RlBudget

\* The bucket of a client that has one.
LEMMA RlBucketOf ==
  ASSUME RlTypeOK, NEW c \in RlClients
  PROVE  /\ RlTokens(c) \in 0..RlMaxTokens
         /\ rlMap[c] # RlNone =>
              /\ rlMap[c] \in DOMAIN rlBucket
              /\ rlBucket[rlMap[c]].tokens \in 0..RlMaxTokens
              /\ rlBucket[rlMap[c]].last \in Nat /\ rlNow - rlBucket[rlMap[c]].last \in Nat
  <1>1. ASSUME rlMap[c] # RlNone
        PROVE  /\ rlMap[c] \in DOMAIN rlBucket
               /\ rlBucket[rlMap[c]].tokens \in 0..RlMaxTokens
               /\ rlBucket[rlMap[c]].last \in Nat /\ rlNow - rlBucket[rlMap[c]].last \in Nat
    <2>1. rlMap[c] \in DOMAIN rlBucket
      BY <1>1 DEF RlTypeOK, RlNone
    <2>2. rlBucket[rlMap[c]] \in RlBuckets
      BY <2>1, RlElement DEF RlTypeOK
    <2>3. rlBucket[rlMap[c]].last <= rlNow /\ rlNow \in Nat
      BY <2>1 DEF RlTypeOK
    <2> QED
      BY <2>1, <2>2, <2>3 DEF RlBuckets
  <1>2. RlTokens(c) \in 0..RlMaxTokens
    <2>1. CASE rlMap[c] = RlNone
      BY <2>1, RlAssumption DEF RlTokens
    <2>2. CASE rlMap[c] # RlNone
      <3>1. PICK t \in 0..RlMaxTokens, z \in Nat :
              t = rlBucket[rlMap[c]].tokens /\ z = rlNow - rlBucket[rlMap[c]].last
        BY <1>1, <2>2
      <3> QED
        BY <2>2, <3>1, RlRefillFacts DEF RlTokens
    <2> QED
      BY <2>1, <2>2
  <1> QED
    BY <1>1, <1>2

LEMMA RlTickKeeps ==
  ASSUME RlInv, RlTick
  PROVE  RlInv'
  <1> USE DEF RlInv
  <1>1. /\ rlNow' = rlNow + 1 /\ rlNow \in Nat
        /\ UNCHANGED << rlMap, rlBucket, rlReq, rlGranted, rlShared >>
    BY DEF RlTick, RlTypeOK
  <1>2. RlTypeOK'
    <2>1. \A b \in DOMAIN rlBucket : rlBucket[b].last \in Nat
      <3>1. \A b \in DOMAIN rlBucket : rlBucket[b] \in RlBuckets
        BY RlElement DEF RlTypeOK
      <3> QED
        BY <3>1 DEF RlBuckets
    <2>2. \A b \in DOMAIN rlBucket : rlBucket[b].last <= rlNow + 1
      BY <1>1, <2>1 DEF RlTypeOK
    <2>3. \A c \in RlClients : \A i \in DOMAIN rlGranted[c] : rlGranted[c][i] <= rlNow + 1
      <3>1. ASSUME NEW c \in RlClients, NEW i \in DOMAIN rlGranted[c] PROVE rlGranted[c][i] \in Nat
        BY <3>1 DEF RlTypeOK
      <3> QED
        BY <1>1, <3>1 DEF RlTypeOK
    <2> QED
      BY <1>1, <2>2, <2>3 DEF RlTypeOK
  <1>3. RlOwned'
    BY <1>1 DEF RlOwned
  <1>4. ASSUME NEW c \in RlClients, c \notin rlShared', NEW w \in 0..rlNow'
        PROVE  RlSince(c, w)' + RlTokens(c)' <= RlMaxTokens + RlRate * (rlNow' - w)
    <2>1. PICK s \in Seq(Nat) : s = rlGranted[c] /\ s = rlGranted'[c]
      BY <1>1 DEF RlTypeOK
    <2>2. w \in Nat /\ RlSince(c, w) = RlCount(s, w) /\ RlSince(c, w)' = RlCount(s, w)
      BY <1>1, <1>4, <2>1 DEF RlSince, RlCount
    <2>3. PICK a \in Nat : a = RlCount(s, w)
      BY <2>2, RlCountFacts
    <2>4. /\ RlTokens(c) \in Nat /\ RlTokens(c)' \in Nat
          /\ RlTokens(c)' <= RlTokens(c) + RlRate /\ RlTokens(c)' <= RlMaxTokens
      <3>1. CASE rlMap[c] = RlNone
        BY <1>1, <3>1, RlAssumption DEF RlTokens
      <3>2. CASE rlMap[c] # RlNone
        <4>1. PICK t \in 0..RlMaxTokens, z \in Nat :
                t = rlBucket[rlMap[c]].tokens /\ z = rlNow - rlBucket[rlMap[c]].last
          BY <3>2, RlBucketOf
        <4>2. rlNow' - rlBucket'[rlMap'[c]].last = z + 1
          <5>1. PICK l \in Nat : l = rlBucket[rlMap[c]].last /\ l = rlBucket'[rlMap'[c]].last
            BY <1>1, <3>2, RlBucketOf
          <5>2. z = rlNow - l
            BY <4>1, <5>1
          <5>3. rlNow + 1 - l = z + 1
            BY <1>1, <5>2
          <5> QED
            BY <1>1, <5>1, <5>3
        <4>3. RlTokens(c) = RlRefill(t, z) /\ RlTokens(c)' = RlRefill(t, z + 1)
          BY <1>1, <3>2, <4>1, <4>2 DEF RlTokens
        <4> QED
          BY <4>3, RlRefillFacts, RlAssumption
      <3> QED
        BY <3>1, <3>2
    <2>5. CASE w <= rlNow
      <3>1. RlSince(c, w) + RlTokens(c) <= RlMaxTokens + RlRate * (rlNow - w)
        BY <1>1, <1>4, <2>2, <2>5 DEF RlBudget
      <3>2. PICK x \in Nat : x = rlNow - w
        BY <1>1, <2>2, <2>5
      <3>3. rlNow' - w = x + 1
        BY <1>1, <2>2, <3>2
      <3>4. RlRate * (x + 1) = RlRate * x + RlRate /\ RlRate * x \in Nat
        BY RlAssumption
      <3>5. PICK e \in Nat, k \in Nat, f \in Nat :
              e = RlTokens(c) /\ f = RlTokens(c)' /\ k = RlRate * x /\ a + e <= RlMaxTokens + k
        BY <2>2, <2>3, <2>4, <3>1, <3>2, <3>4
      <3>6. a + f <= RlMaxTokens + (k + RlRate)
        BY <2>4, <3>5, RlAssumption
      <3> QED
        BY <2>2, <2>3, <3>3, <3>4, <3>5, <3>6
    <2>6. CASE w = rlNow + 1
      <3>1. \A i \in DOMAIN s : s[i] < w
        BY <1>1, <2>1, <2>6 DEF RlTypeOK
      <3>2. a = 0
        BY <2>2, <2>3, <3>1, RlCountFacts
      <3>3. rlNow' - w = 0 /\ RlRate * 0 = 0
        BY <1>1, <2>6, RlAssumption
      <3> QED
        BY <2>2, <2>3, <2>4, <3>2, <3>3, RlAssumption
    <2> QED
      BY <1>1, <1>4, <2>5, <2>6
  <1> QED
    BY <1>2, <1>3, <1>4 DEF RlBudget

LEMMA RlLookupKeeps ==
  ASSUME RlInv, NEW q \in RlRequests, NEW c \in RlClients, RlLookup(q, c)
  PROVE  RlInv'
  <1> USE DEF RlInv
  <1>1. PICK r : /\ r = [at |-> IF rlMap[c] = RlNone THEN "create" ELSE "take", c |-> c, b |-> rlMap[c]]
                 /\ rlReq' = [rlReq EXCEPT ![q] = r]
    BY DEF RlLookup, RlTo
  <1>2. UNCHANGED << rlNow, rlMap, rlBucket, rlGranted, rlShared >>
    BY DEF RlLookup
  <1>3. rlMap[c] \in Nat /\ (rlMap[c] # RlNone => rlMap[c] \in DOMAIN rlBucket)
    BY RlBucketOf DEF RlTypeOK
  <1>4. r.at \in {"create", "take"} /\ r.c = c /\ r.b = rlMap[c] /\ (r.at = "take" => rlMap[c] # RlNone)
    BY <1>1
  <1>5. r \in RlReqs
    BY <1>1, <1>3 DEF RlReqs
  <1>6. RlTypeOK'
    BY <1>1, <1>2, <1>3, <1>4, <1>5 DEF RlTypeOK, RlReqs, RlIdle
  <1>7. RlOwned'
    BY <1>1, <1>2, <1>4 DEF RlOwned, RlTypeOK
  <1>8. RlBudget'
    BY <1>2, RlKeepsBudget DEF RlBudget, RlKeepsClient
  <1> QED
    BY <1>6, <1>7, <1>8

LEMMA RlCreateKeeps ==
  ASSUME RlInv, NEW q \in RlRequests, RlCreate(q)
  PROVE  RlInv'
  <1> USE DEF RlInv
  <1>1. PICK c \in RlClients, n \in Nat : c = rlReq[q].c /\ n = Len(rlBucket) /\ DOMAIN rlBucket = 1..n
    <2>1. rlReq[q].c \in RlClients
      BY DEF RlCreate, RlTypeOK
    <2>2. Len(rlBucket) \in Nat /\ DOMAIN rlBucket = 1..Len(rlBucket)
      BY DEF RlTypeOK
    <2> QED
      BY <2>1, <2>2
  <1>2. PICK v \in RlBuckets :
          v = [tokens |-> RlMaxTokens, last |-> rlNow]
    <2>1. RlMaxTokens \in 0..RlMaxTokens /\ rlNow \in Nat
      BY RlAssumption DEF RlTypeOK
    <2> QED
      BY <2>1 DEF RlBuckets
  <1>3. PICK r : r = [rlReq[q] EXCEPT !.at = "take", !.b = n + 1]
    OBVIOUS
  <1>4. /\ rlBucket' = Append(rlBucket, v) /\ rlMap' = [rlMap EXCEPT ![c] = n + 1]
        /\ rlReq' = [rlReq EXCEPT ![q] = r] /\ rlNow' = rlNow /\ rlGranted' = rlGranted
        /\ rlShared' = IF rlMap[c] # RlNone THEN rlShared \cup {c} ELSE rlShared
    BY <1>1, <1>2, <1>3 DEF RlCreate, RlTo
  <1>5. /\ rlBucket' \in Seq(RlBuckets)
        /\ Len(rlBucket') = n + 1 /\ DOMAIN rlBucket' = 1..(n + 1) /\ rlBucket'[n + 1] = v
        /\ \A b \in 1..n : rlBucket'[b] = rlBucket[b]
    BY <1>1, <1>2, <1>4 DEF RlTypeOK
  <1>6. /\ r \in RlReqs
        /\ r.at = "take" /\ r.c = c /\ r.b = n + 1
    <2>1. rlReq[q] \in RlReqs
      BY DEF RlTypeOK
    <2>2. n + 1 \in Nat
      OBVIOUS
    <2> QED
      BY <1>1, <1>3, <2>1, <2>2, RlReqTakes DEF RlReqs
  <1>7. rlMap \in [RlClients -> 0..n] /\ rlMap' \in [RlClients -> 0..(n + 1)]
    BY <1>1, <1>4 DEF RlTypeOK
  <1>8. RlTypeOK'
    <2>1. ASSUME NEW b \in 1..(n + 1) PROVE rlBucket'[b].last <= rlNow'
      <3>1. b = n + 1 \/ b \in 1..n
        OBVIOUS
      <3>2. CASE b = n + 1
        BY <1>2, <1>4, <1>5, <3>2 DEF RlTypeOK
      <3>3. CASE b \in 1..n
        BY <1>1, <1>4, <1>5, <3>3 DEF RlTypeOK
      <3> QED
        BY <3>1, <3>2, <3>3
    <2>2. /\ rlReq' \in [RlRequests -> RlReqs]
          /\ \A p \in RlRequests :
               /\ rlReq'[p].at # "idle" => rlReq'[p].c \in RlClients
               /\ rlReq'[p].at = "take" => rlReq'[p].b \in 1..(n + 1)
      BY <1>1, <1>4, <1>6 DEF RlTypeOK
    <2> QED
      BY <1>4, <1>5, <1>7, <2>1, <2>2 DEF RlTypeOK, RlReqs, RlIdle
  <1>9. RlOwned'
    <2>1. \A d \in RlClients : (d = c => rlMap'[d] = n + 1) /\ (d # c => rlMap'[d] = rlMap[d] /\ rlMap[d] # n + 1)
      BY <1>1, <1>4, <1>7
    <2>2. \A d, e \in RlClients : rlMap'[d] = rlMap'[e] /\ rlMap'[d] # RlNone => d = e
      BY <2>1 DEF RlOwned
    <2>3. ASSUME NEW p \in RlRequests, NEW d \in RlClients, rlReq'[p].at = "take", rlMap'[d] = rlReq'[p].b
          PROVE  d = rlReq'[p].c
      <3>1. CASE p = q
        BY <1>4, <1>6, <2>1, <2>3, <3>1 DEF RlTypeOK
      <3>2. CASE p # q
        <4>1. rlReq'[p] = rlReq[p] /\ rlReq[p].b # n + 1
          BY <1>1, <1>4, <2>3, <3>2 DEF RlTypeOK
        <4> QED
          BY <2>1, <2>3, <4>1 DEF RlOwned
      <3> QED
        BY <3>1, <3>2
    <2> QED
      BY <2>2, <2>3 DEF RlOwned
  <1>10. ASSUME NEW d \in RlClients, d \notin rlShared', NEW w \in 0..rlNow'
         PROVE  RlSince(d, w)' + RlTokens(d)' <= RlMaxTokens + RlRate * (rlNow' - w)
    <2>1. CASE d # c
      <3>1. RlKeepsClient(d)
        BY <1>1, <1>4, <1>5, <1>7, <2>1, RlBucketOf DEF RlKeepsClient
      <3> QED
        BY <1>4, <1>10, <3>1, RlKeepsBudget
    <2>2. CASE d = c
      <3>1. rlMap[c] = RlNone /\ c \notin rlShared
        BY <1>4, <1>10, <2>2
      <3>2. RlTokens(c) = RlMaxTokens
        BY <3>1 DEF RlTokens
      <3>3. rlMap'[c] = n + 1 /\ n + 1 # RlNone
        BY <1>4, <1>7 DEF RlNone
      <3>4. rlNow' - rlBucket'[n + 1].last = 0 /\ rlBucket'[n + 1].tokens = RlMaxTokens
        BY <1>2, <1>4, <1>5 DEF RlTypeOK
      <3>5. RlTokens(c)' = RlRefill(RlMaxTokens, 0)
        BY <3>3, <3>4 DEF RlTokens
      <3>6. RlTokens(c)' = RlMaxTokens
        BY <3>5, RlRefillFacts, RlAssumption
      <3>7. RlSince(c, w)' = RlSince(c, w)
        BY <1>4 DEF RlSince
      <3> QED
        BY <1>4, <1>10, <2>2, <3>1, <3>2, <3>6, <3>7 DEF RlBudget
    <2> QED
      BY <2>1, <2>2
  <1> QED
    BY <1>8, <1>9, <1>10 DEF RlBudget

LEMMA RlTakeKeeps ==
  ASSUME RlInv, NEW q \in RlRequests, RlTake(q)
  PROVE  RlInv'
  <1> USE DEF RlInv
  <1>1. PICK c \in RlClients, b \in DOMAIN rlBucket : c = rlReq[q].c /\ b = rlReq[q].b /\ rlReq[q].at = "take"
    BY DEF RlTake, RlTypeOK
  <1>2. PICK n \in Nat : n = Len(rlBucket) /\ DOMAIN rlBucket = 1..n
    BY DEF RlTypeOK
  <1>3. PICK k \in 0..RlMaxTokens, z \in Nat :
          k = rlBucket[b].tokens /\ z = rlNow - rlBucket[b].last
    <2>1. rlBucket[b] \in RlBuckets
      BY RlElement DEF RlTypeOK
    <2>2. rlBucket[b].tokens \in 0..RlMaxTokens /\ rlBucket[b].last \in Nat
      BY <2>1 DEF RlBuckets
    <2>3. rlBucket[b].last <= rlNow /\ rlNow \in Nat
      BY DEF RlTypeOK
    <2> QED
      BY <2>2, <2>3
  <1>4. PICK t \in 0..RlMaxTokens : t = RlRefill(k, z)
    BY RlRefillFacts
  <1>5. PICK u \in 0..RlMaxTokens : u = IF t >= 1 THEN t - 1 ELSE t
    BY RlAssumption
  <1>6. rlNow \in Nat
    BY DEF RlTypeOK
  <1>7. PICK v \in RlBuckets : v = [tokens |-> u, last |-> rlNow]
    BY <1>6 DEF RlBuckets
  <1>8. /\ rlBucket' = [rlBucket EXCEPT ![b] = v]
        /\ rlGranted' = IF t >= 1 THEN [rlGranted EXCEPT ![c] = Append(rlGranted[c], rlNow)] ELSE rlGranted
        /\ rlShared' = IF rlMap[c] # b THEN rlShared \cup {c} ELSE rlShared
        /\ rlReq' = [rlReq EXCEPT ![q] = RlIdle]
        /\ rlNow' = rlNow /\ rlMap' = rlMap
    BY <1>1, <1>3, <1>4, <1>5, <1>7 DEF RlTake, RlTo
  <1>9. /\ rlBucket' \in Seq(RlBuckets) /\ Len(rlBucket') = n /\ DOMAIN rlBucket' = 1..n
        /\ rlBucket'[b] = v /\ \A d \in 1..n : d # b => rlBucket'[d] = rlBucket[d]
    <2>1. rlBucket \in Seq(RlBuckets)
      BY DEF RlTypeOK
    <2> QED
      BY <1>2, <1>8, <2>1
  <1>10. RlIdle.at = "idle" /\ RlIdle \in RlReqs
    BY DEF RlIdle, RlReqs, RlNone
  <1>11. RlTypeOK'
    <2>1. \A d \in 1..n : rlBucket'[d].last <= rlNow'
      BY <1>2, <1>6, <1>7, <1>8, <1>9 DEF RlTypeOK
    <2>2. /\ rlReq' \in [RlRequests -> RlReqs]
          /\ \A p \in RlRequests :
               /\ rlReq'[p].at # "idle" => rlReq'[p].c \in RlClients
               /\ rlReq'[p].at = "take" => rlReq'[p].b \in 1..n
      BY <1>2, <1>8, <1>10 DEF RlTypeOK
    <2>3. rlGranted[c] \in Seq(Nat) /\ rlGranted \in [RlClients -> Seq(Nat)]
      BY DEF RlTypeOK
    <2>4. /\ Append(rlGranted[c], rlNow) \in Seq(Nat)
          /\ \A i \in DOMAIN Append(rlGranted[c], rlNow) : Append(rlGranted[c], rlNow)[i] <= rlNow
      <3>1. PICK m \in Nat : m = Len(rlGranted[c]) /\ DOMAIN rlGranted[c] = 1..m
        BY <2>3
      <3>2. \A i \in 1..m : Append(rlGranted[c], rlNow)[i] = rlGranted[c][i]
        BY <2>3, <3>1
      <3>3. Append(rlGranted[c], rlNow)[m + 1] = rlNow /\ DOMAIN Append(rlGranted[c], rlNow) = 1..(m + 1)
        BY <2>3, <3>1
      <3>4. \A i \in 1..(m + 1) : i \in 1..m \/ i = m + 1
        OBVIOUS
      <3>5. \A i \in 1..m : rlGranted[c][i] <= rlNow
        BY <3>1 DEF RlTypeOK
      <3> QED
        BY <1>6, <2>3, <3>2, <3>3, <3>4, <3>5
    <2>5. /\ rlGranted' \in [RlClients -> Seq(Nat)]
          /\ \A d \in RlClients : \A i \in DOMAIN rlGranted'[d] : rlGranted'[d][i] <= rlNow
      BY <1>8, <2>3, <2>4 DEF RlTypeOK
    <2>6. rlMap' \in [RlClients -> 0..n]
      BY <1>2, <1>8 DEF RlTypeOK
    <2> QED
      BY <1>6, <1>8, <1>9, <2>1, <2>2, <2>5, <2>6 DEF RlTypeOK, RlReqs, RlBuckets, RlIdle
  <1>12. RlOwned'
    BY <1>8, <1>10 DEF RlOwned, RlTypeOK
  <1>13. ASSUME NEW d \in RlClients, d \notin rlShared', NEW w \in 0..rlNow'
         PROVE  RlSince(d, w)' + RlTokens(d)' <= RlMaxTokens + RlRate * (rlNow' - w)
    <2>1. CASE d # c
      <3>1. rlMap[d] # b
        BY <1>1, <2>1 DEF RlOwned
      <3>2. rlGranted'[d] = rlGranted[d]
        BY <1>8, <2>1 DEF RlTypeOK
      <3>3. RlKeepsClient(d)
        BY <1>2, <1>8, <1>9, <3>1, <3>2, RlBucketOf DEF RlKeepsClient
      <3> QED
        BY <1>8, <1>13, <3>3, RlKeepsBudget
    <2>2. CASE d = c
      <3>1. rlMap[c] = b /\ c \notin rlShared /\ b # RlNone
        BY <1>2, <1>8, <1>13, <2>2 DEF RlNone
      <3>2. RlTokens(c) = t
        BY <1>3, <1>4, <3>1 DEF RlTokens
      <3>3. RlTokens(c)' = u
        <4>1. rlBucket'[b].tokens = u /\ rlNow' - rlBucket'[b].last = 0
          BY <1>6, <1>7, <1>8, <1>9
        <4>2. RlTokens(c)' = RlRefill(u, 0)
          BY <1>8, <3>1, <4>1 DEF RlTokens
        <4> QED
          BY <4>2, RlRefillFacts
      <3>4. PICK s \in Seq(Nat) : s = rlGranted[c]
        BY DEF RlTypeOK
      <3>5. PICK a \in Nat : a = RlCount(s, w)
        BY <1>6, <1>8, <1>13, RlCountFacts
      <3>6. RlSince(c, w) = a
        BY <3>4, <3>5 DEF RlSince, RlCount
      <3>7. a + t <= RlMaxTokens + RlRate * (rlNow' - w)
        BY <1>8, <1>13, <3>1, <3>2, <3>6 DEF RlBudget
      <3>8. CASE t >= 1
        <4>1. rlGranted'[c] = Append(s, rlNow) /\ w \in Nat /\ w <= rlNow
          BY <1>6, <1>8, <1>13, <3>4, <3>8 DEF RlTypeOK
        <4>2. RlSince(c, w)' = RlCount(Append(s, rlNow), w)
          BY <4>1 DEF RlSince, RlCount
        <4>3. RlSince(c, w)' = a + 1
          BY <1>6, <3>5, <4>1, <4>2, RlCountFacts
        <4>4. RlSince(c, w)' + RlTokens(c)' = a + t
          BY <1>5, <3>3, <3>8, <4>3
        <4> QED
          BY <2>2, <3>7, <4>4
      <3>9. CASE ~(t >= 1)
        <4>1. RlSince(c, w)' = a
          BY <1>8, <3>6, <3>9 DEF RlSince
        <4> QED
          BY <1>5, <2>2, <3>3, <3>7, <3>9, <4>1
      <3> QED
        BY <3>8, <3>9
    <2> QED
      BY <2>1, <2>2
  <1> QED
    BY <1>11, <1>12, <1>13 DEF RlBudget

\* A bucket that cleanUp deletes was full again.
LEMMA RlCleanUpKeeps ==
  ASSUME RlInv, RlCleanUp
  PROVE  RlInv'
  <1> USE DEF RlInv
  <1>1. /\ rlMap' = [c \in RlClients |-> IF RlInactive(c) THEN RlNone ELSE rlMap[c]]
        /\ UNCHANGED << rlNow, rlBucket, rlReq, rlGranted, rlShared >>
    BY DEF RlCleanUp
  <1>2. rlMap' \in [RlClients -> 0..Len(rlBucket)]
    <2>1. Len(rlBucket) \in Nat /\ rlMap \in [RlClients -> 0..Len(rlBucket)]
      BY DEF RlTypeOK
    <2> QED
      BY <1>1, <2>1 DEF RlNone
  <1>3. RlTypeOK'
    BY <1>1, <1>2 DEF RlTypeOK, RlReqs, RlBuckets, RlIdle
  <1>4. \A d \in RlClients : rlMap'[d] = RlNone \/ rlMap'[d] = rlMap[d]
    BY <1>1
  <1>5. RlOwned'
    <2>1. \A p \in RlRequests : rlReq[p].at = "take" => rlReq[p].b # RlNone
      BY DEF RlTypeOK, RlNone
    <2> QED
      BY <1>1, <1>4, <2>1 DEF RlOwned
  <1>6. ASSUME NEW c \in RlClients, c \notin rlShared', NEW w \in 0..rlNow'
        PROVE  RlSince(c, w)' + RlTokens(c)' <= RlMaxTokens + RlRate * (rlNow' - w)
    <2>1. CASE ~RlInactive(c)
      BY <1>1, <1>6, <2>1, RlKeepsBudget DEF RlKeepsClient
    <2>2. CASE RlInactive(c)
      <3>1. rlMap[c] # RlNone /\ rlMap'[c] = RlNone
        BY <1>1, <2>2 DEF RlInactive
      <3>2. PICK t \in 0..RlMaxTokens, z \in Nat :
              t = rlBucket[rlMap[c]].tokens /\ z = rlNow - rlBucket[rlMap[c]].last
        BY <3>1, RlBucketOf
      <3>3. z >= RlMaxInactive
        BY <2>2, <3>2 DEF RlInactive
      <3>4. RlTokens(c) = RlMaxTokens /\ RlTokens(c)' = RlMaxTokens
        BY <3>1, <3>2, <3>3, RlRefillFacts DEF RlTokens
      <3>5. RlSince(c, w)' = RlSince(c, w)
        BY <1>1 DEF RlSince
      <3> QED
        BY <1>1, <1>6, <3>4, <3>5 DEF RlBudget
    <2> QED
      BY <2>1, <2>2
  <1> QED
    BY <1>3, <1>5, <1>6 DEF RlBudget

\* In every window of time chat/ratelimiter allows a client at most its burst and its
\* rate, whatever the interleaving of requests and cleanUp, unless one request took from
\* a bucket that another had replaced or cleanUp had deleted (PerClientLimiter.Allow,
\* RateLimiter.Allow, refill, cleanUp).
THEOREM WithinRate == RlSpec => []RlWithinRate
  <1>1. RlInit({TRUE}) => RlInv
    <2>1. SUFFICES ASSUME RlInit({TRUE}) PROVE RlInv
      OBVIOUS
    <2>2. /\ rlNow = 0 /\ rlBucket = <<>> /\ rlMap = [c \in RlClients |-> 0]
          /\ rlReq = [q \in RlRequests |-> RlIdle] /\ rlGranted = [c \in RlClients |-> <<>>]
      BY <2>1 DEF RlInit, RlNone
    <2>3. RlIdle.at = "idle" /\ RlIdle \in RlReqs
      BY DEF RlIdle, RlReqs, RlNone
    <2>4. RlTypeOK
      BY <2>2, <2>3 DEF RlTypeOK
    <2>5. RlOwned
      BY <2>2, <2>3 DEF RlOwned, RlNone
    <2>6. ASSUME NEW c \in RlClients, NEW w \in 0..rlNow
          PROVE  RlSince(c, w) + RlTokens(c) <= RlMaxTokens + RlRate * (rlNow - w)
      <3>1. w = 0 /\ rlNow = 0 /\ RlTokens(c) = RlMaxTokens
        BY <2>2, <2>6 DEF RlTokens, RlNone
      <3>2. <<>> \in Seq(Nat) /\ rlGranted[c] = <<>> /\ DOMAIN rlGranted[c] = {}
        BY <2>2
      <3>3. {i \in DOMAIN rlGranted[c] : rlGranted[c][i] >= w} = {}
        BY <3>2
      <3>4. RlSince(c, w) = 0
        BY <3>3, FS_EmptySet DEF RlSince
      <3> QED
        BY <3>1, <3>4, RlAssumption
    <2> QED
      BY <2>4, <2>5, <2>6 DEF RlInv, RlBudget
  <1>2. RlInv /\ [RlNext]_rlVars => RlInv'
    <2>1. SUFFICES ASSUME RlInv, [RlNext]_rlVars PROVE RlInv'
      OBVIOUS
    <2>2. CASE RlFatal \/ UNCHANGED rlVars
      <3>1. UNCHANGED << rlNow, rlMap, rlBucket, rlReq, rlGranted, rlShared >>
        BY <2>2 DEF RlFatal, rlVars
      <3>2. RlTypeOK' /\ RlOwned'
        BY <2>1, <3>1 DEF RlInv, RlTypeOK, RlReqs, RlBuckets, RlIdle, RlOwned
      <3>3. RlBudget'
        BY <2>1, <3>1, RlKeepsBudget DEF RlInv, RlBudget, RlKeepsClient
      <3> QED
        BY <3>2, <3>3 DEF RlInv
    <2> QED
      BY <2>1, <2>2, RlTickKeeps, RlCleanUpKeeps, RlCreateKeeps, RlTakeKeeps, RlLookupKeeps DEF RlNext
  <1>3. RlInv => RlWithinRate
    <2>1. SUFFICES ASSUME RlInv, NEW c \in RlClients \ rlShared, NEW w \in 0..rlNow
                   PROVE  RlSince(c, w) <= RlMaxTokens + RlRate * (rlNow - w)
      BY DEF RlWithinRate
    <2>2. RlSince(c, w) + RlTokens(c) <= RlMaxTokens + RlRate * (rlNow - w)
      BY <2>1 DEF RlInv, RlBudget
    <2>3. RlSince(c, w) \in Nat
      <3>1. rlGranted[c] \in Seq(Nat) /\ w \in Nat
        BY <2>1 DEF RlInv, RlTypeOK
      <3>2. RlCount(rlGranted[c], w) \in Nat
        BY <3>1, RlCountFacts
      <3> QED
        BY <3>2 DEF RlSince, RlCount
    <2>4. RlTokens(c) \in Nat
      BY <2>1, RlBucketOf, RlAssumption DEF RlInv
    <2>5. PICK x \in Nat : x = rlNow - w
      BY <2>1 DEF RlInv, RlTypeOK
    <2>6. RlRate * x \in Nat
      BY RlAssumption
    <2> QED
      BY <2>2, <2>3, <2>4, <2>5, <2>6, RlAssumption
  <1> QED
    BY <1>1, <1>2, <1>3, PTL DEF RlSpec
-----------------------------------------------------------------------------
(***************************************************************************)
(* The client loop: the inductive invariant, one part per idea             *)
(***************************************************************************)
ClOps == [op : {"none", "register", "unregister", "join", "leave"}, c : ClProcs,
          r : ClRooms \cup {ClNoRoom}, at : Nat, todo : SUBSET ClRooms]
ClOpOK(x) ==
  /\ x.op # "none" => x.c \in ClClients
  /\ x.op \in {"join", "leave"} => x.r \in ClRooms
ClWork == {x \in ClOps : ClOpOK(x)}

ClTypeOK ==
  /\ clConn \in [ClClients -> {"new", "open", "closed"}]
  /\ clPending \subseteq ClWork /\ clReg \in Seq(ClWork) /\ clProc \in [ClProcs -> ClWork]
  /\ clQueue \subseteq ClClients

\* Who is in a room has joined it.
ClRoomsOK ==
  /\ clMembers \in [ClRooms -> SUBSET ClClients]
  /\ clJoined \in [ClClients -> SUBSET ClRooms] /\ clRoomsOf \in [ClClients -> SUBSET ClRooms]
  /\ \A r \in ClRooms : \A c \in clMembers[r] : r \in clJoined[c]

\* The registration of a client goes through five places, one at a time: a goroutine,
\* registerCH, RegisterLoop, clientCH and one worker.
ClAsks(x, c) == x.op = "register" /\ x.c = c
ClAsked(c) == \E x \in clPending : ClAsks(x, c)
ClWaits(c) == \E i \in 1 .. Len(clReg) : ClAsks(clReg[i], c)
ClRuns(c) == \E p \in ClProcs : ClAsks(clProc[p], c)
ClServed(c) == \E w \in ClWorkers : c \in clWorker[w].clients
ClListed(c) == c \in clQueue \/ ClServed(c)
ClTaken(c) == ClRuns(c) \/ ClListed(c)
ClKnown(c) == ClWaits(c) \/ ClTaken(c)
ClOnePlace(c) ==
  /\ clConn[c] = "new" => ~ClAsked(c) /\ ~ClKnown(c)
  /\ ClAsked(c) => ~ClKnown(c)
  /\ ClWaits(c) => ~ClTaken(c)
  /\ ClRuns(c) => ~ClListed(c)
  /\ c \in clQueue => ~ClServed(c)
ClOneToken(c) ==
  /\ \A x, y \in clPending : ClAsks(x, c) /\ ClAsks(y, c) => x = y
  /\ \A i, j \in 1 .. Len(clReg) : ClAsks(clReg[i], c) /\ ClAsks(clReg[j], c) => i = j
  /\ \A p, q \in ClProcs : ClAsks(clProc[p], c) /\ ClAsks(clProc[q], c) => p = q
  /\ \A v, w \in ClWorkers : c \in clWorker[v].clients /\ c \in clWorker[w].clients => v = w
ClRegisterOK == \A c \in ClClients : ClOnePlace(c) /\ ClOneToken(c)

\* The messages and the goroutines that have them.
ClMessages == [kind : {"command", "broadcast", "room"}, from : ClClients,
               room : ClRooms \cup {ClNoRoom}]
ClWorkerStates == [clients : SUBSET ClClients, q : Seq(Nat), m : Nat, todo : SUBSET ClClients]
ClBcasts == [m : Nat, todo : SUBSET ClWorkers]
ClSends == [m : Nat, at : {"find", "collect", "write"}, todo : SUBSET ClClients]
ClIs(m, kind) == m \in 1 .. Len(clMsg) /\ clMsg[m].kind = kind
ClMessagesOK ==
  /\ clMsg \in Seq(ClMessages) /\ Len(clMsg) <= ClMaxMsgs
  /\ \A m \in 1 .. Len(clMsg) : clMsg[m].kind = "room" => clMsg[m].room \in ClRooms

\* A broadcast reaches a worker once: by its goroutine, in msgCh, or being written.
ClBound(w, m) == \E g \in clBcast : g.m = m /\ w \in g.todo
ClInQ(w, m) == \E i \in 1 .. Len(clWorker[w].q) : clWorker[w].q[i] = m
ClBcastOK ==
  /\ clBcast \subseteq ClBcasts
  /\ \A g \in clBcast : ClIs(g.m, "broadcast")
  /\ \A g, h \in clBcast : g.m = h.m => g = h
ClWorkerOK(w) ==
  /\ clWorker[w].todo \subseteq clWorker[w].clients
  /\ clWorker[w].m = 0 => clWorker[w].todo = {}
  /\ clWorker[w].m # 0 => ClIs(clWorker[w].m, "broadcast")
  /\ \A m : ClInQ(w, m) => ClIs(m, "broadcast") /\ m # clWorker[w].m
  /\ \A m : ClBound(w, m) => ~ClInQ(w, m) /\ m # clWorker[w].m
  /\ \A i, j \in 1 .. Len(clWorker[w].q) : clWorker[w].q[i] = clWorker[w].q[j] => i = j
ClWorkersOK == clWorker \in [ClWorkers -> ClWorkerStates] /\ \A w \in ClWorkers : ClWorkerOK(w)

\* Who may get a room message.
ClMayGet(c, m) ==
  /\ c # clMsg[m].from
  /\ clMsg[m].room \in clJoined[c] \cap clJoined[clMsg[m].from]
ClSendOK(g) ==
  /\ ClIs(g.m, "room")
  /\ g.at # "write" => g.todo = {}
  /\ \A c \in g.todo : ClMayGet(c, g.m)
ClSendsOK ==
  /\ clSend \subseteq ClSends
  /\ \A g \in clSend : ClSendOK(g)
  /\ \A g, h \in clSend : g.m = h.m => g = h

\* What a client has got: the worker or goroutine has passed it.
ClPassed(w, m, c) == ~ClBound(w, m) /\ ~ClInQ(w, m) /\ (clWorker[w].m = m => c \notin clWorker[w].todo)
ClGotBroadcast(c, m) ==
  ClIs(m, "broadcast") /\ \E w \in ClWorkers : c \in clWorker[w].clients /\ ClPassed(w, m, c)
ClSentTo(c, m) == \A g \in clSend : g.m = m => g.at = "write" /\ c \notin g.todo
ClGotRoom(c, m) == ClIs(m, "room") /\ ClMayGet(c, m) /\ ClSentTo(c, m)
ClGotOK ==
  /\ clGot \in [ClClients -> [1 .. ClMaxMsgs -> {0, 1}]]
  /\ \A c \in ClClients, m \in 1 .. ClMaxMsgs :
       clGot[c][m] = 1 => ClGotBroadcast(c, m) \/ ClGotRoom(c, m)

ClInv ==
  /\ ClTypeOK /\ ClRoomsOK /\ ClRegisterOK
  /\ ClMessagesOK /\ ClBcastOK /\ ClWorkersOK /\ ClSendsOK /\ ClGotOK

-----------------------------------------------------------------------------
(***************************************************************************)
(* The client loop: operations                                             *)
(***************************************************************************)
LEMMA ClWorkFacts ==
  /\ ClIdle \in ClWork /\ ClIdle.op = "none"
  /\ \A c \in ClClients : \A op \in {"register", "unregister"} :
       /\ ClOp(op, c, ClNoRoom) \in ClWork
       /\ ClOp(op, c, ClNoRoom).op = op /\ ClOp(op, c, ClNoRoom).c = c
  /\ \A c \in ClClients, r \in ClRooms : \A op \in {"join", "leave"} :
       ClOp(op, c, r) \in ClWork /\ ClOp(op, c, r).op = op
  <1> USE DEF ClWork, ClOps, ClOpOK, ClProcs
  <1>1. ClIdle \in ClWork /\ ClIdle.op = "none"
    BY DEF ClIdle
  <1>2. ASSUME NEW c \in ClClients, NEW op \in {"register", "unregister"}
        PROVE  /\ ClOp(op, c, ClNoRoom) \in ClWork
               /\ ClOp(op, c, ClNoRoom).op = op /\ ClOp(op, c, ClNoRoom).c = c
    BY DEF ClOp
  <1>3. ASSUME NEW c \in ClClients, NEW r \in ClRooms, NEW op \in {"join", "leave"}
        PROVE  ClOp(op, c, r) \in ClWork /\ ClOp(op, c, r).op = op
    BY DEF ClOp
  <1> QED
    BY <1>1, <1>2, <1>3

\* An operation that goes on is the same one.
ClSame(v, x) == v.op = x.op /\ v.c = x.c /\ v.r = x.r

LEMMA ClGoesOn ==
  ASSUME NEW x \in ClWork
  PROVE  /\ \A n \in Nat : [x EXCEPT !.at = n] \in ClWork /\ ClSame([x EXCEPT !.at = n], x)
         /\ \A S \in SUBSET ClRooms :
              [x EXCEPT !.todo = S] \in ClWork /\ ClSame([x EXCEPT !.todo = S], x)
         /\ \A S \in SUBSET ClRooms : \A n \in Nat :
              /\ [x EXCEPT !.at = n, !.todo = S] \in ClWork
              /\ ClSame([x EXCEPT !.at = n, !.todo = S], x)
  <1>1. x \in ClOps /\ ClOpOK(x)
    BY DEF ClWork
  <1>2. ASSUME NEW n \in Nat PROVE [x EXCEPT !.at = n] \in ClWork /\ ClSame([x EXCEPT !.at = n], x)
    BY <1>1 DEF ClWork, ClOps, ClOpOK, ClSame
  <1>3. ASSUME NEW S \in SUBSET ClRooms
        PROVE  [x EXCEPT !.todo = S] \in ClWork /\ ClSame([x EXCEPT !.todo = S], x)
    BY <1>1 DEF ClWork, ClOps, ClOpOK, ClSame
  <1>4. ASSUME NEW S \in SUBSET ClRooms, NEW n \in Nat
        PROVE  /\ [x EXCEPT !.at = n, !.todo = S] \in ClWork
               /\ ClSame([x EXCEPT !.at = n, !.todo = S], x)
    BY <1>1 DEF ClWork, ClOps, ClOpOK, ClSame
  <1> QED
    BY <1>2, <1>3, <1>4

\* A process starts no registration; it goes on with its operation or ends it.
ClProceeds ==
  /\ clProc' \in [ClProcs -> ClWork]
  /\ \A p \in ClProcs : clProc'[p].op = "register" => ClSame(clProc'[p], clProc[p])

LEMMA ClReplaced ==
  ASSUME ClTypeOK, NEW p \in ClProcs, NEW v \in ClWork, clProc' = [clProc EXCEPT ![p] = v],
         v.op = "register" => ClSame(v, clProc[p])
  PROVE  ClProceeds
  BY DEF ClTypeOK, ClProceeds, ClSame

LEMMA ClGoProceeds ==
  ASSUME ClTypeOK, NEW p \in ClProcs, NEW n \in Nat, ClGo(p, n)
  PROVE  ClProceeds
  <1>1. clProc \in [ClProcs -> ClWork] /\ clProc[p] \in ClWork
    BY DEF ClTypeOK
  <1>2. CASE n = 0
    <2>1. clProc' = [clProc EXCEPT ![p] = ClIdle]
      BY <1>2 DEF ClGo
    <2> QED
      BY <2>1, ClReplaced, ClWorkFacts
  <1>3. CASE n # 0
    <2> DEFINE v == [clProc[p] EXCEPT !.at = n]
    <2>1. v \in ClWork /\ ClSame(v, clProc[p])
      BY <1>1, ClGoesOn
    <2>2. clProc' = [clProc EXCEPT ![p] = v]
      BY <1>3 DEF ClGo
    <2> HIDE DEF v
    <2> QED
      BY <2>1, <2>2, ClReplaced
  <1> QED
    BY <1>2, <1>3

\* Operations of a process on rooms and clients, but for the registration.
LEMMA ClOperateProceeds ==
  ASSUME ClTypeOK, ClRoomsOK, NEW p \in ClProcs,
         ClJoinRoom(p) \/ ClLeaveRoom(p) \/ ClUnregister(p)
  PROVE  ClProceeds
  <1>1. clProc \in [ClProcs -> ClWork] /\ clProc[p] \in ClWork /\ clProc[p] \in ClOps
    BY DEF ClTypeOK, ClWork
  <1>2. CASE ClJoinRoom(p)
    BY <1>2, ClGoProceeds DEF ClJoinRoom
  <1>3. CASE ClLeaveRoom(p)
    BY <1>3, ClGoProceeds DEF ClLeaveRoom
  <1>4. CASE ClUnregister(p)
    <2>1. ASSUME NEW n \in {0, 1}, ClGo(p, n) PROVE ClProceeds
      BY <2>1, ClGoProceeds
    <2>2. ASSUME ClAt(p, "unregister", 1),
                 clProc' = [clProc EXCEPT ![p].at = 2, ![p].todo = clRoomsOf[clProc[p].c]]
          PROVE  ClProceeds
      <3>1. clRoomsOf[clProc[p].c] \in SUBSET ClRooms
        BY <1>1, <2>2 DEF ClAt, ClWork, ClOpOK, ClRoomsOK
      <3> DEFINE v == [clProc[p] EXCEPT !.at = 2, !.todo = clRoomsOf[clProc[p].c]]
      <3>2. v \in ClWork /\ ClSame(v, clProc[p])
        BY <1>1, <3>1, ClGoesOn
      <3>3. clProc' = [clProc EXCEPT ![p] = v]
        BY <1>1, <2>2
      <3> HIDE DEF v
      <3> QED
        BY <3>2, <3>3, ClReplaced
    <2>3. ASSUME NEW r, clProc' = [clProc EXCEPT ![p].todo = @ \ {r}] PROVE ClProceeds
      <3>1. clProc[p].todo \ {r} \in SUBSET ClRooms
        BY <1>1 DEF ClOps
      <3> DEFINE v == [clProc[p] EXCEPT !.todo = clProc[p].todo \ {r}]
      <3>2. v \in ClWork /\ ClSame(v, clProc[p])
        BY <1>1, <3>1, ClGoesOn
      <3>3. clProc' = [clProc EXCEPT ![p] = v]
        BY <1>1, <2>3
      <3> HIDE DEF v
      <3> QED
        BY <3>2, <3>3, ClReplaced
    <2> QED
      BY <1>4, <2>1, <2>2, <2>3 DEF ClUnregister
  <1> QED
    BY <1>2, <1>3, <1>4

\* Only joining, leaving and unregistering change the rooms.
LEMMA ClKeepsRooms ==
  ASSUME ClNext, ~\E p \in ClProcs : ClJoinRoom(p) \/ ClLeaveRoom(p) \/ ClUnregister(p)
  PROVE  UNCHANGED <<clMembers, clRoomsOf, clJoined>>
  <1> USE DEF ClPanic, clState
  <1>1. ASSUME ClAccept \/ ClRegisterLoopExits \/ ClCancel \/ ClMainExits
        PROVE  UNCHANGED <<clMembers, clRoomsOf, clJoined>>
    BY <1>1 DEF ClAccept, ClRegisterLoopExits, ClCancel, ClMainExits
  <1>2. ASSUME NEW c \in ClClients,
               ClHandleWS(c) \/ ClConnClosed(c) \/ ClReadClosed(c) \/ ClPingTimeout(c) \/ ClReadCancelled(c)
        PROVE  UNCHANGED <<clMembers, clRoomsOf, clJoined>>
    BY <1>2 DEF ClHandleWS, ClConnClosed, ClReadClosed, ClPingTimeout, ClReadCancelled
  <1>3. ASSUME NEW c \in ClClients,
               ClPing(c) \/ ClPongWritten(c) \/ ClJoinOrLeave(c) \/ ClBroadcast(c) \/ ClRoomMessage(c)
        PROVE  UNCHANGED <<clMembers, clRoomsOf, clJoined>>
    BY <1>3 DEF ClPing, ClPongWritten, ClJoinOrLeave, ClBroadcast, ClRoomMessage
  <1>4. ASSUME NEW x \in clPending, ClSubmit(x)
        PROVE  UNCHANGED <<clMembers, clRoomsOf, clJoined>>
    BY <1>4 DEF ClSubmit
  <1>5. ASSUME NEW p \in ClProcs, ClRegisterBroadcast(p) \/ ClLeaveRoomPanics(p)
        PROVE  UNCHANGED <<clMembers, clRoomsOf, clJoined>>
    BY <1>5 DEF ClRegisterBroadcast, ClLeaveRoomPanics
  <1>6. ASSUME NEW w \in ClWorkers, ClAcceptClient(w) \/ ClHandleBroadcast(w) \/ ClWorkerWrites(w)
        PROVE  UNCHANGED <<clMembers, clRoomsOf, clJoined>>
    BY <1>6 DEF ClAcceptClient, ClHandleBroadcast, ClWorkerWrites
  <1>7. ASSUME NEW g \in clBcast, ClBroadcastMSG(g)
        PROVE  UNCHANGED <<clMembers, clRoomsOf, clJoined>>
    BY <1>7 DEF ClBroadcastMSG
  <1>8. ASSUME NEW g \in clSend,
               ClSendFindsNone(g) \/ ClSendFindsRoom(g) \/ ClCollect(g) \/ ClSendWrites(g)
        PROVE  UNCHANGED <<clMembers, clRoomsOf, clJoined>>
    BY <1>8 DEF ClSendFindsNone, ClSendFindsRoom, ClCollect, ClSendWrites, ClSendKeep
  <1> QED
    BY <1>1, <1>2, <1>3, <1>4, <1>5, <1>6, <1>7, <1>8 DEF ClNext, ClOperate

\* Rooms: members have joined, and nobody forgets that.
LEMMA ClRoomsStep ==
  ASSUME ClTypeOK, ClRoomsOK, ClNext
  PROVE  ClRoomsOK' /\ \A c \in ClClients : clJoined[c] \subseteq clJoined'[c]
  <1> USE DEF ClRoomsOK
  <1>1. CASE UNCHANGED <<clMembers, clRoomsOf, clJoined>>
    BY <1>1
  <1>2. ASSUME NEW p \in ClProcs, ClJoinRoom(p)
        PROVE  ClRoomsOK' /\ \A c \in ClClients : clJoined[c] \subseteq clJoined'[c]
    <2>1. clProc[p] \in ClWork
      BY DEF ClTypeOK
    <2>2. PICK c, r : c = clProc[p].c /\ r = clProc[p].r
      OBVIOUS
    <2>3. clProc[p].op = "join" => c \in ClClients /\ r \in ClRooms
      BY <2>1, <2>2 DEF ClWork, ClOpOK
    <2>4. CASE UNCHANGED <<clMembers, clRoomsOf, clJoined>>
      BY <2>4
    <2>5. CASE /\ clProc[p].op = "join" /\ clMembers' = [clMembers EXCEPT ![r] = @ \cup {c}]
               /\ clJoined' = [clJoined EXCEPT ![c] = @ \cup {r}] /\ UNCHANGED clRoomsOf
      BY <2>3, <2>5
    <2>6. CASE /\ clProc[p].op = "join" /\ clRoomsOf' = [clRoomsOf EXCEPT ![c] = @ \cup {r}]
               /\ UNCHANGED <<clMembers, clJoined>>
      BY <2>3, <2>6
    <2> QED
      BY <1>2, <2>2, <2>4, <2>5, <2>6 DEF ClJoinRoom, ClAt
  <1>3. ASSUME NEW c, NEW r, clMembers' = [clMembers EXCEPT ![r] = @ \ {c}], UNCHANGED <<clRoomsOf, clJoined>>
        PROVE  ClRoomsOK' /\ \A d \in ClClients : clJoined[d] \subseteq clJoined'[d]
    <2>1. clMembers' \in [ClRooms -> SUBSET ClClients] /\ \A s \in ClRooms : clMembers'[s] \subseteq clMembers[s]
      BY <1>3
    <2> QED
      BY <1>3, <2>1
  <1>4. ASSUME NEW c, NEW S, clRoomsOf' = [clRoomsOf EXCEPT ![c] = S], c \in ClClients => S \subseteq ClRooms,
               UNCHANGED <<clMembers, clJoined>>
        PROVE  ClRoomsOK' /\ \A d \in ClClients : clJoined[d] \subseteq clJoined'[d]
    BY <1>4
  <1>5. ASSUME NEW p \in ClProcs, ClLeaveRoom(p)
        PROVE  ClRoomsOK' /\ \A c \in ClClients : clJoined[c] \subseteq clJoined'[c]
    <2>1. PICK c, r : c = clProc[p].c /\ r = clProc[p].r
      OBVIOUS
    <2>2. CASE clRoomsOf' = [clRoomsOf EXCEPT ![c] = @ \ {r}] /\ UNCHANGED <<clMembers, clJoined>>
      BY <2>2
    <2> QED
      BY <1>1, <1>3, <1>5, <2>1, <2>2 DEF ClLeaveRoom
  <1>6. ASSUME NEW p \in ClProcs, ClUnregister(p)
        PROVE  ClRoomsOK' /\ \A c \in ClClients : clJoined[c] \subseteq clJoined'[c]
    <2>1. PICK c : c = clProc[p].c
      OBVIOUS
    <2> QED
      BY <1>1, <1>3, <1>4, <1>6, <2>1 DEF ClUnregister
  <1>7. CASE ~\E p \in ClProcs : ClJoinRoom(p) \/ ClLeaveRoom(p) \/ ClUnregister(p)
    BY <1>1, <1>7, ClKeepsRooms
  <1> QED
    BY <1>2, <1>5, <1>6, <1>7

-----------------------------------------------------------------------------
(***************************************************************************)
(* The client loop: the way of a registration                              *)
(***************************************************************************)

\* Every place has the registration of c only if it had it before.
ClStays(c) ==
  /\ clConn'[c] = "new" => clConn[c] = "new"
  /\ ClAsked(c)' => ClAsked(c)
  /\ ClWaits(c)' => ClWaits(c)
  /\ ClRuns(c)' => ClRuns(c)
  /\ c \in clQueue' => c \in clQueue
  /\ ClServed(c)' => ClServed(c)
  /\ ClOneToken(c)'

LEMMA ClStaysOK ==
  ASSUME NEW c \in ClClients, ClOnePlace(c), ClStays(c)
  PROVE  ClOnePlace(c)' /\ ClOneToken(c)'
  BY DEF ClStays, ClOnePlace, ClKnown, ClTaken, ClListed

\* No operation on registrations starts or moves.
ClPendingCalm == clPending' \subseteq ClWork /\ \A x \in clPending' : x.op = "register" => x \in clPending
ClRegCalm == clReg' = clReg \/ \E x \in ClWork : x.op # "register" /\ clReg' = Append(clReg, x)
ClServedCalm == \A w \in ClWorkers : clWorker'[w].clients = clWorker[w].clients
ClConnCalm ==
  /\ clConn' \in [ClClients -> {"new", "open", "closed"}]
  /\ \A c \in ClClients : clConn'[c] = "new" => clConn[c] = "new"
ClCalm == ClConnCalm /\ ClPendingCalm /\ ClRegCalm /\ ClProceeds /\ clQueue' = clQueue /\ ClServedCalm

LEMMA ClPendingStays ==
  ASSUME NEW c, ClOneToken(c), \A x \in clPending' : ClAsks(x, c) => x \in clPending
  PROVE  /\ ClAsked(c)' => ClAsked(c)
         /\ \A x, y \in clPending' : ClAsks(x, c) /\ ClAsks(y, c) => x = y
  BY DEF ClOneToken, ClAsked

LEMMA ClRegStays ==
  ASSUME NEW c, ClTypeOK, ClOneToken(c),
         clReg' = clReg \/ \E x \in ClWork : ~ClAsks(x, c) /\ clReg' = Append(clReg, x)
  PROVE  /\ clReg' \in Seq(ClWork)
         /\ ClWaits(c)' => ClWaits(c)
         /\ \A i, j \in 1 .. Len(clReg') : ClAsks(clReg'[i], c) /\ ClAsks(clReg'[j], c) => i = j
  <1>1. clReg \in Seq(ClWork)
    BY DEF ClTypeOK
  <1>2. CASE clReg' = clReg
    BY <1>1, <1>2 DEF ClOneToken, ClWaits
  <1>3. ASSUME NEW x \in ClWork, ~ClAsks(x, c), clReg' = Append(clReg, x)
        PROVE  /\ clReg' \in Seq(ClWork)
               /\ \A i \in 1 .. Len(clReg') : ClAsks(clReg'[i], c) =>
                    i \in 1 .. Len(clReg) /\ clReg'[i] = clReg[i]
    BY <1>1, <1>3
  <1> QED
    BY <1>2, <1>3 DEF ClOneToken, ClWaits

LEMMA ClRunsStays ==
  ASSUME NEW c, ClOneToken(c), \A p \in ClProcs : ClAsks(clProc'[p], c) => ClAsks(clProc[p], c)
  PROVE  /\ ClRuns(c)' => ClRuns(c)
         /\ \A p, q \in ClProcs : ClAsks(clProc'[p], c) /\ ClAsks(clProc'[q], c) => p = q
  BY DEF ClOneToken, ClRuns

LEMMA ClServedStays ==
  ASSUME NEW c, ClOneToken(c),
         \A w \in ClWorkers : c \in clWorker'[w].clients => c \in clWorker[w].clients
  PROVE  /\ ClServed(c)' => ClServed(c)
         /\ \A v, w \in ClWorkers : c \in clWorker'[v].clients /\ c \in clWorker'[w].clients => v = w
  BY DEF ClOneToken, ClServed

LEMMA ClCalmStep ==
  ASSUME ClTypeOK, ClRegisterOK, ClCalm
  PROVE  ClTypeOK' /\ ClRegisterOK'
  <1>1. ASSUME NEW c \in ClClients PROVE ClStays(c)
    <2>1. ClOneToken(c)
      BY DEF ClRegisterOK
    <2>2. /\ ClAsked(c)' => ClAsked(c)
          /\ \A x, y \in clPending' : ClAsks(x, c) /\ ClAsks(y, c) => x = y
      BY <2>1, ClPendingStays DEF ClCalm, ClPendingCalm, ClAsks
    <2>3. clReg' = clReg \/ \E x \in ClWork : ~ClAsks(x, c) /\ clReg' = Append(clReg, x)
      BY DEF ClCalm, ClRegCalm, ClAsks
    <2>4. /\ ClWaits(c)' => ClWaits(c)
          /\ \A i, j \in 1 .. Len(clReg') : ClAsks(clReg'[i], c) /\ ClAsks(clReg'[j], c) => i = j
      BY <2>1, <2>3, ClRegStays
    <2>5. \A p \in ClProcs : ClAsks(clProc'[p], c) => ClAsks(clProc[p], c)
      BY DEF ClCalm, ClProceeds, ClSame, ClAsks
    <2>6. /\ ClRuns(c)' => ClRuns(c)
          /\ \A p, q \in ClProcs : ClAsks(clProc'[p], c) /\ ClAsks(clProc'[q], c) => p = q
      BY <2>1, <2>5, ClRunsStays
    <2>7. /\ ClServed(c)' => ClServed(c)
          /\ \A v, w \in ClWorkers : c \in clWorker'[v].clients /\ c \in clWorker'[w].clients => v = w
      BY <2>1, ClServedStays DEF ClCalm, ClServedCalm
    <2>8. ClOneToken(c)'
      BY <2>2, <2>4, <2>6, <2>7 DEF ClOneToken, ClAsks
    <2> QED
      BY <2>2, <2>4, <2>6, <2>7, <2>8 DEF ClStays, ClCalm, ClConnCalm
  <1>2. clReg' \in Seq(ClWork)
    BY DEF ClCalm, ClRegCalm, ClTypeOK
  <1>3. ClTypeOK'
    BY <1>2 DEF ClTypeOK, ClCalm, ClConnCalm, ClPendingCalm, ClProceeds
  <1> QED
    BY <1>1, <1>3, ClStaysOK DEF ClRegisterOK

\* A client that was new asks for one registration.
LEMMA ClHandleWSStep ==
  ASSUME ClTypeOK, ClRegisterOK, NEW d \in ClClients, ClHandleWS(d)
  PROVE  ClTypeOK' /\ ClRegisterOK'
  <1>1. PICK x \in {ClOp("register", d, ClNoRoom)} \cup
                   {ClOp(op, d, r) : op \in {"join", "leave"}, r \in ClRooms} :
          clPending' = clPending \cup {x}
    BY DEF ClHandleWS
  <1>2. x \in ClWork /\ (x.op = "register" => x.c = d)
    BY <1>1, ClWorkFacts
  <1>3. /\ clConn' = [clConn EXCEPT ![d] = "open"] /\ clConn[d] = "new"
        /\ UNCHANGED <<clReg, clProc, clQueue, clWorker>>
    BY DEF ClHandleWS, clState, clOut
  <1>4. ClTypeOK'
    BY <1>1, <1>2, <1>3 DEF ClTypeOK
  <1>5. ASSUME NEW c \in ClClients
        PROVE  /\ ClWaits(c)' = ClWaits(c) /\ ClRuns(c)' = ClRuns(c) /\ ClServed(c)' = ClServed(c)
               /\ clQueue' = clQueue
    BY <1>3 DEF ClWaits, ClRuns, ClServed
  <1>6. ASSUME NEW c \in ClClients, c # d PROVE ClStays(c)
    <2>1. ClOneToken(c)
      BY DEF ClRegisterOK
    <2>2. /\ ClAsked(c)' => ClAsked(c)
          /\ \A y, z \in clPending' : ClAsks(y, c) /\ ClAsks(z, c) => y = z
      BY <1>1, <1>2, <1>6, <2>1, ClPendingStays DEF ClAsks
    <2>3. ClOneToken(c)'
      BY <1>3, <2>1, <2>2 DEF ClOneToken, ClAsks
    <2> QED
      BY <1>3, <1>5, <1>6, <2>2, <2>3 DEF ClStays, ClTypeOK
  <1>7. ClOnePlace(d)' /\ ClOneToken(d)'
    <2>1. ClOneToken(d) /\ ~ClAsked(d) /\ ~ClKnown(d)
      BY <1>3 DEF ClRegisterOK, ClOnePlace
    <2>2. ~ClKnown(d)' /\ clConn'[d] = "open"
      BY <1>3, <1>5, <2>1 DEF ClKnown, ClTaken, ClListed, ClTypeOK
    <2>3. \A y, z \in clPending' : ClAsks(y, d) /\ ClAsks(z, d) => y = z
      BY <1>1, <2>1 DEF ClAsked
    <2> QED
      BY <1>3, <2>1, <2>2, <2>3 DEF ClOnePlace, ClKnown, ClTaken, ClListed, ClOneToken, ClAsks
  <1> QED
    BY <1>4, <1>6, <1>7, ClStaysOK DEF ClRegisterOK

\* A goroutine hands its registration to registerCH.
LEMMA ClSubmitStep ==
  ASSUME ClTypeOK, ClRegisterOK, NEW x \in clPending, clReg' = Append(clReg, x),
         clPending' = clPending \ {x}, UNCHANGED <<clConn, clProc, clQueue, clWorker>>
  PROVE  ClTypeOK' /\ ClRegisterOK'
  <1>1. clReg \in Seq(ClWork) /\ x \in ClWork /\ clReg' \in Seq(ClWork)
    BY DEF ClTypeOK
  <1>2. ClTypeOK'
    BY <1>1 DEF ClTypeOK
  <1>3. /\ Len(clReg') = Len(clReg) + 1 /\ clReg'[Len(clReg) + 1] = x /\ Len(clReg) \in Nat
        /\ \A i \in 1 .. Len(clReg) : clReg'[i] = clReg[i]
    BY <1>1
  <1>4. ASSUME NEW c \in ClClients
        PROVE  ClRuns(c)' = ClRuns(c) /\ ClServed(c)' = ClServed(c)
    BY DEF ClRuns, ClServed
  <1>5. ASSUME NEW c \in ClClients PROVE ClOneToken(c) /\ ClOnePlace(c)
    BY DEF ClRegisterOK
  <1>6. ASSUME NEW c \in ClClients, ~ClAsks(x, c) PROVE ClStays(c)
    <2>1. /\ ClAsked(c)' => ClAsked(c)
          /\ \A y, z \in clPending' : ClAsks(y, c) /\ ClAsks(z, c) => y = z
      BY <1>5, ClPendingStays
    <2>2. /\ ClWaits(c)' => ClWaits(c)
          /\ \A i, j \in 1 .. Len(clReg') : ClAsks(clReg'[i], c) /\ ClAsks(clReg'[j], c) => i = j
      BY <1>1, <1>5, <1>6, ClRegStays
    <2>3. ClOneToken(c)'
      BY <1>5, <2>1, <2>2 DEF ClOneToken, ClAsks
    <2> QED
      BY <1>4, <2>1, <2>2, <2>3 DEF ClStays
  <1>7. ASSUME NEW c \in ClClients, ClAsks(x, c) PROVE ClOnePlace(c)' /\ ClOneToken(c)'
    <2>1. ClAsked(c) /\ ~ClWaits(c) /\ ~ClTaken(c) /\ clConn[c] # "new"
      BY <1>5, <1>7 DEF ClOnePlace, ClAsked, ClKnown
    <2>2. ~ClAsked(c)'
      BY <1>5, <1>7 DEF ClOneToken, ClAsked, ClAsks
    <2>3. ~ClTaken(c)'
      BY <1>4, <2>1 DEF ClTaken, ClListed
    <2>4. \A i \in 1 .. Len(clReg') : ClAsks(clReg'[i], c) => i = Len(clReg) + 1
      BY <1>3, <2>1 DEF ClWaits
    <2>5. ClOneToken(c)'
      BY <1>5, <2>2, <2>4 DEF ClOneToken, ClAsks, ClAsked
    <2> QED
      BY <2>1, <2>2, <2>3, <2>5 DEF ClOnePlace, ClTaken, ClListed
  <1> QED
    BY <1>2, <1>5, <1>6, <1>7, ClStaysOK DEF ClRegisterOK

\* RegisterLoop receives from registerCH.
LEMMA ClAcceptStep ==
  ASSUME ClTypeOK, ClRegisterOK, ClAccept
  PROVE  ClTypeOK' /\ ClRegisterOK'
  <1>1. clReg \in Seq(ClWork) /\ clReg # <<>> /\ "loop" \in ClProcs /\ clProc["loop"] = ClIdle
    BY DEF ClTypeOK, ClAccept, ClProcs
  <1>2. /\ clProc' = [clProc EXCEPT !["loop"] = Head(clReg)] /\ clReg' = Tail(clReg)
        /\ UNCHANGED <<clConn, clPending, clQueue, clWorker>>
    BY DEF ClAccept, clNet, clState, clOut
  <1>3. Head(clReg) \in ClWork /\ Tail(clReg) \in Seq(ClWork)
    BY <1>1
  <1>4. ClTypeOK'
    BY <1>2, <1>3 DEF ClTypeOK
  <1>5. /\ Len(clReg') = Len(clReg) - 1 /\ Len(clReg) \in Nat \ {0} /\ Head(clReg) = clReg[1]
        /\ \A i \in 1 .. Len(clReg') : clReg'[i] = clReg[i + 1]
    BY <1>1, <1>2
  <1>6. \A p \in ClProcs : clProc'[p] = IF p = "loop" THEN clReg[1] ELSE clProc[p]
    BY <1>2, <1>5 DEF ClTypeOK
  <1>7. ASSUME NEW c \in ClClients PROVE /\ ClOneToken(c) /\ ClOnePlace(c)
                                         /\ ~ClAsks(clProc["loop"], c)
                                         /\ ClAsked(c)' = ClAsked(c) /\ ClServed(c)' = ClServed(c)
    BY <1>1, <1>2, ClWorkFacts DEF ClRegisterOK, ClAsks, ClAsked, ClServed
  <1>8. ASSUME NEW c \in ClClients
        PROVE  /\ ClWaits(c)' => ClWaits(c)
               /\ \A i, j \in 1 .. Len(clReg') : ClAsks(clReg'[i], c) /\ ClAsks(clReg'[j], c) => i = j
    <2>1. \A i \in 1 .. Len(clReg') : i + 1 \in 1 .. Len(clReg)
      BY <1>5
    <2>2. \A i, j \in 1 .. Len(clReg') : ClAsks(clReg'[i], c) /\ ClAsks(clReg'[j], c) => i + 1 = j + 1
      BY <1>5, <1>7, <2>1 DEF ClOneToken
    <2>3. ClWaits(c)' => ClWaits(c)
      BY <1>5, <2>1 DEF ClWaits, ClAsks
    <2>4. \A i, j \in 1 .. Len(clReg') : i + 1 = j + 1 => i = j
      OBVIOUS
    <2> QED
      BY <2>2, <2>3, <2>4
  <1>9. ASSUME NEW c \in ClClients, ~ClAsks(clReg[1], c) PROVE ClStays(c)
    <2>1. \A p \in ClProcs : ClAsks(clProc'[p], c) => ClAsks(clProc[p], c)
      BY <1>6, <1>9
    <2>2. /\ ClRuns(c)' => ClRuns(c)
          /\ \A p, q \in ClProcs : ClAsks(clProc'[p], c) /\ ClAsks(clProc'[q], c) => p = q
      BY <1>7, <2>1, ClRunsStays
    <2>3. ClOneToken(c)'
      BY <1>2, <1>7, <1>8, <2>2 DEF ClOneToken, ClAsks
    <2> QED
      BY <1>2, <1>7, <1>8, <2>2, <2>3 DEF ClStays
  <1>10. ASSUME NEW c \in ClClients, ClAsks(clReg[1], c) PROVE ClOnePlace(c)' /\ ClOneToken(c)'
    <2>1. 1 \in 1 .. Len(clReg)
      BY <1>5
    <2>2. ClWaits(c) /\ ~ClRuns(c) /\ ~ClListed(c) /\ clConn[c] # "new" /\ ~ClAsked(c)
      BY <1>7, <1>10, <2>1 DEF ClOnePlace, ClWaits, ClKnown, ClTaken
    <2>3. ~ClWaits(c)'
      <3>1. \A i \in 1 .. Len(clReg) : ClAsks(clReg[i], c) => i = 1
        BY <1>7, <1>10, <2>1 DEF ClOneToken
      <3>2. \A i \in 1 .. Len(clReg') : i + 1 \in 1 .. Len(clReg) /\ i + 1 # 1
        BY <1>5
      <3> QED
        BY <1>5, <3>1, <3>2 DEF ClWaits
    <2>4. ~ClListed(c)'
      BY <1>2, <1>7, <2>2 DEF ClListed
    <2>5. \A p \in ClProcs : ClAsks(clProc'[p], c) => p = "loop"
      BY <1>6, <2>2 DEF ClRuns
    <2>6. ClOneToken(c)'
      BY <1>2, <1>7, <1>8, <2>5 DEF ClOneToken, ClAsks
    <2> QED
      BY <1>2, <1>7, <2>2, <2>3, <2>4, <2>6 DEF ClOnePlace, ClKnown, ClTaken, ClListed
  <1> QED
    BY <1>4, <1>7, <1>9, <1>10, ClStaysOK DEF ClRegisterOK

\* RegisterBroadcast hands the client to clientCH.
LEMMA ClRegisterBroadcastStep ==
  ASSUME ClTypeOK, ClRegisterOK, NEW s \in ClProcs, ClRegisterBroadcast(s)
  PROVE  ClTypeOK' /\ ClRegisterOK'
  <1>1. clProc[s] \in ClWork /\ clProc[s].op = "register"
    BY DEF ClTypeOK, ClRegisterBroadcast, ClAt
  <1>2. PICK d \in ClClients : d = clProc[s].c
    BY <1>1 DEF ClWork, ClOpOK
  <1>3. /\ clProc' = [clProc EXCEPT ![s] = ClIdle] /\ clQueue' = clQueue \cup {d}
        /\ UNCHANGED <<clConn, clPending, clReg, clWorker>>
    BY <1>2 DEF ClRegisterBroadcast, ClGo, ClKeep, clNet, clRegVars, clOut
  <1>4. ClTypeOK'
    BY <1>3, ClWorkFacts DEF ClTypeOK
  <1>5. \A p \in ClProcs : clProc'[p] = IF p = s THEN ClIdle ELSE clProc[p]
    BY <1>3 DEF ClTypeOK
  <1>6. ASSUME NEW c \in ClClients
        PROVE  /\ ClOneToken(c) /\ ClOnePlace(c) /\ ClAsked(c)' = ClAsked(c)
               /\ ClWaits(c)' = ClWaits(c) /\ ClServed(c)' = ClServed(c)
    BY <1>3 DEF ClRegisterOK, ClAsked, ClWaits, ClServed
  <1>7. ASSUME NEW c \in ClClients
        PROVE  /\ ClRuns(c)' => ClRuns(c)
               /\ ClOneToken(c)'
    <2>1. \A p \in ClProcs : ClAsks(clProc'[p], c) => ClAsks(clProc[p], c)
      BY <1>5, ClWorkFacts DEF ClAsks
    <2>2. /\ ClRuns(c)' => ClRuns(c)
          /\ \A p, q \in ClProcs : ClAsks(clProc'[p], c) /\ ClAsks(clProc'[q], c) => p = q
      BY <1>6, <2>1, ClRunsStays
    <2>3. ClOneToken(c)'
      BY <1>3, <1>6, <2>2 DEF ClOneToken, ClAsks
    <2> QED
      BY <2>2, <2>3
  <1>8. ASSUME NEW c \in ClClients, c # d PROVE ClStays(c)
    BY <1>3, <1>6, <1>7, <1>8 DEF ClStays
  <1>9. ClOnePlace(d)'
    <2>1. ClRuns(d) /\ ~ClListed(d) /\ ~ClWaits(d) /\ clConn[d] # "new" /\ ~ClAsked(d)
      BY <1>1, <1>2, <1>6 DEF ClOnePlace, ClRuns, ClAsks, ClKnown, ClTaken
    <2>2. ~ClRuns(d)'
      <3>1. \A p \in ClProcs : ClAsks(clProc[p], d) => p = s
        BY <1>1, <1>2, <1>6 DEF ClOneToken, ClAsks
      <3> QED
        BY <1>5, <3>1, ClWorkFacts DEF ClRuns, ClAsks
    <2> QED
      BY <1>3, <1>6, <2>1, <2>2 DEF ClOnePlace, ClListed
  <1> QED
    BY <1>4, <1>6, <1>7, <1>8, <1>9, ClStaysOK DEF ClRegisterOK

\* One worker receives the client from clientCH.
LEMMA ClAcceptClientStep ==
  ASSUME ClTypeOK, ClRegisterOK, clWorker \in [ClWorkers -> ClWorkerStates],
         NEW w \in ClWorkers, ClAcceptClient(w)
  PROVE  ClTypeOK' /\ ClRegisterOK'
  <1>1. PICK d \in clQueue :
          clQueue' = clQueue \ {d} /\ clWorker' = [clWorker EXCEPT ![w].clients = @ \cup {d}]
    BY DEF ClAcceptClient
  <1>2. UNCHANGED <<clConn, clPending, clReg, clProc>> /\ d \in ClClients
    BY DEF ClAcceptClient, clNet, clRegVars, ClTypeOK
  <1>3. ClTypeOK'
    BY <1>1, <1>2 DEF ClTypeOK
  <1>4. \A v \in ClWorkers :
          clWorker'[v].clients = IF v = w THEN clWorker[v].clients \cup {d} ELSE clWorker[v].clients
    BY <1>1 DEF ClWorkerStates
  <1>5. ASSUME NEW c \in ClClients
        PROVE  /\ ClOneToken(c) /\ ClOnePlace(c) /\ ClAsked(c)' = ClAsked(c)
               /\ ClWaits(c)' = ClWaits(c) /\ ClRuns(c)' = ClRuns(c)
    BY <1>2 DEF ClRegisterOK, ClAsked, ClWaits, ClRuns
  <1>6. ASSUME NEW c \in ClClients, c # d PROVE ClStays(c)
    <2>1. \A v \in ClWorkers : c \in clWorker'[v].clients => c \in clWorker[v].clients
      BY <1>4, <1>6
    <2>2. /\ ClServed(c)' => ClServed(c)
          /\ \A u, v \in ClWorkers : c \in clWorker'[u].clients /\ c \in clWorker'[v].clients => u = v
      BY <1>5, <2>1, ClServedStays
    <2>3. ClOneToken(c)'
      BY <1>2, <1>5, <2>2 DEF ClOneToken, ClAsks
    <2> QED
      BY <1>1, <1>2, <1>5, <2>2, <2>3 DEF ClStays
  <1>7. ClOnePlace(d)' /\ ClOneToken(d)'
    <2>1. ~ClServed(d) /\ ~ClRuns(d) /\ ~ClWaits(d) /\ ~ClAsked(d) /\ clConn[d] # "new"
      BY <1>1, <1>2, <1>5 DEF ClOnePlace, ClKnown, ClTaken, ClListed
    <2>2. \A u, v \in ClWorkers : d \in clWorker'[u].clients /\ d \in clWorker'[v].clients => u = v
      BY <1>4, <2>1 DEF ClServed
    <2>3. ClOneToken(d)'
      BY <1>2, <1>5, <2>2 DEF ClOneToken, ClAsks
    <2> QED
      BY <1>1, <1>2, <1>5, <2>1, <2>3 DEF ClOnePlace
  <1> QED
    BY <1>3, <1>5, <1>6, <1>7, ClStaysOK DEF ClRegisterOK

\* A write error asks for the removal of the client at most.
LEMMA ClWriteErrorCalm ==
  ASSUME ClTypeOK, NEW c \in ClClients, ClWriteError(c) \/ UNCHANGED clPending
  PROVE  ClPendingCalm
  BY ClWorkFacts DEF ClTypeOK, ClWriteError, ClPendingCalm

\* The steps that leave the way of a registration alone.
ClAside ==
  \/ ClRegisterLoopExits \/ ClCancel \/ ClMainExits
  \/ \E c \in ClClients :
       \/ ClConnClosed(c) \/ ClReadClosed(c) \/ ClPingTimeout(c) \/ ClReadCancelled(c)
       \/ ClPing(c) \/ ClPongWritten(c) \/ ClJoinOrLeave(c) \/ ClBroadcast(c) \/ ClRoomMessage(c)
  \/ \E p \in ClProcs :
       ClJoinRoom(p) \/ ClLeaveRoom(p) \/ ClLeaveRoomPanics(p) \/ ClUnregister(p)
  \/ \E w \in ClWorkers : ClHandleBroadcast(w) \/ ClWorkerWrites(w)
  \/ \E g \in clBcast : ClBroadcastMSG(g)
  \/ \E g \in clSend :
       ClSendFindsNone(g) \/ ClSendFindsRoom(g) \/ ClCollect(g) \/ ClSendWrites(g)

LEMMA ClAsideCalm ==
  ASSUME ClTypeOK, ClRoomsOK, clWorker \in [ClWorkers -> ClWorkerStates],
         clSend \subseteq ClSends, clBcast \subseteq ClBcasts, ClAside
  PROVE  ClCalm
  <1>1. /\ clConn \in [ClClients -> {"new", "open", "closed"}] /\ clPending \subseteq ClWork
        /\ clProc \in [ClProcs -> ClWork] /\ clReg \in Seq(ClWork)
    BY DEF ClTypeOK
  <1>2. /\ UNCHANGED clConn => ClConnCalm
        /\ UNCHANGED clPending => ClPendingCalm
        /\ UNCHANGED clReg => ClRegCalm
        /\ UNCHANGED clProc => ClProceeds
        /\ UNCHANGED clWorker => ClServedCalm
    BY <1>1 DEF ClConnCalm, ClPendingCalm, ClRegCalm, ClProceeds, ClServedCalm, ClSame
  <1>3. CASE UNCHANGED <<clConn, clPending, clReg, clProc, clQueue, clWorker>>
    BY <1>2, <1>3 DEF ClCalm
  <1>4. CASE ClRegisterLoopExits \/ ClCancel \/ ClMainExits
    BY <1>3, <1>4 DEF ClRegisterLoopExits, ClCancel, ClMainExits, clNet, clRegVars, clState, clOut
  <1>5. CASE ClPanic
    BY <1>3, <1>5 DEF ClPanic, clNet, clRegVars, clState, clOut
  <1>6. ASSUME NEW c \in ClClients, ClConnClosed(c) \/ ClPingTimeout(c) \/ ClReadCancelled(c)
        PROVE  ClCalm
    <2>1. /\ clConn' = [clConn EXCEPT ![c] = "closed"]
          /\ UNCHANGED <<clPending, clReg, clProc, clQueue, clWorker>>
      BY <1>6 DEF ClConnClosed, ClPingTimeout, ClReadCancelled, clRegVars, clState, clOut
    <2>2. ClConnCalm
      BY <1>1, <2>1 DEF ClConnCalm
    <2> QED
      BY <1>2, <2>1, <2>2 DEF ClCalm
  <1>7. ASSUME NEW c \in ClClients, ClReadClosed(c) PROVE ClCalm
    <2>1. CASE /\ clReg' = Append(clReg, ClOp("unregister", c, ClNoRoom))
               /\ UNCHANGED <<clConn, clPending, clProc, clQueue, clWorker>>
      <3>1. ClRegCalm
        BY <2>1, ClWorkFacts DEF ClRegCalm
      <3> QED
        BY <1>2, <2>1, <3>1 DEF ClCalm
    <2> QED
      BY <1>5, <1>7, <2>1 DEF ClReadClosed, clState, clOut
  <1>8. ASSUME NEW c \in ClClients, ClPing(c) \/ ClPongWritten(c) PROVE ClCalm
    <2>1. UNCHANGED <<clConn, clReg, clProc, clQueue, clWorker>>
      BY <1>8 DEF ClPing, ClPongWritten, clRegVars, clState, clOut
    <2>2. ClPendingCalm
      BY <1>8, ClWriteErrorCalm DEF ClPing, ClPongWritten, clRegVars
    <2> QED
      BY <1>2, <2>1, <2>2 DEF ClCalm
  <1>9. ASSUME NEW c \in ClClients, ClJoinOrLeave(c) PROVE ClCalm
    <2>1. UNCHANGED <<clConn, clPending, clReg, clQueue, clWorker>>
      BY <1>9 DEF ClJoinOrLeave, clNet, clRegVars, clState
    <2>2. PICK op \in {"join", "leave"}, r \in ClRooms : clProc' = [clProc EXCEPT ![c] = ClOp(op, c, r)]
      BY <1>9 DEF ClJoinOrLeave
    <2>3. ClProceeds
      BY <2>2, ClReplaced, ClWorkFacts DEF ClProcs
    <2> QED
      BY <1>2, <2>1, <2>3 DEF ClCalm
  <1>10. ASSUME NEW c \in ClClients, ClBroadcast(c) \/ ClRoomMessage(c) PROVE ClCalm
    BY <1>3, <1>10 DEF ClBroadcast, ClRoomMessage, clNet, clRegVars, clState
  <1>11. ASSUME NEW p \in ClProcs, ClJoinRoom(p) \/ ClLeaveRoom(p) \/ ClUnregister(p) PROVE ClCalm
    <2>1. UNCHANGED <<clConn, clPending, clReg, clQueue, clWorker>>
      BY <1>11 DEF ClJoinRoom, ClLeaveRoom, ClUnregister, ClKeep, clNet, clRegVars, clOut
    <2>2. ClProceeds
      BY <1>11, ClOperateProceeds
    <2> QED
      BY <1>2, <2>1, <2>2 DEF ClCalm
  <1>12. ASSUME NEW w \in ClWorkers, ClHandleBroadcast(w) PROVE ClCalm
    <2>1. UNCHANGED <<clConn, clPending, clReg, clProc, clQueue>>
      BY <1>12 DEF ClHandleBroadcast, clNet, clRegVars, clState
    <2>2. ClServedCalm
      BY <1>12 DEF ClHandleBroadcast, ClServedCalm, ClWorkerStates
    <2> QED
      BY <1>2, <2>1, <2>2 DEF ClCalm
  <1>13. ASSUME NEW w \in ClWorkers, ClWorkerWrites(w) PROVE ClCalm
    <2>1. ASSUME NEW c,
                 clWorker' = [clWorker EXCEPT ![w].todo = @ \ {c},
                                              ![w].m = IF clWorker[w].todo = {c} THEN 0 ELSE @],
                 UNCHANGED <<clConn, clPending, clReg, clProc, clQueue>>
          PROVE  ClCalm
      <3>1. ClServedCalm
        BY <2>1 DEF ClServedCalm, ClWorkerStates
      <3> QED
        BY <1>2, <2>1, <3>1 DEF ClCalm
    <2> QED
      BY <1>5, <1>13, <2>1 DEF ClWorkerWrites, clNet, clRegVars, clState
  <1>14. ASSUME NEW g \in clBcast, ClBroadcastMSG(g) PROVE ClCalm
    <2>1. UNCHANGED <<clConn, clPending, clReg, clProc, clQueue>>
      BY <1>14 DEF ClBroadcastMSG, clNet, clRegVars, clState
    <2>2. PICK w \in g.todo : clWorker' = [clWorker EXCEPT ![w].q = Append(@, g.m)]
      BY <1>14 DEF ClBroadcastMSG
    <2>3. ClServedCalm
      BY <2>2 DEF ClServedCalm, ClWorkerStates
    <2> QED
      BY <1>2, <2>1, <2>3 DEF ClCalm
  <1>15. ASSUME NEW g \in clSend, ClSendFindsNone(g) \/ ClSendFindsRoom(g) \/ ClCollect(g) PROVE ClCalm
    BY <1>3, <1>15 DEF ClSendFindsNone, ClSendFindsRoom, ClCollect, ClSendKeep, clNet, clState
  <1>16. ASSUME NEW g \in clSend, ClSendWrites(g) PROVE ClCalm
    <2>1. g.todo \subseteq ClClients
      BY DEF ClSends
    <2>2. ASSUME NEW c \in g.todo,
                 IF clConn[c] = "open" THEN UNCHANGED clPending ELSE ClWriteError(c), ClSendKeep
          PROVE  ClCalm
      <3>1. UNCHANGED <<clConn, clReg, clProc, clQueue, clWorker>>
        BY <2>2 DEF ClSendKeep, clNet, clState
      <3>2. ClPendingCalm
        BY <2>1, <2>2, ClWriteErrorCalm
      <3> QED
        BY <1>2, <3>1, <3>2 DEF ClCalm
    <2> QED
      BY <1>5, <1>16, <2>2 DEF ClSendWrites
  <1>17. ASSUME NEW p \in ClProcs, ClLeaveRoomPanics(p) PROVE ClCalm
    BY <1>5, <1>17 DEF ClLeaveRoomPanics
  <1> QED
    BY <1>4, <1>6, <1>7, <1>8, <1>9, <1>10, <1>11, <1>12, <1>13, <1>14, <1>15, <1>16, <1>17 DEF ClAside

LEMMA ClRegisterStep ==
  ASSUME ClTypeOK, ClRoomsOK, ClRegisterOK, clWorker \in [ClWorkers -> ClWorkerStates],
         clSend \subseteq ClSends, clBcast \subseteq ClBcasts, ClNext
  PROVE  ClTypeOK' /\ ClRegisterOK'
  <1>1. CASE ClAside
    BY <1>1, ClAsideCalm, ClCalmStep
  <1>2. ASSUME NEW x \in clPending, ClSubmit(x) PROVE ClTypeOK' /\ ClRegisterOK'
    <2>1. CASE ClPanic
      <3>1. UNCHANGED <<clConn, clPending, clReg, clProc, clQueue, clWorker>>
        BY <2>1 DEF ClPanic, clNet, clRegVars, clState, clOut
      <3>2. ClCalm
        BY <3>1 DEF ClTypeOK, ClCalm, ClConnCalm, ClPendingCalm, ClRegCalm, ClProceeds, ClSame, ClServedCalm
      <3> QED
        BY <3>2, ClCalmStep
    <2>2. CASE /\ clReg' = Append(clReg, x) /\ clPending' = clPending \ {x}
               /\ UNCHANGED <<clConn, clProc, clQueue, clWorker>>
      BY <2>2, ClSubmitStep
    <2> QED
      BY <1>2, <2>1, <2>2 DEF ClSubmit, clNet, clState, clOut
  <1> QED
    BY <1>1, <1>2, ClHandleWSStep, ClAcceptStep, ClRegisterBroadcastStep, ClAcceptClientStep
       DEF ClNext, ClOperate, ClAside

-----------------------------------------------------------------------------
(***************************************************************************)
(* The client loop: messages and who has got them                          *)
(***************************************************************************)
ClChatOK == ClMessagesOK /\ ClBcastOK /\ ClWorkersOK /\ ClSendsOK /\ ClGotOK

ClMsgGrows ==
  Len(clMsg) <= Len(clMsg') /\ \A m \in 1 .. Len(clMsg) : clMsg'[m] = clMsg[m]
ClJoinedGrows == \A c \in ClClients : clJoined[c] \subseteq clJoined'[c]

\* What was passed or sent to a client stays so.
ClStillPassed ==
  \A w \in ClWorkers, c \in ClClients : \A m \in 1 .. Len(clMsg) :
    c \in clWorker[w].clients /\ ClPassed(w, m, c) =>
      c \in clWorker'[w].clients /\ ClPassed(w, m, c)'
ClStillSent ==
  \A c \in ClClients : \A m \in 1 .. Len(clMsg) : ClSentTo(c, m) => ClSentTo(c, m)'

LEMMA ClIsStays ==
  ASSUME ClMessagesOK, ClMessagesOK', ClMsgGrows, NEW m, NEW k, ClIs(m, k)
  PROVE  ClIs(m, k)'
  <1>1. Len(clMsg) \in Nat /\ Len(clMsg') \in Nat
    BY DEF ClMessagesOK
  <1>2. m \in 1 .. Len(clMsg')
    BY <1>1 DEF ClIs, ClMsgGrows
  <1> QED
    BY <1>2 DEF ClIs, ClMsgGrows

LEMMA ClMayGetStays ==
  ASSUME ClMessagesOK, ClMsgGrows, ClJoinedGrows, NEW c \in ClClients, NEW m \in 1 .. Len(clMsg),
         ClMayGet(c, m)
  PROVE  ClMayGet(c, m)'
  <1>1. clMsg[m] \in ClMessages
    BY DEF ClMessagesOK
  <1>2. clMsg[m].from \in ClClients /\ clMsg'[m] = clMsg[m]
    BY <1>1 DEF ClMessages, ClMsgGrows
  <1> QED
    BY <1>2 DEF ClMayGet, ClJoinedGrows

LEMMA ClSendOKStays ==
  ASSUME ClMessagesOK, ClMessagesOK', ClMsgGrows, ClJoinedGrows, NEW g \in ClSends, ClSendOK(g)
  PROVE  ClSendOK(g)'
  <1>1. ClIs(g.m, "room")'
    BY ClIsStays DEF ClSendOK
  <1>2. \A c \in g.todo : ClMayGet(c, g.m)'
    BY ClMayGetStays DEF ClSendOK, ClIs, ClSends
  <1> QED
    BY <1>1, <1>2 DEF ClSendOK

\* What has been got, by the end of a step.
LEMMA ClGotStep ==
  ASSUME ClMessagesOK, ClMessagesOK', ClMsgGrows, ClJoinedGrows, ClGotOK, ClStillPassed, ClStillSent,
         clGot' \in [ClClients -> [1 .. ClMaxMsgs -> {0, 1}]],
         \A c \in ClClients, m \in 1 .. ClMaxMsgs :
           clGot'[c][m] = 1 => clGot[c][m] = 1 \/ ClGotBroadcast(c, m)' \/ ClGotRoom(c, m)'
  PROVE  ClGotOK'
  <1>1. ASSUME NEW c \in ClClients, NEW m \in 1 .. ClMaxMsgs, clGot'[c][m] = 1
        PROVE  ClGotBroadcast(c, m)' \/ ClGotRoom(c, m)'
    <2>1. CASE ClGotBroadcast(c, m)
      <3>1. ClIs(m, "broadcast")' /\ m \in 1 .. Len(clMsg)
        BY <2>1, ClIsStays DEF ClGotBroadcast, ClIs
      <3>2. PICK w \in ClWorkers : c \in clWorker[w].clients /\ ClPassed(w, m, c)
        BY <2>1 DEF ClGotBroadcast
      <3>3. c \in clWorker'[w].clients /\ ClPassed(w, m, c)'
        BY <3>1, <3>2 DEF ClStillPassed
      <3> QED
        BY <3>1, <3>3 DEF ClGotBroadcast
    <2>2. CASE ClGotRoom(c, m)
      <3>1. ClIs(m, "room")' /\ m \in 1 .. Len(clMsg)
        BY <2>2, ClIsStays DEF ClGotRoom, ClIs
      <3>2. ClMayGet(c, m)'
        BY <2>2, <3>1, ClMayGetStays DEF ClGotRoom
      <3>3. ClSentTo(c, m)'
        BY <2>2, <3>1 DEF ClGotRoom, ClStillSent
      <3> QED
        BY <3>1, <3>2, <3>3 DEF ClGotRoom
    <2> QED
      BY <1>1, <2>1, <2>2 DEF ClGotOK
  <1> QED
    BY <1>1 DEF ClGotOK

\* Workers whose messages stay, while broadcasts only start or go on elsewhere.
ClWorkersStill ==
  /\ clWorker' \in [ClWorkers -> ClWorkerStates]
  /\ \A w \in ClWorkers : /\ clWorker[w].clients \subseteq clWorker'[w].clients
                          /\ clWorker'[w].q = clWorker[w].q /\ clWorker'[w].m = clWorker[w].m
                          /\ clWorker'[w].todo = clWorker[w].todo
ClBoundNewOnly ==
  \A w \in ClWorkers : \A m : ClBound(w, m)' => ClBound(w, m) \/ (m \in Nat /\ m > Len(clMsg))

LEMMA ClBoundKept ==
  ASSUME UNCHANGED clBcast
  PROVE  ClBoundNewOnly
  <1>1. ASSUME NEW w \in ClWorkers, NEW m, ClBound(w, m)' PROVE ClBound(w, m)
    BY <1>1 DEF ClBound
  <1> QED
    BY <1>1, Zenon DEF ClBoundNewOnly

LEMMA ClWorkersKept ==
  ASSUME ClMessagesOK, ClMessagesOK', ClMsgGrows, ClWorkersOK, ClWorkersStill, ClBoundNewOnly
  PROVE  ClWorkersOK' /\ ClStillPassed
  <1>1. Len(clMsg) \in Nat
    BY DEF ClMessagesOK
  <1>2. ASSUME NEW w \in ClWorkers, NEW m PROVE ClInQ(w, m)' = ClInQ(w, m)
    BY DEF ClInQ, ClWorkersStill
  <1>3. ASSUME NEW w \in ClWorkers PROVE ClWorkerOK(w)'
    <2>1. ClWorkerOK(w)
      BY DEF ClWorkersOK
    <2>2. /\ clWorker'[w].todo \subseteq clWorker'[w].clients
          /\ clWorker'[w].m = 0 => clWorker'[w].todo = {}
          /\ clWorker'[w].m # 0 => ClIs(clWorker[w].m, "broadcast")'
      BY <2>1, ClIsStays DEF ClWorkerOK, ClWorkersStill
    <2>3. \A m : ClInQ(w, m)' => ClIs(m, "broadcast")' /\ m # clWorker'[w].m
      BY <1>2, <2>1, ClIsStays DEF ClWorkerOK, ClWorkersStill
    <2>4. \A m : ClBound(w, m)' => ~ClInQ(w, m)' /\ m # clWorker'[w].m
      <3>1. ASSUME NEW m, ClBound(w, m)' PROVE ~ClInQ(w, m)' /\ m # clWorker'[w].m
        <4>1. CASE ClBound(w, m)
          BY <1>2, <2>1, <4>1 DEF ClWorkerOK, ClWorkersStill
        <4>2. CASE m \in Nat /\ m > Len(clMsg)
          <5>1. \A k : ~ClIs(m, k)
            BY <1>1, <4>2 DEF ClIs
          <5>2. m # 0
            BY <1>1, <4>2
          <5> QED
            BY <1>2, <2>1, <5>1, <5>2 DEF ClWorkerOK, ClWorkersStill
        <4> QED
          BY <3>1, <4>1, <4>2 DEF ClBoundNewOnly
      <3> QED
        BY <3>1
    <2>5. \A i, j \in 1 .. Len(clWorker'[w].q) : clWorker'[w].q[i] = clWorker'[w].q[j] => i = j
      BY <2>1 DEF ClWorkerOK, ClWorkersStill
    <2>6. clWorker'[w].m = clWorker[w].m
      BY DEF ClWorkersStill
    <2> QED
      BY <2>2, <2>3, <2>4, <2>5, <2>6 DEF ClWorkerOK, ClIs
  <1>4. ASSUME NEW w \in ClWorkers, NEW c \in ClClients, NEW m \in 1 .. Len(clMsg),
               c \in clWorker[w].clients, ClPassed(w, m, c)
        PROVE  c \in clWorker'[w].clients /\ ClPassed(w, m, c)'
    <2>1. ~ClBound(w, m)'
      BY <1>1, <1>4 DEF ClPassed, ClBoundNewOnly
    <2> QED
      BY <1>2, <1>4, <2>1 DEF ClPassed, ClWorkersStill
  <1> QED
    BY <1>3, <1>4 DEF ClWorkersOK, ClStillPassed, ClWorkersStill

\* A step that touches no message: rooms may be joined, a worker may get a client.
LEMMA ClQuietStep ==
  ASSUME ClChatOK, ClWorkersStill, ClJoinedGrows, UNCHANGED <<clBcast, clSend, clMsg, clGot>>
  PROVE  ClChatOK'
  <1>1. ClMessagesOK /\ ClMessagesOK' /\ ClMsgGrows
    BY DEF ClChatOK, ClMessagesOK, ClMsgGrows
  <1>2. ClBcastOK' /\ ClBoundNewOnly
    BY ClBoundKept DEF ClChatOK, ClBcastOK, ClIs
  <1>3. ClWorkersOK' /\ ClStillPassed
    BY <1>1, <1>2, ClWorkersKept DEF ClChatOK
  <1>4. ClSendsOK' /\ ClStillSent
    <2>1. clSend \subseteq ClSends /\ \A g \in clSend : ClSendOK(g)
      BY DEF ClChatOK, ClSendsOK
    <2>2. \A g \in clSend : ClSendOK(g)'
      BY <1>1, <2>1, ClSendOKStays
    <2> QED
      BY <2>1, <2>2 DEF ClChatOK, ClSendsOK, ClStillSent, ClSentTo
  <1>5. ClGotOK'
    BY <1>1, <1>3, <1>4, ClGotStep DEF ClChatOK, ClGotOK
  <1> QED
    BY <1>1, <1>2, <1>3, <1>4, <1>5 DEF ClChatOK

\* A message is sent: the number of its goroutine is new everywhere.
LEMMA ClMessageStep ==
  ASSUME ClChatOK, NEW x \in ClMessages, clMsg' = Append(clMsg, x), Len(clMsg) < ClMaxMsgs,
         x.kind = "room" => x.room \in ClRooms,
         UNCHANGED <<clWorker, clGot, clJoined>>,
         \/ UNCHANGED <<clBcast, clSend>>
         \/ /\ x.kind = "broadcast" /\ UNCHANGED clSend
            /\ clBcast' = clBcast \cup {[m |-> Len(clMsg) + 1, todo |-> ClWorkers]}
         \/ /\ x.kind = "room" /\ UNCHANGED clBcast
            /\ clSend' = clSend \cup {[m |-> Len(clMsg) + 1, at |-> "find", todo |-> {}]}
  PROVE  ClChatOK'
  <1>1. clMsg \in Seq(ClMessages) /\ Len(clMsg) \in Nat /\ ClMessagesOK
    BY DEF ClChatOK, ClMessagesOK
  <1>2. PICK n \in Nat : n = Len(clMsg) + 1
    BY <1>1
  <1>3. /\ clMsg' \in Seq(ClMessages) /\ Len(clMsg') = n /\ clMsg'[n] = x
        /\ \A m \in 1 .. Len(clMsg) : clMsg'[m] = clMsg[m]
    BY <1>1, <1>2
  <1>4. n \in 1 .. n /\ n # 0 /\ n > Len(clMsg) /\ Len(clMsg) <= n /\ n <= ClMaxMsgs
        /\ n \notin 1 .. Len(clMsg) /\ 1 .. n = (1 .. Len(clMsg)) \cup {n}
    BY <1>1, <1>2, ClAssumption
  <1>5. ClMsgGrows /\ ClJoinedGrows
    BY <1>3, <1>4 DEF ClMsgGrows, ClJoinedGrows
  <1>6. ClMessagesOK'
    BY <1>1, <1>3, <1>4 DEF ClMessagesOK
  <1>7. ClIs(n, x.kind)' /\ \A k : ~ClIs(n, k)
    BY <1>3, <1>4 DEF ClIs
  <1>8. ClBcastOK' /\ ClBoundNewOnly
    <2>1. ClBcastOK
      BY DEF ClChatOK
    <2>2. \A g \in clBcast : ClIs(g.m, "broadcast")' /\ g.m # n
      BY <1>1, <1>5, <1>6, <1>7, <2>1, ClIsStays DEF ClBcastOK
    <2>3. CASE UNCHANGED clBcast
      BY <2>1, <2>2, <2>3, ClBoundKept DEF ClBcastOK
    <2>4. CASE x.kind = "broadcast" /\ clBcast' = clBcast \cup {[m |-> n, todo |-> ClWorkers]}
      <3> DEFINE b == [m |-> n, todo |-> ClWorkers]
      <3>1. b \in ClBcasts /\ b.m = n
        BY DEF ClBcasts
      <3>2. clBcast' = clBcast \cup {b}
        BY <2>4
      <3> HIDE DEF b
      <3>3. ClIs(b.m, "broadcast")'
        BY <1>7, <2>4, <3>1 DEF ClIs
      <3>4. ClBcastOK'
        BY <2>1, <2>2, <3>1, <3>2, <3>3 DEF ClBcastOK
      <3>5. \A w \in ClWorkers : \A m : ClBound(w, m)' => ClBound(w, m) \/ m = n
        BY <3>1, <3>2 DEF ClBound
      <3>6. ClBoundNewOnly
        BY <1>4, <3>5, Zenon DEF ClBoundNewOnly
      <3> QED
        BY <3>4, <3>6
    <2> QED
      BY <1>2, <2>3, <2>4
  <1>9. ClSendsOK' /\ ClStillSent
    <2>1. ClSendsOK
      BY DEF ClChatOK
    <2>2. \A g \in clSend : ClSendOK(g)' /\ g.m # n
      <3>1. ASSUME NEW g \in clSend PROVE ClSendOK(g)' /\ g.m # n
        <4>1. g \in ClSends /\ ClSendOK(g)
          BY <2>1 DEF ClSendsOK
        <4> QED
          BY <1>1, <1>5, <1>6, <1>7, <4>1, ClSendOKStays DEF ClSendOK
      <3> QED
        BY <3>1
    <2>3. CASE UNCHANGED clSend
      BY <2>1, <2>2, <2>3 DEF ClSendsOK, ClStillSent, ClSentTo
    <2>4. CASE x.kind = "room" /\ clSend' = clSend \cup {[m |-> n, at |-> "find", todo |-> {}]}
      <3> DEFINE s == [m |-> n, at |-> "find", todo |-> {}]
      <3>1. s \in ClSends /\ s.m = n /\ s.at = "find" /\ s.todo = {}
        BY DEF ClSends
      <3>2. clSend' = clSend \cup {s}
        BY <2>4
      <3> HIDE DEF s
      <3>3. ClSendOK(s)'
        BY <1>7, <2>4, <3>1 DEF ClSendOK, ClIs
      <3>4. ClSendsOK'
        BY <2>1, <2>2, <3>1, <3>2, <3>3 DEF ClSendsOK
      <3>5. ClStillSent
        BY <1>4, <3>1, <3>2 DEF ClStillSent, ClSentTo
      <3> QED
        BY <3>4, <3>5
    <2> QED
      BY <1>2, <2>3, <2>4
  <1>10. ClWorkersStill
    BY DEF ClChatOK, ClWorkersOK, ClWorkersStill
  <1>11. ClWorkersOK' /\ ClStillPassed
    BY <1>1, <1>5, <1>6, <1>8, <1>10, ClWorkersKept DEF ClChatOK
  <1>12. ClGotOK'
    BY <1>1, <1>5, <1>6, <1>9, <1>11, ClGotStep DEF ClChatOK, ClGotOK
  <1> QED
    BY <1>6, <1>8, <1>9, <1>11, <1>12 DEF ClChatOK

\* A goroutine of SendRoomMSG goes on, or ends.
LEMMA ClSendReplaced ==
  ASSUME ClMessagesOK, ClSendsOK, UNCHANGED <<clMsg, clJoined>>, NEW g \in clSend, NEW T,
         clSend' = (clSend \ {g}) \cup T,
         \A h \in T : h \in ClSends /\ h.m = g.m /\ ClSendOK(h),
         \A h, i \in T : h = i,
         \A h \in T : g.at = "write" => h.at = "write" /\ h.todo \subseteq g.todo
  PROVE  ClSendsOK' /\ ClStillSent
  <1>1. ClMessagesOK' /\ ClMsgGrows /\ ClJoinedGrows
    BY DEF ClMessagesOK, ClMsgGrows, ClJoinedGrows
  <1>2. clSend' \subseteq ClSends
    BY DEF ClSendsOK
  <1>3. \A h \in clSend' : ClSendOK(h)'
    BY <1>1, ClSendOKStays DEF ClSendsOK
  <1>4. \A h, i \in clSend' : h.m = i.m => h = i
    BY DEF ClSendsOK
  <1>5. ClStillSent
    <2>1. ASSUME NEW c \in ClClients, NEW m, ClSentTo(c, m), NEW h \in clSend', h.m = m
          PROVE  h.at = "write" /\ c \notin h.todo
      BY <2>1 DEF ClSentTo
    <2> QED
      BY <2>1 DEF ClStillSent, ClSentTo
  <1> QED
    BY <1>2, <1>3, <1>4, <1>5 DEF ClSendsOK

\* While a goroutine of SendRoomMSG works, everything else about messages stays.
LEMMA ClSendFrame ==
  ASSUME ClChatOK, UNCHANGED <<clWorker, clBcast, clMsg, clJoined>>
  PROVE  /\ ClMessagesOK' /\ ClMsgGrows /\ ClJoinedGrows
         /\ ClBcastOK' /\ ClWorkersOK' /\ ClStillPassed
  <1>1. ClMessagesOK /\ ClMessagesOK' /\ ClMsgGrows /\ ClJoinedGrows
    BY DEF ClChatOK, ClMessagesOK, ClMsgGrows, ClJoinedGrows
  <1>2. ClBcastOK' /\ ClBoundNewOnly
    BY ClBoundKept DEF ClChatOK, ClBcastOK, ClIs
  <1>3. ClWorkersStill
    BY DEF ClChatOK, ClWorkersOK, ClWorkersStill
  <1> QED
    BY <1>1, <1>2, <1>3, ClWorkersKept DEF ClChatOK

\* SendRoomMSG before it writes: whom it will write to is in the room.
LEMMA ClSendLooksStep ==
  ASSUME ClChatOK, ClRoomsOK, NEW g \in clSend,
         ClSendFindsNone(g) \/ ClSendFindsRoom(g) \/ ClCollect(g)
  PROVE  ClChatOK'
  <1>1. ClMessagesOK /\ ClSendsOK /\ g \in ClSends /\ ClSendOK(g)
    BY DEF ClChatOK, ClSendsOK
  <1>2. UNCHANGED <<clWorker, clBcast, clMsg, clJoined, clGot>>
    BY DEF ClSendFindsNone, ClSendFindsRoom, ClCollect, ClSendKeep, clState
  <1>3. g.at # "write" /\ g.todo = {} /\ g.m \in Nat
    BY <1>1 DEF ClSendFindsNone, ClSendFindsRoom, ClCollect, ClSendOK, ClSends
  <1>4. ASSUME NEW T, clSend' = (clSend \ {g}) \cup T,
               \A h \in T : h \in ClSends /\ h.m = g.m /\ ClSendOK(h), \A h, i \in T : h = i
        PROVE  ClChatOK'
    <2>1. ClSendsOK' /\ ClStillSent
      BY <1>1, <1>2, <1>3, <1>4, ClSendReplaced
    <2>2. ClMessagesOK' /\ ClMsgGrows /\ ClJoinedGrows /\ ClBcastOK' /\ ClWorkersOK' /\ ClStillPassed
      BY <1>2, ClSendFrame
    <2>3. ClGotOK'
      BY <1>1, <1>2, <2>1, <2>2, ClGotStep DEF ClChatOK, ClGotOK
    <2> QED
      BY <2>1, <2>2, <2>3 DEF ClChatOK
  <1>5. CASE ClSendFindsNone(g)
    <2>1. PICK T : T = {}
      OBVIOUS
    <2>2. clSend' = (clSend \ {g}) \cup T
      BY <1>5, <2>1 DEF ClSendFindsNone
    <2>3. \A h \in T : FALSE
      BY <2>1
    <2> QED
      BY <1>4, <2>2, <2>3
  <1>6. CASE ClSendFindsRoom(g)
    <2> DEFINE h == [g EXCEPT !.at = "collect"]
    <2>1. h \in ClSends /\ h.m = g.m /\ h.at = "collect" /\ h.todo = g.todo
      BY <1>1 DEF ClSends
    <2>2. clSend' = (clSend \ {g}) \cup {h}
      BY <1>6 DEF ClSendFindsRoom
    <2> HIDE DEF h
    <2>3. ClSendOK(h)
      BY <1>1, <1>3, <2>1 DEF ClSendOK
    <2>4. PICK T : T = {h}
      OBVIOUS
    <2>5. clSend' = (clSend \ {g}) \cup T /\ \A i \in T : i = h
      BY <2>2, <2>4
    <2> QED
      BY <1>4, <2>1, <2>3, <2>5
  <1>7. CASE ClCollect(g)
    <2>1. PICK S : S = IF clMsg[g.m].from \in clMembers[clMsg[g.m].room]
                       THEN ClRecipients(g) ELSE {}
      OBVIOUS
    <2>2. ClGoOn(g, S)
      BY <1>7, <2>1 DEF ClCollect
    <2>3. clMsg[g.m].room \in ClRooms
      BY <1>1 DEF ClSendOK, ClIs, ClMessagesOK
    <2>4. S \subseteq ClClients /\ \A c \in S : ClMayGet(c, g.m)
      BY <2>1, <2>3 DEF ClRecipients, ClRoomsOK, ClMayGet
    <2> DEFINE h == [g EXCEPT !.at = "write", !.todo = S]
    <2>5. h \in ClSends /\ h.m = g.m /\ h.at = "write" /\ h.todo = S
      BY <1>1, <2>4 DEF ClSends
    <2>6. clSend' = (clSend \ {g}) \cup (IF S = {} THEN {} ELSE {h})
      BY <2>2 DEF ClGoOn
    <2> HIDE DEF h
    <2>7. ClSendOK(h)
      BY <1>1, <2>4, <2>5 DEF ClSendOK
    <2>8. PICK T : T = IF S = {} THEN {} ELSE {h}
      OBVIOUS
    <2>9. clSend' = (clSend \ {g}) \cup T /\ \A i \in T : i = h
      BY <2>6, <2>8
    <2> QED
      BY <1>4, <2>5, <2>7, <2>9
  <1> QED
    BY <1>5, <1>6, <1>7

\* What a write adds, for a client that has not got the message.
LEMMA ClWrittenOnce ==
  ASSUME ClGotOK, NEW c \in ClClients, NEW m \in 1 .. ClMaxMsgs, clGot[c][m] # 1, ClWritten(c, m)
  PROVE  /\ clGot' \in [ClClients -> [1 .. ClMaxMsgs -> {0, 1}]]
         /\ \A d \in ClClients, k \in 1 .. ClMaxMsgs :
              clGot'[d][k] = 1 => clGot[d][k] = 1 \/ (d = c /\ k = m)
  <1>1. clGot \in [ClClients -> [1 .. ClMaxMsgs -> {0, 1}]] /\ clGot[c][m] = 0
    BY DEF ClGotOK
  <1>2. CASE UNCHANGED clGot
    BY <1>1, <1>2
  <1>3. CASE clGot' = [clGot EXCEPT ![c][m] = @ + 1]
    <2>1. clGot' = [clGot EXCEPT ![c] = [clGot[c] EXCEPT ![m] = 1]]
      BY <1>1, <1>3
    <2> QED
      BY <1>1, <2>1
  <1> QED
    BY <1>2, <1>3 DEF ClWritten

\* SendRoomMSG writes.
LEMMA ClSendWritesStep ==
  ASSUME ClChatOK, NEW g \in clSend, NEW d \in g.todo,
         ClGoOn(g, g.todo \ {d}), ClWritten(d, g.m), UNCHANGED <<clWorker, clBcast, clMsg, clJoined>>
  PROVE  ClChatOK'
  <1>1. ClMessagesOK /\ ClSendsOK /\ g \in ClSends /\ ClSendOK(g) /\ d \in ClClients
    BY DEF ClChatOK, ClSendsOK, ClSends
  <1>2. ClIs(g.m, "room") /\ g.at = "write" /\ ClMayGet(d, g.m)
    BY <1>1 DEF ClSendOK
  <1>3. g.m \in 1 .. ClMaxMsgs
    BY <1>1, <1>2, ClAssumption DEF ClIs, ClMessagesOK
  <1>4. clGot[d][g.m] # 1
    BY <1>1, <1>2, <1>3 DEF ClChatOK, ClGotOK, ClGotBroadcast, ClGotRoom, ClSentTo, ClIs
  <1>5. /\ clGot' \in [ClClients -> [1 .. ClMaxMsgs -> {0, 1}]]
        /\ \A c \in ClClients, m \in 1 .. ClMaxMsgs :
             clGot'[c][m] = 1 => clGot[c][m] = 1 \/ (c = d /\ m = g.m)
    BY <1>1, <1>3, <1>4, ClWrittenOnce DEF ClChatOK
  <1> DEFINE S == g.todo \ {d}
             h == [g EXCEPT !.at = "write", !.todo = S]
             T == IF S = {} THEN {} ELSE {h}
  <1>6. h \in ClSends /\ h.m = g.m /\ h.at = "write" /\ h.todo = S
    BY <1>1 DEF ClSends
  <1>7. clSend' = (clSend \ {g}) \cup T
    BY DEF ClGoOn
  <1>8. S \subseteq g.todo /\ d \notin S
    OBVIOUS
  <1>9. \A i \in T : i = h
    OBVIOUS
  <1> HIDE DEF S, h, T
  <1>10. ClSendOK(h)
    BY <1>1, <1>6, <1>8 DEF ClSendOK
  <1>11. ClSendsOK' /\ ClStillSent
    BY <1>1, <1>6, <1>7, <1>8, <1>9, <1>10, ClSendReplaced
  <1>12. ClMessagesOK' /\ ClMsgGrows /\ ClJoinedGrows /\ ClBcastOK' /\ ClWorkersOK' /\ ClStillPassed
    BY ClSendFrame
  <1>13. ClSentTo(d, g.m)'
    <2>1. \A i \in clSend' : i.m = g.m => i = h
      BY <1>1, <1>7, <1>9 DEF ClSendsOK
    <2> QED
      BY <1>6, <1>8, <2>1 DEF ClSentTo
  <1>14. ClGotRoom(d, g.m)'
    <2>1. ClIs(g.m, "room")' /\ ClMayGet(d, g.m)'
      BY <1>2 DEF ClIs, ClMayGet
    <2> QED
      BY <1>13, <2>1 DEF ClGotRoom
  <1>15. ClGotOK'
    <2>1. \A c \in ClClients, m \in 1 .. ClMaxMsgs :
            clGot'[c][m] = 1 => clGot[c][m] = 1 \/ ClGotBroadcast(c, m)' \/ ClGotRoom(c, m)'
      BY <1>5, <1>14
    <2> QED
      BY <1>1, <1>5, <1>11, <1>12, <2>1, ClGotStep DEF ClChatOK
  <1> QED
    BY <1>11, <1>12, <1>15 DEF ClChatOK

\* While broadcasts move, the messages, the rooms and SendRoomMSG stay.
LEMMA ClBroadcastFrame ==
  ASSUME ClChatOK, UNCHANGED <<clSend, clMsg, clJoined>>
  PROVE  ClMessagesOK' /\ ClMsgGrows /\ ClJoinedGrows /\ ClSendsOK' /\ ClStillSent
  <1>1. ClMessagesOK /\ ClMessagesOK' /\ ClMsgGrows /\ ClJoinedGrows
    BY DEF ClChatOK, ClMessagesOK, ClMsgGrows, ClJoinedGrows
  <1>2. \A g \in clSend : ClSendOK(g)'
    BY <1>1, ClSendOKStays DEF ClChatOK, ClSendsOK
  <1> QED
    BY <1>1, <1>2 DEF ClChatOK, ClSendsOK, ClStillSent, ClSentTo

\* A worker that is not concerned.
LEMMA ClOtherWorker ==
  ASSUME NEW v \in ClWorkers, ClWorkerOK(v), clWorker'[v] = clWorker[v], UNCHANGED clMsg,
         \A m : ClBound(v, m)' => ClBound(v, m)
  PROVE  ClWorkerOK(v)' /\ \A m, c : ClPassed(v, m, c) => ClPassed(v, m, c)'
  <1>1. \A m : ClInQ(v, m)' = ClInQ(v, m)
    BY DEF ClInQ
  <1>2. \A m, k : ClIs(m, k)' = ClIs(m, k)
    BY DEF ClIs
  <1>3. ClWorkerOK(v)'
    <2>1. \A m : ClInQ(v, m)' => ClIs(m, "broadcast")' /\ m # clWorker'[v].m
      BY <1>1, <1>2 DEF ClWorkerOK
    <2>2. \A m : ClBound(v, m)' => ~ClInQ(v, m)' /\ m # clWorker'[v].m
      BY <1>1 DEF ClWorkerOK
    <2>3. clWorker'[v].m # 0 => ClIs(clWorker[v].m, "broadcast")'
      BY <1>2 DEF ClWorkerOK
    <2> QED
      BY <2>1, <2>2, <2>3 DEF ClWorkerOK, ClIs
  <1>4. \A m, c : ClPassed(v, m, c) => ClPassed(v, m, c)'
    BY <1>1 DEF ClPassed
  <1> QED
    BY <1>3, <1>4

\* One worker changes.
LEMMA ClOneWorker ==
  ASSUME ClChatOK, UNCHANGED <<clSend, clMsg, clJoined>>, NEW w \in ClWorkers, NEW s \in ClWorkerStates,
         clWorker' = [clWorker EXCEPT ![w] = s], s.clients = clWorker[w].clients,
         ClBcastOK', \A v \in ClWorkers : \A m : ClBound(v, m)' => ClBound(v, m),
         ClWorkerOK(w)',
         \A c \in ClClients : \A m \in 1 .. Len(clMsg) : ClPassed(w, m, c) => ClPassed(w, m, c)',
         clGot' \in [ClClients -> [1 .. ClMaxMsgs -> {0, 1}]],
         \A c \in ClClients, m \in 1 .. ClMaxMsgs :
           clGot'[c][m] = 1 => clGot[c][m] = 1 \/ ClGotBroadcast(c, m)'
  PROVE  ClChatOK'
  <1>1. ClMessagesOK' /\ ClMsgGrows /\ ClJoinedGrows /\ ClSendsOK' /\ ClStillSent
    BY ClBroadcastFrame
  <1>2. /\ clWorker' \in [ClWorkers -> ClWorkerStates] /\ clWorker'[w] = s
        /\ \A v \in ClWorkers : v # w => clWorker'[v] = clWorker[v]
    BY DEF ClChatOK, ClWorkersOK
  <1>3. ASSUME NEW v \in ClWorkers, v # w
        PROVE  ClWorkerOK(v)' /\ \A m, c : ClPassed(v, m, c) => ClPassed(v, m, c)'
    <2>1. ClWorkerOK(v) /\ clWorker'[v] = clWorker[v]
      BY <1>2, <1>3 DEF ClChatOK, ClWorkersOK
    <2> QED
      BY <2>1, ClOtherWorker
  <1>4. ClWorkersOK'
    BY <1>2, <1>3 DEF ClWorkersOK
  <1>5. ClStillPassed
    <2>1. ASSUME NEW v \in ClWorkers, NEW c \in ClClients, NEW m \in 1 .. Len(clMsg),
                 c \in clWorker[v].clients, ClPassed(v, m, c)
          PROVE  c \in clWorker'[v].clients /\ ClPassed(v, m, c)'
      <3>1. CASE v = w
        BY <1>2, <2>1, <3>1
      <3>2. CASE v # w
        BY <1>2, <1>3, <2>1, <3>2
      <3> QED
        BY <3>1, <3>2
    <2> QED
      BY <2>1 DEF ClStillPassed
  <1>6. ClGotOK'
    BY <1>1, <1>5, ClGotStep DEF ClChatOK
  <1> QED
    BY <1>1, <1>4, <1>6 DEF ClChatOK

\* A worker starts on the next message of msgCh, which it has not passed.
LEMMA ClHandleBroadcastStep ==
  ASSUME ClChatOK, NEW w \in ClWorkers, ClHandleBroadcast(w)
  PROVE  ClChatOK'
  <1>1. UNCHANGED <<clBcast, clSend, clMsg, clGot, clJoined>>
    BY DEF ClHandleBroadcast, clState
  <1>2. clWorker \in [ClWorkers -> ClWorkerStates] /\ clWorker[w] \in ClWorkerStates /\ ClWorkerOK(w)
    BY DEF ClChatOK, ClWorkersOK
  <1>3. PICK old \in ClWorkerStates : old = clWorker[w]
    BY <1>2
  <1>4. old.q \in Seq(Nat) /\ old.q # <<>> /\ old.todo = {} /\ old.clients \subseteq ClClients
    BY <1>2, <1>3 DEF ClHandleBroadcast, ClWorkerStates
  <1>5. PICK h \in Nat : h = Head(old.q)
    BY <1>4
  <1>6. PICK t \in Seq(Nat) : t = Tail(old.q)
    <2>1. Tail(old.q) \in Seq(Nat)
      BY <1>4
    <2> QED
      BY <2>1
  <1>7. /\ Len(t) = Len(old.q) - 1 /\ Len(old.q) \in Nat \ {0} /\ h = old.q[1]
        /\ \A i \in 1 .. Len(t) : t[i] = old.q[i + 1]
    BY <1>4, <1>5, <1>6
  <1>8. 1 \in 1 .. Len(old.q) /\ \A i \in 1 .. Len(t) : i + 1 \in 1 .. Len(old.q) /\ i + 1 # 1
    BY <1>7
  <1>9. PICK n \in Nat : n = IF old.clients = {} THEN 0 ELSE h
    OBVIOUS
  <1> DEFINE s == [old EXCEPT !.q = t, !.todo = old.clients, !.m = n]
  <1>10. s \in ClWorkerStates /\ s.clients = old.clients /\ s.q = t /\ s.todo = old.clients /\ s.m = n
    BY <1>4 DEF ClWorkerStates
  <1>11. clWorker' = [clWorker EXCEPT ![w] = s]
    BY <1>3, <1>5, <1>6, <1>9 DEF ClHandleBroadcast
  <1> HIDE DEF s
  <1>12. clWorker'[w] = s
    BY <1>2, <1>11
  <1>13. ClIs(h, "broadcast") /\ h # old.m /\ h # 0
    BY <1>2, <1>3, <1>7, <1>8 DEF ClWorkerOK, ClInQ, ClIs
  <1>14. ASSUME NEW m, ClInQ(w, m)' PROVE ClInQ(w, m) /\ m # h
    <2>1. PICK i \in 1 .. Len(t) : t[i] = m
      BY <1>10, <1>12, <1>14 DEF ClInQ
    <2>2. old.q[i + 1] = m /\ i + 1 \in 1 .. Len(old.q) /\ i + 1 # 1
      BY <1>7, <1>8, <2>1
    <2>3. m # old.q[1]
      BY <1>2, <1>3, <1>8, <2>2 DEF ClWorkerOK
    <2> QED
      BY <1>3, <1>7, <2>2, <2>3 DEF ClInQ
  <1>15. \A v \in ClWorkers : \A m : ClBound(v, m)' => ClBound(v, m)
    BY <1>1 DEF ClBound
  <1>16. \A m : ClBound(w, m) => m # h
    BY <1>2, <1>3, <1>7, <1>8 DEF ClWorkerOK, ClInQ
  <1>17. ClWorkerOK(w)'
    <2>1. clWorker'[w].todo \subseteq clWorker'[w].clients
      BY <1>10, <1>12
    <2>2. clWorker'[w].m = 0 => clWorker'[w].todo = {}
      BY <1>9, <1>10, <1>12, <1>13
    <2>3. clWorker'[w].m # 0 => ClIs(clWorker[w].m, "broadcast")'
      BY <1>1, <1>9, <1>10, <1>12, <1>13 DEF ClIs
    <2>4. \A m : ClInQ(w, m)' => ClIs(m, "broadcast")' /\ m # clWorker'[w].m
      <3>1. ASSUME NEW m, ClInQ(w, m)' PROVE ClIs(m, "broadcast")' /\ m # clWorker'[w].m
        <4>1. ClInQ(w, m) /\ m # h
          BY <1>14, <3>1
        <4>2. ClIs(m, "broadcast") /\ m # 0
          BY <1>2, <4>1 DEF ClWorkerOK, ClIs
        <4> QED
          BY <1>1, <1>9, <1>10, <1>12, <4>1, <4>2 DEF ClIs
      <3> QED
        BY <3>1
    <2>5. \A m : ClBound(w, m)' => ~ClInQ(w, m)' /\ m # clWorker'[w].m
      <3>1. ASSUME NEW m, ClBound(w, m)' PROVE ~ClInQ(w, m)' /\ m # clWorker'[w].m
        <4>1. ClBound(w, m)
          BY <1>15, <3>1
        <4>2. m # h /\ ~ClInQ(w, m)
          BY <1>2, <1>16, <4>1 DEF ClWorkerOK
        <4>3. m # 0
          BY <4>1 DEF ClChatOK, ClBcastOK, ClBound, ClIs
        <4> QED
          BY <1>9, <1>10, <1>12, <1>14, <4>2, <4>3
      <3> QED
        BY <3>1
    <2>6. \A i, j \in 1 .. Len(clWorker'[w].q) : clWorker'[w].q[i] = clWorker'[w].q[j] => i = j
      <3>1. ASSUME NEW i \in 1 .. Len(t), NEW j \in 1 .. Len(t), t[i] = t[j] PROVE i + 1 = j + 1
        <4>1. old.q[i + 1] = old.q[j + 1] /\ i + 1 \in 1 .. Len(old.q) /\ j + 1 \in 1 .. Len(old.q)
          BY <1>7, <1>8, <3>1
        <4>2. \A k, l \in 1 .. Len(old.q) : old.q[k] = old.q[l] => k = l
          BY <1>2, <1>3 DEF ClWorkerOK
        <4> QED
          BY <4>1, <4>2
      <3>2. \A i, j \in 1 .. Len(t) : i + 1 = j + 1 => i = j
        OBVIOUS
      <3> QED
        BY <1>10, <1>12, <3>1, <3>2
    <2> QED
      BY <2>1, <2>2, <2>3, <2>4, <2>5, <2>6 DEF ClWorkerOK
  <1>18. ASSUME NEW c \in ClClients, NEW m \in 1 .. Len(clMsg), ClPassed(w, m, c) PROVE ClPassed(w, m, c)'
    <2>1. ~ClBound(w, m)' /\ ~ClInQ(w, m)'
      BY <1>14, <1>15, <1>18 DEF ClPassed
    <2>2. m # h
      BY <1>3, <1>7, <1>8, <1>18 DEF ClPassed, ClInQ
    <2>3. m # 0
      OBVIOUS
    <2> QED
      BY <1>9, <1>10, <1>12, <2>1, <2>2, <2>3 DEF ClPassed
  <1>19. ClBcastOK'
    BY <1>1 DEF ClChatOK, ClBcastOK, ClIs
  <1>20. /\ clGot' \in [ClClients -> [1 .. ClMaxMsgs -> {0, 1}]]
         /\ \A c \in ClClients, m \in 1 .. ClMaxMsgs :
              clGot'[c][m] = 1 => clGot[c][m] = 1 \/ ClGotBroadcast(c, m)'
    BY <1>1 DEF ClChatOK, ClGotOK
  <1> QED
    BY <1>1, <1>3, <1>10, <1>11, <1>15, <1>17, <1>18, <1>19, <1>20, ClOneWorker

\* A worker writes to a client that only this worker has.
LEMMA ClWorkerWritesStep ==
  ASSUME ClChatOK, ClRegisterOK, NEW w \in ClWorkers, NEW d \in clWorker[w].todo,
         clWorker' = [clWorker EXCEPT ![w].todo = @ \ {d},
                                      ![w].m = IF clWorker[w].todo = {d} THEN 0 ELSE @],
         ClWritten(d, clWorker[w].m), UNCHANGED <<clBcast, clSend, clMsg, clJoined>>
  PROVE  ClChatOK'
  <1>1. clWorker \in [ClWorkers -> ClWorkerStates] /\ clWorker[w] \in ClWorkerStates /\ ClWorkerOK(w)
    BY DEF ClChatOK, ClWorkersOK
  <1>2. PICK old \in ClWorkerStates : old = clWorker[w]
    BY <1>1
  <1>3. d \in old.todo /\ d \in old.clients /\ d \in ClClients /\ old.m \in Nat \ {0}
    BY <1>1, <1>2 DEF ClWorkerOK, ClWorkerStates
  <1>4. ClIs(old.m, "broadcast") /\ old.m \in 1 .. ClMaxMsgs
    <2>1. ClIs(old.m, "broadcast") /\ Len(clMsg) <= ClMaxMsgs /\ Len(clMsg) \in Nat
      BY <1>1, <1>2, <1>3 DEF ClWorkerOK, ClChatOK, ClMessagesOK
    <2> QED
      BY <2>1, ClAssumption DEF ClIs
  <1>5. PICK S : S = old.todo \ {d}
    OBVIOUS
  <1>6. PICK n \in Nat : n = IF old.todo = {d} THEN 0 ELSE old.m
    BY <1>3
  <1> DEFINE s == [old EXCEPT !.todo = S, !.m = n]
  <1>7. s \in ClWorkerStates /\ s.clients = old.clients /\ s.q = old.q /\ s.todo = S /\ s.m = n
    BY <1>5, <1>6 DEF ClWorkerStates
  <1>8. clWorker' = [clWorker EXCEPT ![w] = s]
    BY <1>1, <1>2, <1>5, <1>6
  <1> HIDE DEF s
  <1>9. clWorker'[w] = s
    BY <1>1, <1>8
  <1>10. \A m : ClInQ(w, m)' = ClInQ(w, m)
    BY <1>2, <1>7, <1>9 DEF ClInQ
  <1>11. \A v \in ClWorkers : \A m : ClBound(v, m)' => ClBound(v, m)
    BY DEF ClBound
  <1>12. S \subseteq old.todo /\ (n = 0 => S = {}) /\ (n # 0 => n = old.m) /\ d \notin S
    BY <1>3, <1>5, <1>6
  <1>13. ClWorkerOK(w)'
    <2>1. clWorker'[w].todo \subseteq clWorker'[w].clients
      BY <1>1, <1>2, <1>7, <1>9, <1>12 DEF ClWorkerOK
    <2>2. clWorker'[w].m = 0 => clWorker'[w].todo = {}
      BY <1>7, <1>9, <1>12
    <2>3. clWorker'[w].m # 0 => ClIs(clWorker[w].m, "broadcast")'
      BY <1>4, <1>7, <1>9, <1>12 DEF ClIs
    <2>4. \A m : ClInQ(w, m)' => ClIs(m, "broadcast")' /\ m # clWorker'[w].m
      <3>1. ASSUME NEW m, ClInQ(w, m)' PROVE ClIs(m, "broadcast")' /\ m # clWorker'[w].m
        <4>1. ClInQ(w, m) /\ ClIs(m, "broadcast") /\ m # old.m
          BY <1>1, <1>2, <1>10, <3>1 DEF ClWorkerOK
        <4>2. m # 0
          BY <4>1 DEF ClIs
        <4> QED
          BY <1>7, <1>9, <1>12, <4>1, <4>2 DEF ClIs
      <3> QED
        BY <3>1
    <2>5. \A m : ClBound(w, m)' => ~ClInQ(w, m)' /\ m # clWorker'[w].m
      <3>1. ASSUME NEW m, ClBound(w, m)' PROVE ~ClInQ(w, m)' /\ m # clWorker'[w].m
        <4>1. ClBound(w, m)
          BY <1>11, <3>1
        <4>2. m # old.m /\ ~ClInQ(w, m)
          BY <1>1, <1>2, <4>1 DEF ClWorkerOK
        <4>3. m # 0
          BY <4>1 DEF ClChatOK, ClBcastOK, ClBound, ClIs
        <4> QED
          BY <1>7, <1>9, <1>10, <1>12, <4>2, <4>3
      <3> QED
        BY <3>1
    <2>6. \A i, j \in 1 .. Len(clWorker'[w].q) : clWorker'[w].q[i] = clWorker'[w].q[j] => i = j
      BY <1>1, <1>2, <1>7, <1>9 DEF ClWorkerOK
    <2> QED
      BY <2>1, <2>2, <2>3, <2>4, <2>5, <2>6 DEF ClWorkerOK
  <1>14. ASSUME NEW c \in ClClients, NEW m \in 1 .. Len(clMsg), ClPassed(w, m, c) PROVE ClPassed(w, m, c)'
    <2>1. m # 0
      OBVIOUS
    <2> QED
      BY <1>2, <1>7, <1>9, <1>10, <1>11, <1>12, <1>14, <2>1 DEF ClPassed
  <1>15. clGot[d][old.m] # 1
    <2>1. ASSUME ClGotBroadcast(d, old.m) PROVE FALSE
      <3>1. PICK v \in ClWorkers : d \in clWorker[v].clients /\ ClPassed(v, old.m, d)
        BY <2>1 DEF ClGotBroadcast
      <3>2. v = w
        BY <1>2, <1>3, <3>1 DEF ClRegisterOK, ClOneToken
      <3> QED
        BY <1>2, <1>3, <3>1, <3>2 DEF ClPassed
    <2>2. ~ClGotRoom(d, old.m)
      BY <1>4 DEF ClGotRoom, ClIs
    <2> QED
      BY <1>3, <1>4, <2>1, <2>2 DEF ClChatOK, ClGotOK
  <1>16. /\ clGot' \in [ClClients -> [1 .. ClMaxMsgs -> {0, 1}]]
         /\ \A c \in ClClients, m \in 1 .. ClMaxMsgs :
              clGot'[c][m] = 1 => clGot[c][m] = 1 \/ (c = d /\ m = old.m)
    BY <1>2, <1>3, <1>4, <1>15, ClWrittenOnce DEF ClChatOK
  <1>17. ClGotBroadcast(d, old.m)'
    <2>1. ClIs(old.m, "broadcast")'
      BY <1>4 DEF ClIs
    <2>2. d \in clWorker'[w].clients
      BY <1>3, <1>7, <1>9
    <2>3. ~ClInQ(w, old.m) /\ ~ClBound(w, old.m)
      BY <1>1, <1>2 DEF ClWorkerOK
    <2>4. ClPassed(w, old.m, d)'
      BY <1>7, <1>9, <1>10, <1>11, <1>12, <2>3 DEF ClPassed
    <2> QED
      BY <2>1, <2>2, <2>4 DEF ClGotBroadcast
  <1>18. \A c \in ClClients, m \in 1 .. ClMaxMsgs :
           clGot'[c][m] = 1 => clGot[c][m] = 1 \/ ClGotBroadcast(c, m)'
    BY <1>16, <1>17
  <1>19. ClBcastOK'
    BY DEF ClChatOK, ClBcastOK, ClIs
  <1> QED
    BY <1>2, <1>7, <1>8, <1>11, <1>13, <1>14, <1>16, <1>18, <1>19, ClOneWorker

\* BroadcastMSG hands its message to one worker.
LEMMA ClBroadcastMSGStep ==
  ASSUME ClChatOK, NEW g \in clBcast, ClBroadcastMSG(g)
  PROVE  ClChatOK'
  <1>1. UNCHANGED <<clSend, clMsg, clGot, clJoined>>
    BY DEF ClBroadcastMSG, clState
  <1>2. ClBcastOK /\ g \in ClBcasts /\ g.m \in Nat /\ g.todo \subseteq ClWorkers /\ ClIs(g.m, "broadcast")
    BY DEF ClChatOK, ClBcastOK, ClBcasts
  <1>3. PICK w \in g.todo :
          /\ clWorker' = [clWorker EXCEPT ![w].q = Append(@, g.m)]
          /\ clBcast' = (clBcast \ {g}) \cup
                        (IF g.todo = {w} THEN {} ELSE {[g EXCEPT !.todo = @ \ {w}]})
    BY DEF ClBroadcastMSG
  <1>4. /\ clWorker \in [ClWorkers -> ClWorkerStates] /\ w \in ClWorkers
        /\ clWorker[w] \in ClWorkerStates /\ ClWorkerOK(w)
    BY <1>2 DEF ClChatOK, ClWorkersOK
  <1> DEFINE h == [g EXCEPT !.todo = g.todo \ {w}]
  <1>5. h \in ClBcasts /\ h.m = g.m /\ h.todo = g.todo \ {w}
    BY <1>2 DEF ClBcasts
  <1>6. \A i \in clBcast' : (i \in clBcast /\ i # g) \/ i = h
    BY <1>3
  <1> HIDE DEF h
  <1>7. ClBcastOK'
    <2>1. \A i \in clBcast' : i \in ClBcasts /\ ClIs(i.m, "broadcast")'
      BY <1>1, <1>2, <1>5, <1>6 DEF ClBcastOK, ClIs
    <2>2. \A i, j \in clBcast' : i.m = j.m => i = j
      BY <1>2, <1>5, <1>6 DEF ClBcastOK
    <2> QED
      BY <2>1, <2>2 DEF ClBcastOK
  <1>8. \A v \in ClWorkers : \A m : ClBound(v, m)' => ClBound(v, m)
    BY <1>5, <1>6 DEF ClBound
  <1>9. ~ClBound(w, g.m)' /\ ClBound(w, g.m)
    BY <1>2, <1>3, <1>5, <1>6 DEF ClBound, ClBcastOK
  <1>10. PICK old \in ClWorkerStates : old = clWorker[w]
    BY <1>4
  <1>11. old.q \in Seq(Nat)
    BY DEF ClWorkerStates
  <1>12. PICK t \in Seq(Nat) : t = Append(old.q, g.m)
    <2>1. Append(old.q, g.m) \in Seq(Nat)
      BY <1>2, <1>11
    <2> QED
      BY <2>1
  <1>13. /\ Len(t) = Len(old.q) + 1 /\ Len(old.q) \in Nat /\ t[Len(t)] = g.m
         /\ \A i \in 1 .. Len(t) : (i \in 1 .. Len(old.q) /\ t[i] = old.q[i]) \/ i = Len(t)
    BY <1>2, <1>11, <1>12
  <1> DEFINE s == [old EXCEPT !.q = t]
  <1>14. s \in ClWorkerStates /\ s.clients = old.clients /\ s.q = t /\ s.todo = old.todo /\ s.m = old.m
    BY DEF ClWorkerStates
  <1>15. clWorker' = [clWorker EXCEPT ![w] = s]
    BY <1>3, <1>4, <1>10, <1>12
  <1> HIDE DEF s
  <1>16. clWorker'[w] = s
    BY <1>4, <1>15
  <1>17. \A m : ClInQ(w, m)' => ClInQ(w, m) \/ m = g.m
    BY <1>10, <1>13, <1>14, <1>16 DEF ClInQ
  <1>18. ~ClInQ(w, g.m) /\ g.m # old.m
    BY <1>4, <1>9, <1>10 DEF ClWorkerOK
  <1>19. ClWorkerOK(w)'
    <2>1. clWorker'[w].todo \subseteq clWorker'[w].clients
      BY <1>4, <1>10, <1>14, <1>16 DEF ClWorkerOK
    <2>2. clWorker'[w].m = 0 => clWorker'[w].todo = {}
      BY <1>4, <1>10, <1>14, <1>16 DEF ClWorkerOK
    <2>3. clWorker'[w].m # 0 => ClIs(clWorker[w].m, "broadcast")'
      BY <1>1, <1>4, <1>10, <1>14, <1>16 DEF ClWorkerOK, ClIs
    <2>4. \A m : ClInQ(w, m)' => ClIs(m, "broadcast")' /\ m # clWorker'[w].m
      <3>1. ASSUME NEW m, ClInQ(w, m)' PROVE ClIs(m, "broadcast") /\ m # old.m
        BY <1>2, <1>4, <1>10, <1>17, <1>18, <3>1 DEF ClWorkerOK
      <3> QED
        BY <1>1, <1>14, <1>16, <3>1 DEF ClIs
    <2>5. \A m : ClBound(w, m)' => ~ClInQ(w, m)' /\ m # clWorker'[w].m
      <3>1. ASSUME NEW m, ClBound(w, m)' PROVE ~ClInQ(w, m)' /\ m # clWorker'[w].m
        <4>1. ClBound(w, m) /\ m # g.m
          BY <1>4, <1>8, <1>9, <3>1
        <4>2. m # old.m /\ ~ClInQ(w, m)
          BY <1>4, <1>10, <4>1 DEF ClWorkerOK
        <4> QED
          BY <1>14, <1>16, <1>17, <4>1, <4>2
      <3> QED
        BY <3>1
    <2>6. \A i, j \in 1 .. Len(clWorker'[w].q) : clWorker'[w].q[i] = clWorker'[w].q[j] => i = j
      <3>1. \A i \in 1 .. Len(old.q) : old.q[i] # g.m
        BY <1>10, <1>18 DEF ClInQ
      <3>2. \A i, j \in 1 .. Len(old.q) : old.q[i] = old.q[j] => i = j
        BY <1>4, <1>10 DEF ClWorkerOK
      <3>3. \A i, j \in 1 .. Len(t) : t[i] = t[j] => i = j
        BY <1>13, <3>1, <3>2
      <3> QED
        BY <1>14, <1>16, <3>3
    <2> QED
      BY <2>1, <2>2, <2>3, <2>4, <2>5, <2>6 DEF ClWorkerOK
  <1>20. ASSUME NEW c \in ClClients, NEW m \in 1 .. Len(clMsg), ClPassed(w, m, c) PROVE ClPassed(w, m, c)'
    <2>1. m # g.m
      BY <1>9, <1>20 DEF ClPassed
    <2> QED
      BY <1>4, <1>8, <1>10, <1>14, <1>16, <1>17, <1>20, <2>1 DEF ClPassed
  <1>21. /\ clGot' \in [ClClients -> [1 .. ClMaxMsgs -> {0, 1}]]
         /\ \A c \in ClClients, m \in 1 .. ClMaxMsgs :
              clGot'[c][m] = 1 => clGot[c][m] = 1 \/ ClGotBroadcast(c, m)'
    BY <1>1 DEF ClChatOK, ClGotOK
  <1> QED
    BY <1>1, <1>4, <1>7, <1>8, <1>10, <1>14, <1>15, <1>19, <1>20, <1>21, ClOneWorker

LEMMA ClChatStep ==
  ASSUME ClChatOK, ClTypeOK, ClRoomsOK, ClRegisterOK, ClNext
  PROVE  ClChatOK'
  <1>1. ClJoinedGrows
    BY ClRoomsStep DEF ClJoinedGrows
  <1>2. ASSUME UNCHANGED <<clWorker, clBcast, clSend, clMsg, clGot>> PROVE ClChatOK'
    <2>1. ClWorkersStill
      BY <1>2 DEF ClChatOK, ClWorkersOK, ClWorkersStill
    <2> QED
      BY <1>1, <1>2, <2>1, ClQuietStep
  <1>3. CASE ClPanic
    BY <1>2, <1>3 DEF ClPanic, clOut
  <1>4. CASE ClAccept \/ ClRegisterLoopExits \/ ClCancel \/ ClMainExits
    BY <1>2, <1>4 DEF ClAccept, ClRegisterLoopExits, ClCancel, ClMainExits, clOut
  <1>5. ASSUME NEW c \in ClClients,
               \/ ClHandleWS(c) \/ ClConnClosed(c) \/ ClReadClosed(c) \/ ClPingTimeout(c)
               \/ ClReadCancelled(c) \/ ClPongWritten(c)
        PROVE  ClChatOK'
    BY <1>2, <1>3, <1>5 DEF ClHandleWS, ClConnClosed, ClReadClosed, ClPingTimeout, ClReadCancelled,
                            ClPongWritten, clOut
  <1>6. ASSUME NEW c \in ClClients, NEW k \in {"command", "broadcast", "room"},
               NEW r \in ClRooms \cup {ClNoRoom}
        PROVE  \E x \in ClMessages :
                 x = [kind |-> k, from |-> c, room |-> r] /\ x.kind = k /\ x.room = r
    <2>1. [kind |-> k, from |-> c, room |-> r] \in ClMessages
      BY DEF ClMessages
    <2> QED
      BY <2>1
  <1>7. ASSUME NEW c \in ClClients, ClPing(c) \/ ClJoinOrLeave(c) PROVE ClChatOK'
    <2>1. /\ clMsg' = Append(clMsg, [kind |-> "command", from |-> c, room |-> ClNoRoom])
          /\ Len(clMsg) < ClMaxMsgs /\ UNCHANGED <<clWorker, clGot, clJoined, clBcast, clSend>>
      BY <1>7 DEF ClPing, ClJoinOrLeave, ClMessage, clState
    <2>2. PICK x \in ClMessages :
            x = [kind |-> "command", from |-> c, room |-> ClNoRoom] /\ x.kind = "command"
      BY <1>6
    <2> QED
      BY <2>1, <2>2, ClMessageStep
  <1>8. ASSUME NEW c \in ClClients, ClBroadcast(c) PROVE ClChatOK'
    <2>1. /\ clMsg' = Append(clMsg, [kind |-> "broadcast", from |-> c, room |-> ClNoRoom])
          /\ clBcast' = clBcast \cup {[m |-> Len(clMsg) + 1, todo |-> ClWorkers]}
          /\ Len(clMsg) < ClMaxMsgs /\ UNCHANGED <<clWorker, clGot, clJoined, clSend>>
      BY <1>8 DEF ClBroadcast, ClMessage, clState
    <2>2. PICK x \in ClMessages :
            x = [kind |-> "broadcast", from |-> c, room |-> ClNoRoom] /\ x.kind = "broadcast"
      BY <1>6
    <2> QED
      BY <2>1, <2>2, ClMessageStep
  <1>9. ASSUME NEW c \in ClClients, ClRoomMessage(c) PROVE ClChatOK'
    <2>1. PICK r \in ClRooms :
            /\ clMsg' = Append(clMsg, [kind |-> "room", from |-> c, room |-> r])
            /\ clSend' = clSend \cup {[m |-> Len(clMsg) + 1, at |-> "find", todo |-> {}]}
      BY <1>9 DEF ClRoomMessage
    <2>2. Len(clMsg) < ClMaxMsgs /\ UNCHANGED <<clWorker, clGot, clJoined, clBcast>>
      BY <1>9 DEF ClRoomMessage, ClMessage, clState
    <2>3. PICK x \in ClMessages :
            x = [kind |-> "room", from |-> c, room |-> r] /\ x.kind = "room" /\ x.room = r
      BY <1>6
    <2> QED
      BY <2>1, <2>2, <2>3, ClMessageStep
  <1>10. ASSUME NEW x \in clPending, ClSubmit(x) PROVE ClChatOK'
    BY <1>2, <1>3, <1>10 DEF ClSubmit, clOut
  <1>11. ASSUME NEW p \in ClProcs, ClOperate(p) PROVE ClChatOK'
    <2>1. CASE ClLeaveRoomPanics(p)
      BY <1>3, <2>1 DEF ClLeaveRoomPanics
    <2>2. CASE ClRegisterBroadcast(p) \/ ClJoinRoom(p) \/ ClLeaveRoom(p) \/ ClUnregister(p)
      <3>1. ClKeep
        BY <2>2 DEF ClRegisterBroadcast, ClJoinRoom, ClLeaveRoom, ClUnregister
      <3> QED
        BY <1>2, <3>1 DEF ClKeep, clOut
    <2> QED
      BY <1>11, <2>1, <2>2 DEF ClOperate
  <1>12. ASSUME NEW w \in ClWorkers, ClAcceptClient(w) PROVE ClChatOK'
    <2>1. clWorker \in [ClWorkers -> ClWorkerStates]
      BY DEF ClChatOK, ClWorkersOK
    <2>2. PICK d \in clQueue : clWorker' = [clWorker EXCEPT ![w].clients = @ \cup {d}]
      BY <1>12 DEF ClAcceptClient
    <2>3. ClWorkersStill
      BY <2>1, <2>2 DEF ClWorkersStill, ClWorkerStates, ClTypeOK
    <2>4. UNCHANGED <<clBcast, clSend, clMsg, clGot>>
      BY <1>12 DEF ClAcceptClient
    <2> QED
      BY <1>1, <2>3, <2>4, ClQuietStep
  <1>13. ASSUME NEW w \in ClWorkers, ClWorkerWrites(w) PROVE ClChatOK'
    BY <1>3, <1>13, ClWorkerWritesStep DEF ClWorkerWrites, clState
  <1>14. ASSUME NEW g \in clSend, ClSendWrites(g) PROVE ClChatOK'
    BY <1>3, <1>14, ClSendWritesStep DEF ClSendWrites, ClSendKeep, clState
  <1> QED
    BY <1>4, <1>5, <1>7, <1>8, <1>9, <1>10, <1>11, <1>12, <1>13, <1>14,
       ClHandleBroadcastStep, ClBroadcastMSGStep, ClSendLooksStep DEF ClNext

\* ClInv is an invariant of the client loop: rooms hold who joined them, the
\* registration of a client is in one place, and a message is with one goroutine
\* or worker for each client it is still to reach.  (handleWS, RegisterLoop,
\* RegisterBroadcast, acceptClientLoop, BroadcastMSG, SendRoomMSG)
THEOREM ClientLoopInvariant == ClSpec => []ClInv
  <1>1. ClInit({"up"}) => ClInv
    <2> SUFFICES ASSUME ClInit({"up"}) PROVE ClInv
      OBVIOUS
    <2> USE DEF ClInit
    <2>1. ClTypeOK /\ ClRoomsOK
      BY ClWorkFacts DEF ClTypeOK, ClRoomsOK
    <2>2. ASSUME NEW w \in ClWorkers
          PROVE  /\ clWorker[w] \in ClWorkerStates /\ clWorker[w].clients = {} /\ clWorker[w].q = <<>>
                 /\ clWorker[w].m = 0 /\ clWorker[w].todo = {}
      BY DEF ClWorkerStates
    <2>3. clWorker \in [ClWorkers -> ClWorkerStates]
      BY <2>2
    <2>4. \A p \in ClProcs : clProc[p].op = "none"
      BY ClWorkFacts
    <2>5. ClRegisterOK
      <3>1. ASSUME NEW c \in ClClients
            PROVE  ~ClAsked(c) /\ ~ClWaits(c) /\ ~ClRuns(c) /\ c \notin clQueue /\ ~ClServed(c)
        BY <2>2, <2>4 DEF ClAsked, ClWaits, ClRuns, ClAsks, ClServed
      <3>2. ASSUME NEW c \in ClClients PROVE ClOneToken(c)
        BY <2>2, <2>4 DEF ClOneToken, ClAsks
      <3> QED
        BY <3>1, <3>2 DEF ClRegisterOK, ClOnePlace, ClKnown, ClTaken, ClListed
    <2>6. ClMessagesOK /\ ClBcastOK /\ ClSendsOK
      BY ClAssumption DEF ClMessagesOK, ClBcastOK, ClSendsOK
    <2>7. ClWorkersOK
      BY <2>2, <2>3 DEF ClWorkersOK, ClWorkerOK, ClInQ, ClBound
    <2>8. ClGotOK
      BY DEF ClGotOK
    <2> QED
      BY <2>1, <2>5, <2>6, <2>7, <2>8 DEF ClInv
  <1>2. ClInv /\ [ClNext]_clVars => ClInv'
    <2> SUFFICES ASSUME ClInv, [ClNext]_clVars PROVE ClInv'
      OBVIOUS
    <2>1. CASE ClNext
      <3>1. ClRoomsOK'
        BY <2>1, ClRoomsStep DEF ClInv
      <3>2. ClTypeOK' /\ ClRegisterOK'
        BY <2>1, ClRegisterStep DEF ClInv, ClWorkersOK, ClSendsOK, ClBcastOK
      <3>3. ClChatOK'
        BY <2>1, ClChatStep DEF ClInv, ClChatOK
      <3> QED
        BY <3>1, <3>2, <3>3 DEF ClInv, ClChatOK
    <2>2. CASE UNCHANGED clVars
      <3>1. ClTypeOK' /\ ClRoomsOK' /\ ClMessagesOK'
        BY <2>2 DEF ClInv, clVars, ClTypeOK, ClRoomsOK, ClMessagesOK
      <3>2. ClCalm
        BY <2>2 DEF ClInv, clVars, ClTypeOK, ClCalm, ClConnCalm, ClPendingCalm, ClRegCalm,
                    ClProceeds, ClSame, ClServedCalm
      <3>3. ClRegisterOK'
        BY <3>2, ClCalmStep DEF ClInv
      <3>4. ClWorkersStill /\ ClJoinedGrows
        BY <2>2 DEF ClInv, clVars, ClWorkersOK, ClWorkersStill, ClJoinedGrows
      <3>5. ClChatOK'
        BY <2>2, <3>4, ClQuietStep DEF ClInv, ClChatOK, clVars
      <3> QED
        BY <3>1, <3>3, <3>5 DEF ClInv, ClChatOK
    <2> QED
      BY <2>1, <2>2
  <1> QED
    BY <1>1, <1>2, PTL DEF ClSpec

\* No message is written to a client twice, and a room message goes from a client
\* that joined the room to others that did.  (BroadcastMSG, acceptClientLoop,
\* SendRoomMSG)
THEOREM ClientLoopDelivery == ClSpec => []ClDelivery
  <1>1. ClInv => ClDelivery
    <2> SUFFICES ASSUME ClInv, NEW c \in ClClients, NEW m \in DOMAIN clMsg
                 PROVE  /\ clGot[c][m] <= 1
                        /\ clGot[c][m] = 1 /\ clMsg[m].kind = "room" => ClMayGet(c, m)
      BY DEF ClDelivery, ClMayGet
    <2>1. m \in 1 .. ClMaxMsgs
      BY ClAssumption DEF ClInv, ClMessagesOK
    <2>2. clGot[c][m] \in {0, 1} /\ (clGot[c][m] = 1 => ClGotBroadcast(c, m) \/ ClGotRoom(c, m))
      BY <2>1 DEF ClInv, ClGotOK
    <2>3. clGot[c][m] <= 1
      BY <2>2
    <2> QED
      BY <2>2, <2>3 DEF ClGotBroadcast, ClGotRoom, ClIs
  <1> QED
    BY <1>1, ClientLoopInvariant, PTL

=============================================================================
