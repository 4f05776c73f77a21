--------------------------- MODULE Programs_proofs ---------------------------
(***************************************************************************)
(* Proofs about the smaller programs, for any number of readings, uploads, *)
(* requests and offsets and any channel capacity.  Of protocol-playground: *)
(* the order of the echoes of the sensor stream, what the event bus of     *)
(* data-aggregator does with a reading, the distances it stores, and the   *)
(* files the invoicer stores.  Of FindLatestToCommit and the experiment    *)
(* performance/ that compares versions of it: the loop computes the        *)
(* relation of OffsetScan for every map of message states and every pair   *)
(* of bounds, the shared maps lose no pending message, and the server's    *)
(* tests do not close each other's channel unless requests overlap.        *)
(***************************************************************************)
EXTENDS SensorStream, Aggregator, FileUpload, FindLatestLoop, PerfRunner, PerfServer,
        FiniteSetTheorems, TLAPS

(***************************************************************************)
(* The sensor stream                                                       *)
(***************************************************************************)
\* s holds n + 1, n + 2, ... in this order.
SsRun(s, n) == \A i \in 1 .. Len(s) : s[i] = n + i

SsTypeOK ==
  /\ ssRead \in Nat /\ ssQueue \in Seq(Nat) /\ ssSent \in Seq(Nat) /\ ssEcho \in Seq(Nat)
  /\ ssGot \in Seq(Nat) /\ ssOpen \in BOOLEAN

\* While the stream works, what was received, what is on its way back, what is on
\* its way there and dataCH are the readings, in order; a broken stream is empty.
SsInv ==
  /\ SsTypeOK
  /\ SsRun(ssGot, 0)
  /\ ssOpen => /\ SsRun(ssEcho, Len(ssGot))
               /\ SsRun(ssSent, Len(ssGot) + Len(ssEcho))
               /\ SsRun(ssQueue, Len(ssGot) + Len(ssEcho) + Len(ssSent))
               /\ ssRead = Len(ssGot) + Len(ssEcho) + Len(ssSent) + Len(ssQueue)
  /\ ~ssOpen => ssEcho = << >> /\ ssSent = << >>

LEMMA SsRunTail ==
  ASSUME NEW s \in Seq(Nat), s # << >>, NEW n \in Nat, SsRun(s, n)
  PROVE  Head(s) = n + 1 /\ SsRun(Tail(s), n + 1)
  <1>1. PICK k \in Nat : k = Len(s) /\ k >= 1
    <2>1. Len(s) \in Nat /\ Len(s) >= 1
      OBVIOUS
    <2> QED
      BY <2>1
  <1>2. Len(Tail(s)) = k - 1 /\ \A i \in 1 .. k - 1 : Tail(s)[i] = s[i + 1]
    BY <1>1
  <1>3. ASSUME NEW i \in 1 .. k - 1 PROVE Tail(s)[i] = n + 1 + i
    <2>1. i + 1 \in 1 .. k
      OBVIOUS
    <2>2. s[i + 1] = n + (i + 1)
      BY <1>1, <2>1 DEF SsRun
    <2> QED
      BY <1>2, <2>2
  <1>4. Head(s) = s[1] /\ s[1] = n + 1
    BY <1>1 DEF SsRun
  <1> QED
    BY <1>2, <1>3, <1>4 DEF SsRun

LEMMA SsRunAppend ==
  ASSUME NEW s \in Seq(Nat), NEW n \in Nat, SsRun(s, n), NEW x \in Nat, x = n + Len(s) + 1
  PROVE  SsRun(Append(s, x), n)
  <1>1. PICK k \in Nat : k = Len(s)
    OBVIOUS
  <1>2. /\ Len(Append(s, x)) = k + 1 /\ Append(s, x)[k + 1] = x
        /\ \A i \in 1 .. k : Append(s, x)[i] = s[i]
    BY <1>1
  <1>3. ASSUME NEW i \in 1 .. k + 1 PROVE Append(s, x)[i] = n + i
    <2>1. CASE i \in 1 .. k
      BY <1>1, <1>2, <2>1 DEF SsRun
    <2>2. CASE i = k + 1
      <3>1. Append(s, x)[i] = x
        BY <1>2, <2>2
      <3>2. x = n + i
        BY <1>1, <2>2
      <3> QED
        BY <3>1, <3>2
    <2>3. i \in 1 .. k \/ i = k + 1
      OBVIOUS
    <2> QED
      BY <2>1, <2>2, <2>3
  <1> QED
    BY <1>2, <1>3 DEF SsRun

LEMMA SsLengths ==
  ASSUME NEW s \in Seq(Nat)
  PROVE  /\ Len(s) \in Nat
         /\ s # << >> => /\ Head(s) \in Nat /\ Tail(s) \in Seq(Nat) /\ Len(Tail(s)) = Len(s) - 1
                         /\ Len(s) \in Nat \ {0}
         /\ \A x \in Nat : Append(s, x) \in Seq(Nat) /\ Len(Append(s, x)) = Len(s) + 1
  OBVIOUS

LEMMA SsStep ==
  ASSUME SsInv, [SsNext]_ssVars
  PROVE  SsInv'
  <1>1. SsTypeOK /\ SsRun(ssGot, 0)
    BY DEF SsInv
  <1>2. PICK g \in Nat, e \in Nat, s \in Nat, q \in Nat :
          g = Len(ssGot) /\ e = Len(ssEcho) /\ s = Len(ssSent) /\ q = Len(ssQueue)
    BY <1>1 DEF SsTypeOK
  <1>3. ssOpen => /\ SsRun(ssEcho, g) /\ SsRun(ssSent, g + e) /\ SsRun(ssQueue, g + e + s)
                  /\ ssRead = g + e + s + q
    BY <1>2 DEF SsInv
  <1>4. ~ssOpen => ssEcho = << >> /\ ssSent = << >>
    BY DEF SsInv
  <1>5. CASE SsHandleWS
    <2>1. /\ ssQueue' = Append(ssQueue, ssRead + 1) /\ ssRead' = ssRead + 1
          /\ UNCHANGED << ssSent, ssEcho, ssGot, ssOpen >>
      BY <1>5 DEF SsHandleWS
    <2>2. ssRead + 1 \in Nat
      BY <1>1 DEF SsTypeOK
    <2>3. ssQueue' \in Seq(Nat) /\ Len(ssQueue') = q + 1
      BY <1>1, <1>2, <2>1, <2>2, SsLengths DEF SsTypeOK
    <2>4. ssOpen => SsRun(ssQueue', g + e + s) /\ ssRead' = g + e + s + (q + 1)
      <3>1. g + e + s \in Nat
        OBVIOUS
      <3>2. ssOpen => ssRead + 1 = (g + e + s) + Len(ssQueue) + 1
        BY <1>2, <1>3
      <3> QED
        BY <1>1, <1>3, <2>1, <2>2, <3>1, <3>2, SsRunAppend DEF SsTypeOK
    <2> QED
      BY <1>1, <1>2, <1>3, <1>4, <2>1, <2>2, <2>3, <2>4 DEF SsInv, SsTypeOK
  <1>6. CASE SsSendMsgStream
    <2>1. /\ ssQueue # << >> /\ ssQueue' = Tail(ssQueue)
          /\ ssSent' = IF ssOpen THEN Append(ssSent, Head(ssQueue)) ELSE ssSent
          /\ UNCHANGED << ssRead, ssEcho, ssGot, ssOpen >>
      BY <1>6 DEF SsSendMsgStream
    <2>2. /\ Head(ssQueue) \in Nat /\ ssQueue' \in Seq(Nat) /\ Len(ssQueue') = q - 1
          /\ Append(ssSent, Head(ssQueue)) \in Seq(Nat) /\ Len(Append(ssSent, Head(ssQueue))) = s + 1
      BY <1>1, <1>2, <2>1, SsLengths DEF SsTypeOK
    <2>3. CASE ssOpen
      <3>1. g + e \in Nat /\ g + e + s \in Nat
        OBVIOUS
      <3>2. Head(ssQueue) = g + e + s + 1 /\ SsRun(ssQueue', g + e + s + 1)
        BY <1>1, <1>3, <2>1, <2>3, <3>1, SsRunTail DEF SsTypeOK
      <3>3. SsRun(ssSent', g + e)
        BY <1>1, <1>2, <1>3, <2>1, <2>2, <2>3, <3>1, <3>2, SsRunAppend DEF SsTypeOK
      <3>4. ssSent' \in Seq(Nat) /\ Len(ssSent') = s + 1
        BY <2>1, <2>2, <2>3
      <3>5. g + e + (s + 1) = g + e + s + 1 /\ g + e + (s + 1) + (q - 1) = g + e + s + q
        OBVIOUS
      <3> QED
        BY <1>1, <1>2, <1>3, <2>1, <2>2, <2>3, <3>2, <3>3, <3>4, <3>5 DEF SsInv, SsTypeOK
    <2>4. CASE ~ssOpen
      BY <1>1, <1>4, <2>1, <2>2, <2>4 DEF SsInv, SsTypeOK
    <2> QED
      BY <2>3, <2>4
  <1>7. CASE SsEcho
    <2>1. /\ ssSent # << >> /\ ssSent' = Tail(ssSent) /\ ssEcho' = Append(ssEcho, Head(ssSent))
          /\ UNCHANGED << ssRead, ssQueue, ssGot, ssOpen >>
      BY <1>7 DEF SsEcho
    <2>2. /\ Head(ssSent) \in Nat /\ ssSent' \in Seq(Nat) /\ Len(ssSent') = s - 1
          /\ ssEcho' \in Seq(Nat) /\ Len(ssEcho') = e + 1
      BY <1>1, <1>2, <2>1, SsLengths DEF SsTypeOK
    <2>3. ssOpen
      BY <1>1, <1>4, <2>1 DEF SsTypeOK
    <2>4. g + e \in Nat
      OBVIOUS
    <2>5. Head(ssSent) = g + e + 1 /\ SsRun(ssSent', g + e + 1)
      BY <1>1, <1>3, <2>1, <2>3, <2>4, SsRunTail DEF SsTypeOK
    <2>6. SsRun(ssEcho', g)
      BY <1>1, <1>2, <1>3, <2>1, <2>2, <2>3, <2>5, SsRunAppend DEF SsTypeOK
    <2>7. g + (e + 1) = g + e + 1 /\ g + (e + 1) + (s - 1) = g + e + s
      OBVIOUS
    <2>8. SsRun(ssQueue, g + e + s) /\ ssRead = g + e + s + q
      BY <1>3, <2>3
    <2> QED
      BY <1>1, <1>2, <2>1, <2>2, <2>3, <2>5, <2>6, <2>7, <2>8 DEF SsInv, SsTypeOK
  <1>8. CASE SsReadServer
    <2>1. /\ ssEcho # << >> /\ ssEcho' = Tail(ssEcho) /\ ssGot' = Append(ssGot, Head(ssEcho))
          /\ UNCHANGED << ssRead, ssQueue, ssSent, ssOpen >>
      BY <1>8 DEF SsReadServer
    <2>2. /\ Head(ssEcho) \in Nat /\ ssEcho' \in Seq(Nat) /\ Len(ssEcho') = e - 1
          /\ ssGot' \in Seq(Nat) /\ Len(ssGot') = g + 1
      BY <1>1, <1>2, <2>1, SsLengths DEF SsTypeOK
    <2>3. ssOpen
      BY <1>1, <1>4, <2>1 DEF SsTypeOK
    <2>4. Head(ssEcho) = g + 1 /\ SsRun(ssEcho', g + 1)
      BY <1>1, <1>3, <2>1, <2>3, SsRunTail DEF SsTypeOK
    <2>5. SsRun(ssGot', 0)
      BY <1>1, <1>2, <2>1, <2>2, <2>4, SsRunAppend DEF SsTypeOK
    <2>6. (g + 1) + (e - 1) = g + e
      OBVIOUS
    <2>7. SsRun(ssSent, g + e) /\ SsRun(ssQueue, g + e + s) /\ ssRead = g + e + s + q
      BY <1>3, <2>3
    <2> QED
      BY <1>1, <1>2, <2>1, <2>2, <2>3, <2>4, <2>5, <2>6, <2>7 DEF SsInv, SsTypeOK
  <1>9. CASE SsBreak
    <2>1. << >> \in Seq(Nat)
      OBVIOUS
    <2> QED
      BY <1>1, <1>9, <2>1 DEF SsBreak, SsInv, SsTypeOK
  <1>10. CASE SsWSClosed \/ SsReadServerEnds \/ UNCHANGED ssVars
    <2>1. UNCHANGED << ssRead, ssQueue, ssSent, ssEcho, ssGot, ssOpen >>
      BY <1>10 DEF SsWSClosed, SsReadServerEnds, ssVars
    <2> QED
      BY <2>1 DEF SsInv, SsTypeOK
  <1> QED
    BY <1>5, <1>6, <1>7, <1>8, <1>9, <1>10 DEF SsNext

\* AcceptWSLoop, SensorDataStream and ReadServerLoop keep the readings in order, so
\* what ReadServerLoop receives is the first readings without a gap, also when the
\* stream has broken and readings were lost.
THEOREM EchoesInOrder == SsSpec => []SsEchoesInOrder
  <1>1. SsInit({TRUE}) => SsInv
    <2>1. << >> \in Seq(Nat) /\ Len(<< >>) = 0
      OBVIOUS
    <2> QED
      BY <2>1 DEF SsInit, SsInv, SsTypeOK, SsRun
  <1>2. SsInv /\ [SsNext]_ssVars => SsInv'
    BY SsStep
  <1>3. SsInv => SsEchoesInOrder
    BY DEF SsInv, SsTypeOK, SsRun, SsEchoesInOrder
  <1> QED
    BY <1>1, <1>2, <1>3, PTL DEF SsSpec

-----------------------------------------------------------------------------
(***************************************************************************)
(* The event bus of data-aggregator                                        *)
(***************************************************************************)
AgPublishes == [event : AgEventSet, reading : Nat, locked : BOOLEAN]

AgTypeOK ==
  /\ agSent \in 0 .. AgReadings /\ agTopic \in Seq(Nat) /\ agPos \in Nat
  /\ agSub \in [AgEventSet -> {"none", "on", "cancelled", "closed"}]
  /\ agPublish \subseteq AgPublishes
  /\ agQueue \in [AgEventSet -> Seq(Nat)] /\ agHandled \in [AgEventSet -> Seq(Nat)]
  /\ agFrom \in [AgEventSet -> Nat]

\* r is somewhere in s; nothing is in s twice.
AgIn(s, r) == \E j \in 1 .. Len(s) : s[j] = r
AgOnce(s) == \A i, j \in 1 .. Len(s) : s[i] = s[j] => i = j

\* Every reading is produced at most once, so the log never grows past AgReadings.
AgTopicOK ==
  /\ agProducing \subseteq 1 .. agSent /\ IsFiniteSet(agProducing)
  /\ Len(agTopic) + Cardinality(agProducing) <= agSent
  /\ \A i \in 1 .. Len(agTopic) : agTopic[i] \in 1 .. agSent /\ agTopic[i] \notin agProducing
  /\ AgOnce(agTopic)

\* The bus knows only readings the consumer has read.
AgWasRead(r) == agPos # AgNoPos /\ \E i \in 1 .. agPos : agTopic[i] = r
AgPublishing(e, r) == \E p \in agPublish : p.event = e /\ p.reading = r
AgPlaced(e, r) == AgPublishing(e, r) \/ AgIn(agQueue[e], r) \/ AgIn(agHandled[e], r)
AgKnownOK ==
  /\ agPos # AgNoPos => agPos <= Len(agTopic)
  /\ \A e \in AgEventSet : \A r : AgPlaced(e, r) => AgWasRead(r)

\* For an event a reading is in one place at most ...
AgAtMostOnce(e) ==
  /\ \A p, o \in agPublish : p.event = e /\ o.event = e /\ p.reading = o.reading => p = o
  /\ AgOnce(agQueue[e]) /\ AgOnce(agHandled[e])
  /\ \A r : /\ AgPublishing(e, r) => ~AgIn(agQueue[e], r) /\ ~AgIn(agHandled[e], r)
            /\ AgIn(agQueue[e], r) => ~AgIn(agHandled[e], r)

\* ... and in one at least while the loop of the event runs.
AgRuns(e) == agSub[e] \in {"on", "cancelled"}
AgAtLeastOnce(e) ==
  AgRuns(e) /\ agPos # AgNoPos =>
    \A i \in (agFrom[e] + 1) .. agPos : \A r : r = agTopic[i] => AgPlaced(e, r)

AgBusOK == \A e \in AgEventSet : AgAtMostOnce(e) /\ AgAtLeastOnce(e)

\* The distances, and the point the next one starts from.
AgPathOK ==
  /\ agStore \in Seq(Nat \X Nat) /\ agInvoices \in Seq(Nat \X Nat) /\ agPoints \in Nat \X Nat
  /\ agPoints[1] = IF agHandled[AgDistance] = << >> THEN AgOrigin
                   ELSE agHandled[AgDistance][Len(agHandled[AgDistance])]
  /\ AgDistancesFormPath

AgInv == AgTypeOK /\ AgTopicOK /\ AgKnownOK /\ AgBusOK /\ AgPathOK

LEMMA AgAppendIn ==
  ASSUME NEW s \in Seq(Nat), NEW x \in Nat
  PROVE  /\ Append(s, x) \in Seq(Nat)
         /\ \A r : AgIn(Append(s, x), r) <=> AgIn(s, r) \/ r = x
         /\ AgOnce(s) /\ ~AgIn(s, x) => AgOnce(Append(s, x))
  <1>1. PICK n \in Nat : n = Len(s)
    OBVIOUS
  <1>2. /\ Len(Append(s, x)) = n + 1 /\ Append(s, x)[n + 1] = x /\ Append(s, x) \in Seq(Nat)
        /\ \A i \in 1 .. n : Append(s, x)[i] = s[i]
    BY <1>1
  <1>3. \A i : i \in 1 .. n + 1 <=> i \in 1 .. n \/ i = n + 1
    OBVIOUS
  <1>4. PICK t : t = Append(s, x)
    OBVIOUS
  <1>5. \A r : AgIn(t, r) <=> AgIn(s, r) \/ r = x
    BY <1>1, <1>2, <1>3, <1>4 DEF AgIn
  <1>6. AgOnce(s) /\ ~AgIn(s, x) => AgOnce(t)
    BY <1>1, <1>2, <1>3, <1>4 DEF AgIn, AgOnce
  <1> QED
    BY <1>2, <1>4, <1>5, <1>6

LEMMA AgTailIn ==
  ASSUME NEW s \in Seq(Nat), s # << >>
  PROVE  /\ Tail(s) \in Seq(Nat) /\ Head(s) \in Nat
         /\ \A r : AgIn(s, r) <=> r = Head(s) \/ AgIn(Tail(s), r)
         /\ AgOnce(s) => AgOnce(Tail(s)) /\ ~AgIn(Tail(s), Head(s))
  <1>1. PICK n \in Nat : n = Len(s) /\ n >= 1
    <2>1. Len(s) \in Nat /\ Len(s) >= 1
      OBVIOUS
    <2> QED
      BY <2>1
  <1>2. PICK t : t = Tail(s)
    OBVIOUS
  <1>3. /\ Len(t) = n - 1 /\ t \in Seq(Nat) /\ Head(s) \in Nat /\ Head(s) = s[1] /\ 1 \in 1 .. n
        /\ \A i \in 1 .. n - 1 : i + 1 \in 1 .. n /\ i + 1 # 1 /\ t[i] = s[i + 1]
    BY <1>1, <1>2
  <1>4. \A j \in 1 .. n : j = 1 \/ \E i \in 1 .. n - 1 : j = i + 1
    <2>1. ASSUME NEW j \in 1 .. n, j # 1 PROVE j - 1 \in 1 .. n - 1 /\ j = (j - 1) + 1
      BY <2>1
    <2> QED
      BY <2>1
  <1>5. ASSUME NEW r PROVE AgIn(s, r) <=> r = Head(s) \/ AgIn(t, r)
    <2>1. ASSUME NEW j \in 1 .. n, s[j] = r, r # Head(s) PROVE AgIn(t, r)
      <3>1. PICK i \in 1 .. n - 1 : j = i + 1
        BY <1>3, <1>4, <2>1
      <3>2. t[i] = r /\ i \in 1 .. Len(t)
        BY <1>3, <2>1, <3>1
      <3> QED
        BY <3>2 DEF AgIn
    <2>2. ASSUME NEW i \in 1 .. n - 1, t[i] = r PROVE AgIn(s, r)
      <3>1. i + 1 \in 1 .. Len(s) /\ s[i + 1] = r
        BY <1>1, <1>3, <2>2
      <3> QED
        BY <3>1 DEF AgIn
    <2>3. r = Head(s) => AgIn(s, r)
      BY <1>1, <1>3 DEF AgIn
    <2>4. AgIn(s, r) /\ r # Head(s) => AgIn(t, r)
      BY <1>1, <2>1 DEF AgIn
    <2>5. AgIn(t, r) => AgIn(s, r)
      BY <1>3, <2>2 DEF AgIn
    <2> QED
      BY <2>3, <2>4, <2>5
  <1>6. ASSUME AgOnce(s) PROVE AgOnce(t) /\ ~AgIn(t, Head(s))
    <2>1. ASSUME NEW i \in 1 .. n - 1, NEW j \in 1 .. n - 1, t[i] = t[j] PROVE i = j
      <3>1. i + 1 = j + 1
        BY <1>1, <1>3, <1>6, <2>1 DEF AgOnce
      <3> QED
        BY <3>1
    <2>2. AgOnce(t)
      BY <1>3, <2>1 DEF AgOnce
    <2>3. ~AgIn(t, Head(s))
      BY <1>1, <1>3, <1>6 DEF AgOnce, AgIn
    <2> QED
      BY <2>2, <2>3
  <1> QED
    BY <1>2, <1>3, <1>5, <1>6

\* The log only grows.
AgStable ==
  /\ agTopic' \in Seq(Nat) /\ Len(agTopic) <= Len(agTopic')
  /\ \A i \in 1 .. Len(agTopic) : agTopic'[i] = agTopic[i]

\* How the consumer's position moves: not at all, to the next reading, or to the
\* end of the log by the assignment.
AgMoves ==
  \/ agPos' = agPos
  \/ agPos' = agPos + 1 /\ agPos # AgNoPos /\ agPos' <= Len(agTopic) /\ agPos' # AgNoPos
  \/ agPos = AgNoPos /\ agPos' <= Len(agTopic')

LEMMA AgReadStays ==
  ASSUME AgTypeOK, AgTypeOK', AgKnownOK, AgStable, AgMoves, NEW r, AgWasRead(r)
  PROVE  AgWasRead(r)'
  <1>1. agPos \in Nat /\ Len(agTopic) \in Nat /\ agPos # AgNoPos /\ agPos <= Len(agTopic)
    BY DEF AgTypeOK, AgKnownOK, AgWasRead
  <1>2. PICK i \in 1 .. agPos : agTopic[i] = r
    BY DEF AgWasRead
  <1>3. i \in 1 .. agPos' /\ i \in 1 .. Len(agTopic) /\ agPos' # AgNoPos
    BY <1>1, <1>2 DEF AgMoves
  <1>4. agTopic'[i] = r
    BY <1>2, <1>3 DEF AgStable
  <1> QED
    BY <1>3, <1>4 DEF AgWasRead, AgNoPos

\* What a step must keep of event e's places, and of the readings it owes them.
AgKeeps(e) ==
  /\ \A r : AgPlaced(e, r)' => AgPlaced(e, r) \/ AgWasRead(r)'
  /\ AgAtMostOnce(e)'
  /\ AgRuns(e)' =>
       \/ agFrom'[e] = agPos'
       \/ /\ AgRuns(e) /\ agFrom'[e] = agFrom[e] /\ \A r : AgPlaced(e, r) => AgPlaced(e, r)'
          /\ \/ agPos' = agPos
             \/ agPos # AgNoPos /\ agPos' = agPos + 1 /\ \A r : r = agTopic[agPos'] => AgPlaced(e, r)'

LEMMA AgOwes ==
  ASSUME AgInv, AgStable, AgMoves, AgTypeOK', NEW e \in AgEventSet, AgKeeps(e)
  PROVE  AgAtLeastOnce(e)'
  <1> USE DEF AgInv
  <1>1. SUFFICES ASSUME AgRuns(e)', agPos' # AgNoPos, NEW i \in (agFrom'[e] + 1) .. agPos',
                        NEW r, r = agTopic'[i]
                 PROVE  AgPlaced(e, r)'
    BY DEF AgAtLeastOnce, AgNoPos
  <1>2. /\ agFrom'[e] \in Nat /\ agPos \in Nat /\ Len(agTopic) \in Nat /\ Len(agTopic') \in Nat
        /\ agPos' \in Nat
    BY DEF AgTypeOK, AgStable
  <1>3. agFrom'[e] # agPos'
    BY <1>1, <1>2
  <1>4. /\ AgRuns(e) /\ agFrom'[e] = agFrom[e] /\ \A q : AgPlaced(e, q) => AgPlaced(e, q)'
        /\ \/ agPos' = agPos
           \/ agPos # AgNoPos /\ agPos' = agPos + 1 /\ \A q : q = agTopic[agPos'] => AgPlaced(e, q)'
    BY <1>1, <1>3 DEF AgKeeps
  <1>5. AgAtLeastOnce(e)
    BY DEF AgBusOK
  <1>6. agPos' = agPos \/ agPos' = agPos + 1
    BY <1>4
  <1>7. agPos # AgNoPos /\ agPos <= Len(agTopic) /\ agPos' <= Len(agTopic)
    <2>1. AgNoPos = AgReadings + 1 /\ (agPos # AgNoPos => agPos <= Len(agTopic))
      BY DEF AgNoPos, AgKnownOK
    <2>3. CASE agPos' = agPos
      BY <1>1, <2>1, <2>3
    <2>4. CASE agPos' = agPos + 1
      BY <1>2, <1>4, <2>1, <2>4 DEF AgMoves
    <2> QED
      BY <1>6, <2>3, <2>4
  <1>8. i \in 1 .. Len(agTopic)
    BY <1>1, <1>2, <1>7
  <1>9. r = agTopic[i]
    BY <1>1, <1>8 DEF AgStable
  <1>10. CASE i \in (agFrom[e] + 1) .. agPos
    BY <1>4, <1>5, <1>7, <1>9, <1>10 DEF AgAtLeastOnce
  <1>11. CASE i \notin (agFrom[e] + 1) .. agPos
    <2>1. i = agPos' /\ agPos' = agPos + 1
      BY <1>1, <1>2, <1>4, <1>6, <1>11
    <2> QED
      BY <1>2, <1>4, <1>9, <2>1
  <1> QED
    BY <1>10, <1>11

LEMMA AgStep ==
  ASSUME AgInv, AgStable, AgMoves, AgTypeOK', AgTopicOK', AgPathOK',
         \A e \in AgEventSet : AgKeeps(e)
  PROVE  AgInv'
  <1> USE DEF AgInv
  <1>1. agPos' # AgNoPos => agPos' <= Len(agTopic')
    <2>1. /\ agPos \in Nat /\ agPos' \in Nat /\ Len(agTopic) \in Nat /\ Len(agTopic') \in Nat
          /\ Len(agTopic) <= Len(agTopic')
      BY DEF AgTypeOK, AgStable
    <2> QED
      BY <2>1 DEF AgKnownOK, AgMoves
  <1>2. ASSUME NEW e \in AgEventSet, NEW r, AgPlaced(e, r)' PROVE AgWasRead(r)'
    <2>1. AgPlaced(e, r) => AgWasRead(r)
      BY DEF AgKnownOK
    <2>2. AgPlaced(e, r) \/ AgWasRead(r)'
      BY <1>2 DEF AgKeeps
    <2> QED
      BY <2>1, <2>2, AgReadStays
  <1>3. AgKnownOK'
    BY <1>1, <1>2 DEF AgKnownOK, AgNoPos
  <1>4. ASSUME NEW e \in AgEventSet PROVE AgAtMostOnce(e)' /\ AgAtLeastOnce(e)'
    BY AgOwes DEF AgKeeps
  <1> QED
    BY <1>3, <1>4 DEF AgBusOK

\* Steps that leave the places of the readings alone: the log may grow, and an
\* event may be subscribed from here on, cancelled or closed.
LEMMA AgQuiet ==
  ASSUME AgInv, AgStable, AgMoves, UNCHANGED << agPublish, agQueue, agHandled, agSvc >>,
         AgTypeOK', AgTopicOK',
         \A e \in AgEventSet : AgRuns(e)' =>
           \/ AgRuns(e) /\ agFrom'[e] = agFrom[e] /\ agPos' = agPos
           \/ agFrom'[e] = agPos'
  PROVE  AgInv'
  <1> USE DEF AgInv
  <1>1. \A e, r : AgPublishing(e, r)' <=> AgPublishing(e, r)
    BY DEF AgPublishing
  <1>2. \A e, r : AgPlaced(e, r)' <=> AgPlaced(e, r)
    BY <1>1 DEF AgPlaced
  <1>3. ASSUME NEW e \in AgEventSet PROVE AgKeeps(e)
    <2>1. AgAtMostOnce(e)
      BY DEF AgBusOK
    <2>2. AgAtMostOnce(e)'
      BY <1>1, <2>1 DEF AgAtMostOnce
    <2> QED
      BY <1>2, <2>2 DEF AgKeeps
  <1>4. AgPathOK'
    BY DEF agSvc, AgPathOK, AgDistancesFormPath
  <1> QED
    BY <1>3, <1>4, AgStep

-----------------------------------------------------------------------------
(* The places of a reading do not change.                                  *)

LEMMA AgCardinality ==
  ASSUME AgTopicOK, AgTypeOK
  PROVE  /\ Cardinality(agProducing) \in Nat /\ Len(agTopic) \in Nat
         /\ Len(agTopic) <= agSent /\ agSent \in Nat /\ Len(agTopic) <= AgReadings
  <1>1. Cardinality(agProducing) \in Nat /\ Len(agTopic) \in Nat
    BY FS_CardinalityType DEF AgTopicOK, AgTypeOK
  <1>2. agSent \in Nat /\ agSent <= AgReadings /\ AgReadings \in Nat
    BY AgAssumption DEF AgTypeOK
  <1> QED
    BY <1>1, <1>2 DEF AgTopicOK

LEMMA AgAcceptWSKeeps ==
  ASSUME AgInv, AgAcceptWS
  PROVE  AgInv'
  <1> USE DEF AgInv
  <1>1. /\ agSent \in Nat /\ agSent + 1 <= AgReadings /\ AgReadings \in Nat
        /\ agSent' = agSent + 1 /\ agProducing' = agProducing \cup {agSent + 1}
        /\ UNCHANGED << agPos, agTopic, agSub, agPublish, agQueue, agHandled, agFrom, agSvc >>
    BY AgAssumption DEF AgTypeOK, AgAcceptWS, agBus, agSvc
  <1>2. AgTypeOK' /\ AgStable /\ AgMoves
    BY <1>1 DEF AgTypeOK, AgStable, AgMoves
  <1>3. agSent + 1 \notin agProducing
    BY <1>1 DEF AgTopicOK
  <1>4. /\ IsFiniteSet(agProducing') /\ Cardinality(agProducing') = Cardinality(agProducing) + 1
    BY <1>1, <1>3, FS_AddElement DEF AgTopicOK
  <1>5. Len(agTopic') + Cardinality(agProducing') <= agSent'
    BY <1>1, <1>4, AgCardinality DEF AgTopicOK
  <1>6. agProducing' \subseteq 1 .. agSent'
    BY <1>1 DEF AgTopicOK
  <1>7. \A i \in 1 .. Len(agTopic') : agTopic'[i] \in 1 .. agSent' /\ agTopic'[i] \notin agProducing'
    BY <1>1 DEF AgTopicOK
  <1>8. AgTopicOK'
    BY <1>1, <1>4, <1>5, <1>6, <1>7 DEF AgTopicOK
  <1> QED
    BY <1>1, <1>2, <1>8, AgQuiet DEF AgRuns

LEMMA AgProduceDataKeeps ==
  ASSUME AgInv, NEW r \in 1 .. AgReadings, AgProduceData(r)
  PROVE  AgInv'
  <1> USE DEF AgInv
  <1>1. /\ r \in agProducing /\ agProducing' = agProducing \ {r}
        /\ UNCHANGED << agSent, agPos, agSub, agPublish, agQueue, agHandled, agFrom, agSvc >>
        /\ agTopic' = Append(agTopic, r) \/ agTopic' = agTopic
    BY DEF AgProduceData, agBus, agSvc
  <1>2. /\ IsFiniteSet(agProducing') /\ Cardinality(agProducing') = Cardinality(agProducing) - 1
    BY <1>1, FS_RemoveElement DEF AgTopicOK
  <1>3. r \in Nat /\ r \in 1 .. agSent /\ agTopic \in Seq(Nat)
    BY <1>1 DEF AgTopicOK, AgTypeOK
  <1>4. agProducing' \subseteq 1 .. agSent'
    BY <1>1 DEF AgTopicOK
  <1>5. CASE agTopic' = agTopic
    <2>1. AgTypeOK' /\ AgStable /\ AgMoves
      BY <1>1, <1>5 DEF AgTypeOK, AgStable, AgMoves
    <2>2. Len(agTopic') + Cardinality(agProducing') <= agSent'
      BY <1>1, <1>2, <1>5, AgCardinality DEF AgTopicOK
    <2>3. AgTopicOK'
      BY <1>1, <1>2, <1>4, <1>5, <2>2 DEF AgTopicOK
    <2> QED
      BY <1>1, <2>1, <2>3, AgQuiet DEF AgRuns
  <1>6. CASE agTopic' = Append(agTopic, r)
    <2>1. PICK n \in Nat : n = Len(agTopic)
      BY AgCardinality
    <2>2. /\ agTopic' \in Seq(Nat) /\ Len(agTopic') = n + 1 /\ agTopic'[n + 1] = r
          /\ \A i \in 1 .. n : agTopic'[i] = agTopic[i]
      BY <1>3, <1>6, <2>1
    <2>3. AgTypeOK' /\ AgStable /\ AgMoves
      BY <1>1, <2>1, <2>2 DEF AgTypeOK, AgStable, AgMoves
    <2>4. Len(agTopic') + Cardinality(agProducing') <= agSent'
      BY <1>1, <1>2, <2>1, <2>2, AgCardinality DEF AgTopicOK
    <2>5. ~AgIn(agTopic, r) /\ AgOnce(agTopic)
      BY <1>1 DEF AgTopicOK, AgIn
    <2>6. AgOnce(agTopic')
      BY <1>3, <1>6, <2>5, AgAppendIn
    <2>7. \A i \in 1 .. n + 1 : i \in 1 .. n \/ i = n + 1
      OBVIOUS
    <2>8. \A i \in 1 .. Len(agTopic') : agTopic'[i] \in 1 .. agSent' /\ agTopic'[i] \notin agProducing'
      BY <1>1, <1>3, <2>1, <2>2, <2>7 DEF AgTopicOK
    <2>9. AgTopicOK'
      BY <1>2, <1>4, <2>4, <2>6, <2>8 DEF AgTopicOK, AgOnce
    <2> QED
      BY <1>1, <2>3, <2>9, AgQuiet DEF AgRuns
  <1> QED
    BY <1>1, <1>5, <1>6

\* Neither the readings nor the places nor the position change.
AgSame == UNCHANGED << agSent, agProducing, agTopic, agPos, agPublish, agQueue, agHandled, agSvc >>

LEMMA AgSameKeeps ==
  ASSUME AgInv, AgSame, agSub' \in [AgEventSet -> {"none", "on", "cancelled", "closed"}],
         agFrom' \in [AgEventSet -> Nat],
         \A e \in AgEventSet : AgRuns(e)' =>
           (AgRuns(e) /\ agFrom'[e] = agFrom[e]) \/ agFrom'[e] = agPos
  PROVE  AgInv'
  <1> USE DEF AgInv, AgSame
  <1>1. AgTypeOK' /\ AgStable /\ AgMoves
    BY DEF AgTypeOK, AgStable, AgMoves
  <1>2. AgTopicOK'
    BY DEF AgTopicOK
  <1> QED
    BY <1>1, <1>2, AgQuiet

LEMMA AgIdleKeeps ==
  ASSUME AgInv,
         \/ AgInitializeTopic \/ AgStartFails \/ AgTopicReady \/ AgConnect \/ AgReadLoopExit
         \/ UNCHANGED agVars
  PROVE  AgInv'
  <1>1. AgSame /\ UNCHANGED << agSub, agFrom >>
    BY DEF AgSame, AgInitializeTopic, AgStartFails, AgTopicReady, AgConnect, AgReadLoopExit,
           agVars, agIn, agBus, agSvc
  <1>2. AgTypeOK
    BY DEF AgInv
  <1> QED
    BY <1>1, <1>2, AgSameKeeps DEF AgTypeOK, AgRuns

LEMMA AgSubscribeKeeps ==
  ASSUME AgInv, NEW i \in DOMAIN AgEvents, AgSubscribe(i)
  PROVE  AgInv'
  <1>1. PICK e \in AgEventSet : e = AgEvents[i]
    BY DEF AgEvents, AgEventSet
  <1>2. /\ AgSame /\ agSub' = [agSub EXCEPT ![e] = "on"] /\ agFrom' = [agFrom EXCEPT ![e] = agPos]
    BY <1>1 DEF AgSame, AgSubscribe, agIn, agSvc
  <1>3. AgTypeOK
    BY DEF AgInv
  <1> QED
    BY <1>2, <1>3, AgSameKeeps DEF AgTypeOK, AgRuns

LEMMA AgCloseKeeps ==
  ASSUME AgInv, AgClose
  PROVE  AgInv'
  <1>1. /\ AgSame /\ agFrom' = agFrom
        /\ agSub' = [e \in AgEventSet |-> IF agSub[e] = "on" THEN "cancelled" ELSE agSub[e]]
    BY DEF AgSame, AgClose, agIn, agSvc
  <1>2. AgTypeOK
    BY DEF AgInv
  <1> QED
    BY <1>1, <1>2, AgSameKeeps DEF AgTypeOK, AgRuns

LEMMA AgDoneKeeps ==
  ASSUME AgInv, NEW e \in AgEventSet, AgDone(e)
  PROVE  AgInv'
  <1>1. AgSame /\ agFrom' = agFrom /\ agSub' = [agSub EXCEPT ![e] = "closed"]
    BY DEF AgSame, AgDone, agIn, agSvc
  <1>2. AgTypeOK
    BY DEF AgInv
  <1> QED
    BY <1>1, <1>2, AgSameKeeps DEF AgTypeOK, AgRuns

LEMMA AgAssignedKeeps ==
  ASSUME AgInv, AgAssigned
  PROVE  AgInv'
  <1> USE DEF AgInv
  <1>1. /\ agPos = AgNoPos /\ agPos' \in 0 .. Len(agTopic) /\ agFrom' = [e \in AgEventSet |-> agPos']
        /\ UNCHANGED << agSent, agProducing, agTopic, agSub, agPublish, agQueue, agHandled, agSvc >>
    BY DEF AgAssigned, agIn, agSvc
  <1>2. Len(agTopic) \in Nat /\ agPos' \in Nat
    BY <1>1, AgCardinality
  <1>3. AgTypeOK' /\ AgStable /\ AgMoves
    BY <1>1, <1>2 DEF AgTypeOK, AgStable, AgMoves
  <1>4. AgTopicOK'
    BY <1>1 DEF AgTopicOK
  <1> QED
    BY <1>1, <1>3, <1>4, AgQuiet

-----------------------------------------------------------------------------
(* A reading enters the bus and moves from one place to the next.          *)

LEMMA AgReadMessageKeeps ==
  ASSUME AgInv, AgReadMessage
  PROVE  AgInv'
  <1> USE DEF AgInv
  <1>1. /\ agPos # AgNoPos /\ agPos < Len(agTopic) /\ agPos' = agPos + 1
        /\ UNCHANGED << agSent, agProducing, agTopic, agSub, agQueue, agHandled, agFrom, agSvc >>
    BY DEF AgReadMessage, agIn, agSvc
  <1>2. agPos \in Nat /\ Len(agTopic) \in Nat /\ Len(agTopic) <= AgReadings /\ AgReadings \in Nat
    BY AgCardinality, AgAssumption DEF AgTypeOK
  <1>3. agPos + 1 \in 1 .. Len(agTopic) /\ agPos + 1 # AgNoPos
    BY <1>1, <1>2 DEF AgNoPos
  <1>4. agTopic[agPos + 1] \in Nat
    BY <1>3 DEF AgTypeOK
  <1>5. PICK x \in Nat : x = agTopic[agPos + 1]
    BY <1>4
  <1> DEFINE New(e) == [event |-> e, reading |-> x, locked |-> FALSE]
  <1>6. agPublish' = agPublish \cup {New(e) : e \in AgEventSet}
    BY <1>5 DEF AgReadMessage
  <1>7. \A e \in AgEventSet : New(e) \in AgPublishes /\ New(e).event = e /\ New(e).reading = x
    BY <1>5 DEF AgPublishes
  <1>8. \A p \in agPublish' : p \in agPublish \/ \E e \in AgEventSet : p = New(e)
    BY <1>6
  <1>9. \A e \in AgEventSet : New(e) \in agPublish'
    BY <1>6
  <1>10. agPublish \subseteq agPublish'
    BY <1>6
  <1> HIDE DEF New
  <1>11. AgTypeOK'
    BY <1>1, <1>2, <1>7, <1>8 DEF AgTypeOK
  <1>12. AgStable /\ AgMoves /\ AgTopicOK'
    BY <1>1, <1>2, <1>3 DEF AgTypeOK, AgStable, AgMoves, AgTopicOK
  <1>13. ~AgWasRead(x)
    <2>1. SUFFICES ASSUME NEW i \in 1 .. agPos, agTopic[i] = x PROVE FALSE
      BY DEF AgWasRead
    <2>2. i \in 1 .. Len(agTopic) /\ i # agPos + 1
      BY <1>1, <1>2
    <2> QED
      BY <1>3, <1>5, <2>1, <2>2 DEF AgTopicOK, AgOnce
  <1>14. AgWasRead(x)'
    BY <1>1, <1>2, <1>3, <1>5 DEF AgWasRead, AgNoPos
  <1>15. AgPathOK'
    BY <1>1 DEF agSvc, AgPathOK, AgDistancesFormPath
  <1>16. ASSUME NEW e \in AgEventSet PROVE AgKeeps(e)
    <2>1. \A r : AgPublishing(e, r)' <=> AgPublishing(e, r) \/ r = x
      BY <1>7, <1>8, <1>9, <1>10 DEF AgPublishing
    <2>2. ~AgPlaced(e, x)
      BY <1>13 DEF AgKnownOK
    <2>3. AgAtMostOnce(e)
      BY DEF AgBusOK
    <2>4. \A p \in agPublish : p.event = e => p.reading # x
      BY <2>2 DEF AgPlaced, AgPublishing
    <2>5. \A p, o \in agPublish' : p.event = e /\ o.event = e /\ p.reading = o.reading => p = o
      BY <1>7, <1>8, <2>3, <2>4 DEF AgAtMostOnce
    <2>6. AgAtMostOnce(e)'
      BY <1>1, <2>1, <2>2, <2>3, <2>5 DEF AgAtMostOnce, AgPlaced
    <2>7. \A r : AgPlaced(e, r)' <=> AgPlaced(e, r) \/ r = x
      BY <1>1, <2>1 DEF AgPlaced
    <2>8. \A r : AgPlaced(e, r)' => AgPlaced(e, r) \/ AgWasRead(r)'
      BY <1>14, <2>7
    <2>9. \A r : r = agTopic[agPos'] => AgPlaced(e, r)'
      BY <1>1, <1>5, <2>7
    <2> QED
      BY <1>1, <2>6, <2>7, <2>8, <2>9 DEF AgKeeps, AgRuns
  <1> QED
    BY <1>11, <1>12, <1>15, <1>16, AgStep

\* Steps at one position: the log and the subscriptions are left alone.
AgAtPos == UNCHANGED << agSent, agProducing, agTopic, agPos, agSub, agFrom >>

LEMMA AgAtPosKeeps ==
  ASSUME AgInv, AgAtPos, AgTypeOK', AgPathOK',
         \A e \in AgEventSet :
           /\ AgAtMostOnce(e)'
           /\ \A r : AgPlaced(e, r)' => AgPlaced(e, r)
           /\ AgRuns(e) => \A r : AgPlaced(e, r) => AgPlaced(e, r)'
  PROVE  AgInv'
  <1> USE DEF AgInv, AgAtPos
  <1>1. AgStable /\ AgMoves /\ AgTopicOK'
    BY DEF AgTypeOK, AgStable, AgMoves, AgTopicOK
  <1>2. ASSUME NEW e \in AgEventSet PROVE AgKeeps(e)
    BY DEF AgKeeps, AgRuns
  <1> QED
    BY <1>1, <1>2, AgStep

LEMMA AgLookupKeeps ==
  ASSUME AgInv, NEW p \in agPublish, AgLookup(p)
  PROVE  AgInv'
  <1> USE DEF AgInv
  <1>1. AgAtPos /\ UNCHANGED << agQueue, agHandled, agSvc >>
    BY DEF AgAtPos, AgLookup, agIn, agSvc
  <1>2. PICK q : q = [p EXCEPT !.locked = TRUE]
    OBVIOUS
  <1>3. p \in AgPublishes
    BY DEF AgTypeOK
  <1>4. q \in AgPublishes /\ q.event = p.event /\ q.reading = p.reading
    BY <1>2, <1>3 DEF AgPublishes
  <1>5. \/ agSub[p.event] = "none" /\ agPublish' = agPublish \ {p}
        \/ agPublish' = (agPublish \ {p}) \cup {q}
    BY <1>2 DEF AgLookup
  <1>6. AgTypeOK'
    <2>1. agPublish' \subseteq AgPublishes
      BY <1>4, <1>5 DEF AgTypeOK
    <2> QED
      BY <1>1, <2>1 DEF AgTypeOK, AgAtPos
  <1>7. AgPathOK'
    BY <1>1 DEF agSvc, AgPathOK, AgDistancesFormPath
  <1>8. ASSUME NEW e \in AgEventSet
        PROVE  /\ AgAtMostOnce(e)'
               /\ \A r : AgPlaced(e, r)' => AgPlaced(e, r)
               /\ AgRuns(e) => \A r : AgPlaced(e, r) => AgPlaced(e, r)'
    <2>1. \A r : AgPublishing(e, r)' => AgPublishing(e, r)
      BY <1>4, <1>5 DEF AgPublishing
    <2>2. AgRuns(e) => \A r : AgPublishing(e, r) => AgPublishing(e, r)'
      BY <1>4, <1>5 DEF AgPublishing, AgRuns
    <2>3. AgAtMostOnce(e)
      BY DEF AgBusOK
    <2>4. \A o, s \in agPublish' : o.event = e /\ s.event = e /\ o.reading = s.reading => o = s
      BY <1>4, <1>5, <2>3 DEF AgAtMostOnce
    <2>5. AgAtMostOnce(e)'
      BY <1>1, <2>1, <2>3, <2>4 DEF AgAtMostOnce
    <2> QED
      BY <1>1, <2>1, <2>2, <2>5 DEF AgPlaced
  <1> QED
    BY <1>1, <1>6, <1>7, <1>8, AgAtPosKeeps

LEMMA AgSendKeeps ==
  ASSUME AgInv, NEW p \in agPublish, AgSend(p)
  PROVE  AgInv'
  <1> USE DEF AgInv
  <1>1. AgAtPos /\ UNCHANGED << agHandled, agSvc >>
    BY DEF AgAtPos, AgSend, agIn, agSvc
  <1>2. p \in AgPublishes
    BY DEF AgTypeOK
  <1>3. p.event \in AgEventSet /\ p.reading \in Nat
    BY <1>2 DEF AgPublishes
  <1>4. CASE UNCHANGED << agPublish, agQueue >>
    BY <1>1, <1>4, AgSameKeeps DEF AgSame, AgAtPos, AgTypeOK, AgRuns
  <1>5. CASE /\ agQueue' = [agQueue EXCEPT ![p.event] = Append(@, p.reading)]
             /\ agPublish' = agPublish \ {p}
    <2>1. PICK x \in Nat, d \in AgEventSet : x = p.reading /\ d = p.event
      BY <1>3
    <2>2. agQueue \in [AgEventSet -> Seq(Nat)] /\ Append(agQueue[d], x) \in Seq(Nat)
      BY AgAppendIn DEF AgTypeOK
    <2>3. /\ agQueue' \in [AgEventSet -> Seq(Nat)] /\ agQueue'[d] = Append(agQueue[d], x)
          /\ \A e \in AgEventSet : e # d => agQueue'[e] = agQueue[e]
      BY <1>5, <2>1, <2>2
    <2>4. AgTypeOK'
      BY <1>1, <1>5, <2>3 DEF AgTypeOK, AgAtPos
    <2>5. AgPathOK'
      BY <1>1 DEF agSvc, AgPathOK, AgDistancesFormPath
    <2>6. ASSUME NEW e \in AgEventSet
          PROVE  /\ AgAtMostOnce(e)'
                 /\ \A r : AgPlaced(e, r)' => AgPlaced(e, r)
                 /\ AgRuns(e) => \A r : AgPlaced(e, r) => AgPlaced(e, r)'
      <3>1. AgAtMostOnce(e)
        BY DEF AgBusOK
      <3>2. \A o, s \in agPublish' : o.event = e /\ s.event = e /\ o.reading = s.reading => o = s
        BY <1>5, <3>1 DEF AgAtMostOnce
      <3>3. CASE e # d
        <4>1. \A r : AgPublishing(e, r)' <=> AgPublishing(e, r)
          BY <1>5, <2>1, <3>3 DEF AgPublishing
        <4>2. agQueue'[e] = agQueue[e]
          BY <2>3, <3>3
        <4>3. AgAtMostOnce(e)'
          BY <1>1, <3>1, <3>2, <4>1, <4>2 DEF AgAtMostOnce
        <4> QED
          BY <1>1, <4>1, <4>2, <4>3 DEF AgPlaced
      <3>4. CASE e = d
        <4>1. AgPublishing(e, x) /\ ~AgIn(agQueue[e], x) /\ ~AgIn(agHandled[e], x)
          BY <2>1, <3>1, <3>4 DEF AgPublishing, AgAtMostOnce
        <4>2. \A r : AgPublishing(e, r)' <=> AgPublishing(e, r) /\ r # x
          BY <1>5, <2>1, <3>1, <3>4 DEF AgPublishing, AgAtMostOnce
        <4>3. agQueue[e] \in Seq(Nat)
          BY <2>2
        <4>4. /\ \A r : AgIn(agQueue'[e], r) <=> AgIn(agQueue[e], r) \/ r = x
              /\ AgOnce(agQueue'[e])
          <5>1. AgOnce(agQueue[e])
            BY <3>1 DEF AgAtMostOnce
          <5>2. /\ \A r : AgIn(Append(agQueue[e], x), r) <=> AgIn(agQueue[e], r) \/ r = x
                /\ AgOnce(Append(agQueue[e], x))
            BY <4>1, <4>3, <5>1, AgAppendIn
          <5>3. agQueue'[e] = Append(agQueue[e], x)
            BY <2>3, <3>4
          <5> QED
            BY <5>2, <5>3
        <4>5. AgAtMostOnce(e)'
          <5>1. AgOnce(agQueue'[e]) /\ AgOnce(agHandled'[e])
            BY <1>1, <3>1, <4>4 DEF AgAtMostOnce
          <5>2. ASSUME NEW r
                PROVE  /\ AgPublishing(e, r)' => ~AgIn(agQueue'[e], r) /\ ~AgIn(agHandled'[e], r)
                       /\ AgIn(agQueue'[e], r) => ~AgIn(agHandled'[e], r)
            BY <1>1, <3>1, <4>1, <4>2, <4>4 DEF AgAtMostOnce
          <5> QED
            BY <3>2, <5>1, <5>2 DEF AgAtMostOnce
        <4>6. \A r : AgPlaced(e, r)' <=> AgPlaced(e, r)
          BY <1>1, <4>1, <4>2, <4>4 DEF AgPlaced
        <4> QED
          BY <4>5, <4>6
      <3> QED
        BY <3>3, <3>4
    <2> QED
      BY <1>1, <2>4, <2>5, <2>6, AgAtPosKeeps
  <1> QED
    BY <1>4, <1>5 DEF AgSend, AgPanic

LEMMA AgEmpty ==
  ASSUME NEW s \in Seq(Nat)
  PROVE  s = << >> <=> Len(s) = 0
  OBVIOUS

LEMMA AgAppendAt ==
  ASSUME NEW s \in Seq(Nat), NEW x \in Nat, NEW n \in Nat, n = Len(s)
  PROVE  /\ Len(Append(s, x)) = n + 1 /\ Append(s, x) # << >> /\ Append(s, x)[n + 1] = x
         /\ \A i \in 1 .. n : Append(s, x)[i] = s[i]
  <1>1. Len(Append(s, x)) = n + 1 /\ Append(s, x)[n + 1] = x /\ \A i \in 1 .. n : Append(s, x)[i] = s[i]
    OBVIOUS
  <1>2. Append(s, x) \in Seq(Nat) /\ Len(Append(s, x)) # 0
    BY <1>1
  <1> QED
    BY <1>1, <1>2, AgEmpty

LEMMA AgAggregateKeeps ==
  ASSUME AgPathOK, agHandled \in [AgEventSet -> Seq(Nat)], NEW r \in Nat, AgAggregateDistance(r),
         agHandled' \in [AgEventSet -> Seq(Nat)],
         agHandled'[AgDistance] = Append(agHandled[AgDistance], r)
  PROVE  AgPathOK'
  <1>1. PICK h \in Seq(Nat), g \in Seq(Nat) :
          /\ h = agHandled[AgDistance] /\ g = agHandled'[AgDistance] /\ g = Append(h, r)
    <2>1. agHandled[AgDistance] \in Seq(Nat) /\ agHandled'[AgDistance] \in Seq(Nat)
      BY DEF AgEventSet
    <2> QED
      BY <2>1
  <1>2. PICK n \in Nat : n = Len(h) /\ n = Len(agStore)
    BY <1>1 DEF AgPathOK, AgDistancesFormPath
  <1>3. /\ agStore \in Seq(Nat \X Nat) /\ agInvoices \in Seq(Nat \X Nat) /\ agPoints \in Nat \X Nat
        /\ agPoints[1] = IF h = << >> THEN AgOrigin ELSE h[Len(h)]
    BY <1>1 DEF AgPathOK
  <1>4. PICK d \in Nat \X Nat : d = << r, agPoints[1] >> /\ d[1] = r
    <2>1. agPoints[1] \in Nat
      BY <1>3
    <2>2. << r, agPoints[1] >> \in Nat \X Nat /\ << r, agPoints[1] >>[1] = r
      BY <2>1
    <2> QED
      BY <2>2
  <1>5. agPoints' = d /\ agStore' = Append(agStore, d) /\ agInvoices' \in {agInvoices, Append(agInvoices, d)}
    BY <1>4 DEF AgAggregateDistance
  <1>6. /\ agStore' \in Seq(Nat \X Nat) /\ agInvoices' \in Seq(Nat \X Nat) /\ agPoints' \in Nat \X Nat
        /\ Len(agStore') = n + 1 /\ agStore'[n + 1] = d
        /\ \A i \in 1 .. n : agStore'[i] = agStore[i]
    <2>1. /\ Append(agStore, d) \in Seq(Nat \X Nat) /\ Append(agInvoices, d) \in Seq(Nat \X Nat)
          /\ Len(Append(agStore, d)) = n + 1 /\ Append(agStore, d)[n + 1] = d
          /\ \A i \in 1 .. n : Append(agStore, d)[i] = agStore[i]
      BY <1>2, <1>3
    <2> QED
      BY <1>3, <1>5, <2>1
  <1>7. Len(g) = n + 1 /\ g # << >> /\ g[n + 1] = r /\ \A i \in 1 .. n : g[i] = h[i]
    <2>1. n = Len(h)
      BY <1>2
    <2>2. /\ Len(Append(h, r)) = n + 1 /\ Append(h, r) # << >> /\ Append(h, r)[n + 1] = r
          /\ \A i \in 1 .. n : Append(h, r)[i] = h[i]
      BY ONLY <2>1, h \in Seq(Nat), r \in Nat, n \in Nat, AgAppendAt
    <2>3. g = Append(h, r)
      BY <1>1
    <2> QED
      BY <2>2, <2>3
  <1>8. agPoints'[1] = r
    BY <1>4, <1>5
  <1>9. DOMAIN agStore = 1 .. n /\ DOMAIN agStore' = 1 .. n + 1
    BY <1>2, <1>3, <1>6
  <1>10. \A i \in 1 .. n + 1 : i \in 1 .. n \/ i = n + 1
    OBVIOUS
  <1>11. \A i \in 1 .. n : agStore[i] = << h[i], IF i = 1 THEN AgOrigin ELSE h[i - 1] >>
    BY <1>1, <1>9 DEF AgPathOK, AgDistancesFormPath
  <1>12. ASSUME NEW i \in 1 .. n + 1
         PROVE  agStore'[i] = << g[i], IF i = 1 THEN AgOrigin ELSE g[i - 1] >>
    <2>1. CASE i \in 1 .. n
      <3>1. i # 1 => i - 1 \in 1 .. n
        BY <2>1
      <3> QED
        BY <1>6, <1>7, <1>11, <2>1, <3>1
    <2>2. CASE i = n + 1
      <3>1. CASE n = 0
        <4>1. h = << >>
          BY <1>2, <3>1, AgEmpty
        <4>2. d = << r, AgOrigin >> /\ i = 1 /\ agStore'[i] = d /\ g[i] = r
          BY <1>3, <1>4, <1>6, <1>7, <2>2, <3>1, <4>1
        <4> QED
          BY <4>2
      <3>2. CASE n # 0
        <4>1. h # << >> /\ n \in 1 .. n /\ i # 1 /\ i - 1 = n
          <5>1. h # << >>
            BY <1>2, <3>2, AgEmpty
          <5>2. n \in 1 .. n /\ i # 1 /\ i - 1 = n
            BY <2>2, <3>2
          <5> QED
            BY <5>1, <5>2
        <4>2. agPoints[1] = h[n] /\ g[n] = h[n]
          BY <1>2, <1>3, <1>7, <4>1
        <4>3. d = << r, g[i - 1] >> /\ agStore'[i] = d /\ g[i] = r
          BY <1>4, <1>6, <1>7, <2>2, <4>1, <4>2
        <4> QED
          BY <4>1, <4>3
      <3> QED
        BY <3>1, <3>2
    <2> QED
      BY <1>10, <2>1, <2>2
  <1>13. PICK m \in Nat : m = Len(agInvoices)
    BY <1>3
  <1>14. DOMAIN agInvoices = 1 .. m
    BY <1>3, <1>13
  <1>15. PICK f \in [1 .. m -> 1 .. n] :
           /\ \A i, j \in 1 .. m : i < j => f[i] < f[j]
           /\ \A i \in 1 .. m : agInvoices[i] = agStore[f[i]]
    BY <1>9, <1>14 DEF AgPathOK, AgDistancesFormPath
  <1>16. \E k \in [DOMAIN agInvoices' -> 1 .. n + 1] :
           /\ \A i, j \in DOMAIN agInvoices' : i < j => k[i] < k[j]
           /\ \A i \in DOMAIN agInvoices' : agInvoices'[i] = agStore'[k[i]]
    <2>1. CASE agInvoices' = agInvoices
      <3>1. f \in [1 .. m -> 1 .. n + 1] /\ \A i \in 1 .. m : agStore'[f[i]] = agStore[f[i]]
        <4>1. \A i \in 1 .. m : f[i] \in 1 .. n /\ f[i] \in 1 .. n + 1
          BY <1>15
        <4> QED
          BY <1>6, <1>15, <4>1
      <3>2. \A i \in 1 .. m : agInvoices'[i] = agStore'[f[i]]
        BY <1>15, <2>1, <3>1
      <3>3. DOMAIN agInvoices' = 1 .. m
        BY <1>14, <2>1
      <3> QED
        BY <1>15, <3>1, <3>2, <3>3
    <2>2. CASE agInvoices' = Append(agInvoices, d)
      <3>1. /\ DOMAIN agInvoices' = 1 .. m + 1 /\ agInvoices'[m + 1] = d
            /\ \A i \in 1 .. m : agInvoices'[i] = agInvoices[i]
        <4>1. /\ Append(agInvoices, d) \in Seq(Nat \X Nat) /\ Append(agInvoices, d)[m + 1] = d
              /\ Len(Append(agInvoices, d)) = m + 1
              /\ \A i \in 1 .. m : Append(agInvoices, d)[i] = agInvoices[i]
          BY <1>3, <1>13
        <4> QED
          BY <2>2, <4>1
      <3> DEFINE k == [i \in 1 .. m + 1 |-> IF i = m + 1 THEN n + 1 ELSE f[i]]
      <3>2. \A i \in 1 .. m + 1 : i \in 1 .. m \/ i = m + 1
        OBVIOUS
      <3>3. k \in [1 .. m + 1 -> 1 .. n + 1] /\ k[m + 1] = n + 1
            /\ \A i \in 1 .. m : k[i] = f[i] /\ f[i] \in 1 .. n
        <4>1. n + 1 \in 1 .. n + 1 /\ m + 1 \in 1 .. m + 1 /\ \A i \in 1 .. m : i # m + 1 /\ i \in 1 .. m + 1
          OBVIOUS
        <4>2. \A i \in 1 .. m : f[i] \in 1 .. n /\ f[i] \in 1 .. n + 1
          BY <1>15
        <4>3. k[m + 1] = n + 1 /\ \A i \in 1 .. m : k[i] = f[i]
          BY <4>1
        <4>4. \A i \in 1 .. m + 1 : (IF i = m + 1 THEN n + 1 ELSE f[i]) \in 1 .. n + 1
          BY <3>2, <4>1, <4>2
        <4>5. k \in [1 .. m + 1 -> 1 .. n + 1]
          BY <4>4
        <4> QED
          BY <4>2, <4>3, <4>5
      <3> HIDE DEF k
      <3>4. ASSUME NEW i \in 1 .. m + 1, NEW j \in 1 .. m + 1, i < j PROVE k[i] < k[j]
        <4>1. i \in 1 .. m
          BY <3>4
        <4>2. k[i] = f[i] /\ f[i] \in 1 .. n
          BY <3>3, <4>1
        <4>3. CASE j \in 1 .. m
          BY <1>15, <3>3, <3>4, <4>1, <4>2, <4>3
        <4>4. CASE j = m + 1
          BY <3>3, <4>2, <4>4
        <4> QED
          BY <3>2, <4>3, <4>4
      <3>5. ASSUME NEW i \in 1 .. m + 1 PROVE agInvoices'[i] = agStore'[k[i]]
        <4>1. CASE i \in 1 .. m
          BY <1>6, <1>15, <3>1, <3>3, <4>1
        <4>2. CASE i = m + 1
          BY <1>6, <3>1, <3>3, <4>2
        <4> QED
          BY <3>2, <4>1, <4>2
      <3> QED
        BY <3>1, <3>3, <3>4, <3>5
    <2> QED
      BY <1>5, <2>1, <2>2
  <1>17. AgDistancesFormPath'
    BY <1>1, <1>6, <1>7, <1>9, <1>12, <1>16 DEF AgDistancesFormPath, AgDistance, AgOrigin
  <1>18. agPoints'[1] = IF g = << >> THEN AgOrigin ELSE g[Len(g)]
    BY <1>7, <1>8
  <1> QED
    BY <1>1, <1>6, <1>17, <1>18 DEF AgPathOK, AgDistance, AgOrigin

LEMMA AgProcessEventKeeps ==
  ASSUME AgInv, NEW d \in AgEventSet, AgProcessEvent(d)
  PROVE  AgInv'
  <1> USE DEF AgInv
  <1>1. AgAtPos /\ agPublish' = agPublish /\ agQueue[d] # << >>
    BY DEF AgAtPos, AgProcessEvent, agIn
  <1>2. /\ agQueue \in [AgEventSet -> Seq(Nat)] /\ agHandled \in [AgEventSet -> Seq(Nat)]
        /\ agQueue[d] \in Seq(Nat) /\ agHandled[d] \in Seq(Nat)
    BY DEF AgTypeOK
  <1>3. Tail(agQueue[d]) \in Seq(Nat) /\ Head(agQueue[d]) \in Nat
    BY <1>1, <1>2, AgTailIn
  <1>4. PICK x \in Nat : x = Head(agQueue[d])
    BY <1>3
  <1>5. Append(agHandled[d], x) \in Seq(Nat)
    BY <1>2, AgAppendIn
  <1>6. /\ agQueue' \in [AgEventSet -> Seq(Nat)] /\ agQueue'[d] = Tail(agQueue[d])
        /\ \A e \in AgEventSet : e # d => agQueue'[e] = agQueue[e]
    BY <1>2, <1>3 DEF AgProcessEvent
  <1>7. /\ agHandled' \in [AgEventSet -> Seq(Nat)] /\ agHandled'[d] = Append(agHandled[d], x)
        /\ \A e \in AgEventSet : e # d => agHandled'[e] = agHandled[e]
    BY <1>2, <1>4, <1>5 DEF AgProcessEvent
  <1>8. AgTypeOK'
    BY <1>1, <1>6, <1>7 DEF AgTypeOK, AgAtPos
  <1>9. AgPathOK'
    <2>1. CASE d = AgDistance
      <3>1. AgAggregateDistance(x)
        BY <1>4, <2>1 DEF AgProcessEvent
      <3> QED
        BY <1>2, <1>7, <2>1, <3>1, AgAggregateKeeps
    <2>2. CASE d # AgDistance
      <3>1. UNCHANGED agSvc /\ agHandled'[AgDistance] = agHandled[AgDistance]
        BY <1>7, <2>2 DEF AgProcessEvent, AgEventSet
      <3> QED
        BY <3>1 DEF agSvc, AgPathOK, AgDistancesFormPath, AgDistance, AgOrigin
    <2> QED
      BY <2>1, <2>2
  <1>10. ASSUME NEW e \in AgEventSet
         PROVE  /\ AgAtMostOnce(e)'
                /\ \A r : AgPlaced(e, r)' => AgPlaced(e, r)
                /\ AgRuns(e) => \A r : AgPlaced(e, r) => AgPlaced(e, r)'
    <2>1. AgAtMostOnce(e)
      BY DEF AgBusOK
    <2>2. \A r : AgPublishing(e, r)' <=> AgPublishing(e, r)
      BY <1>1 DEF AgPublishing
    <2>3. CASE e # d
      <3>1. agQueue'[e] = agQueue[e] /\ agHandled'[e] = agHandled[e]
        BY <1>6, <1>7, <2>3
      <3>2. AgAtMostOnce(e)'
        BY <1>1, <2>1, <2>2, <3>1 DEF AgAtMostOnce
      <3> QED
        BY <2>2, <3>1, <3>2 DEF AgPlaced
    <2>4. CASE e = d
      <3>1. AgOnce(agQueue[d]) /\ AgOnce(agHandled[d])
        BY <2>1, <2>4 DEF AgAtMostOnce
      <3>2. /\ \A r : AgIn(agQueue[d], r) <=> r = x \/ AgIn(Tail(agQueue[d]), r)
            /\ AgOnce(Tail(agQueue[d])) /\ ~AgIn(Tail(agQueue[d]), x)
        BY <1>1, <1>2, <1>4, <3>1, AgTailIn
      <3>3. /\ \A r : AgIn(agQueue[e], r) <=> r = x \/ AgIn(agQueue'[e], r)
            /\ AgOnce(agQueue'[e]) /\ ~AgIn(agQueue'[e], x)
        BY <1>6, <2>4, <3>2
      <3>4. ~AgIn(agHandled[e], x)
        BY <2>1, <3>3 DEF AgAtMostOnce
      <3>5. /\ \A r : AgIn(Append(agHandled[d], x), r) <=> AgIn(agHandled[d], r) \/ r = x
            /\ AgOnce(Append(agHandled[d], x))
        BY <1>2, <2>4, <3>1, <3>4, AgAppendIn
      <3>6. /\ \A r : AgIn(agHandled'[e], r) <=> AgIn(agHandled[e], r) \/ r = x
            /\ AgOnce(agHandled'[e])
        BY <1>7, <2>4, <3>5
      <3>7. ASSUME NEW r
            PROVE  /\ AgPublishing(e, r)' => ~AgIn(agQueue'[e], r) /\ ~AgIn(agHandled'[e], r)
                   /\ AgIn(agQueue'[e], r) => ~AgIn(agHandled'[e], r)
        BY <2>1, <2>2, <3>3, <3>4, <3>6 DEF AgAtMostOnce
      <3>8. \A o, s \in agPublish' : o.event = e /\ s.event = e /\ o.reading = s.reading => o = s
        BY <1>1, <2>1 DEF AgAtMostOnce
      <3>9. AgAtMostOnce(e)'
        BY <3>3, <3>6, <3>7, <3>8 DEF AgAtMostOnce
      <3>10. \A r : AgPlaced(e, r)' <=> AgPlaced(e, r)
        BY <2>2, <3>3, <3>6 DEF AgPlaced
      <3> QED
        BY <3>9, <3>10
    <2> QED
      BY <2>3, <2>4
  <1> QED
    BY <1>1, <1>8, <1>9, <1>10, AgAtPosKeeps

-----------------------------------------------------------------------------
AgNextOrStutter == AgNext \/ UNCHANGED agVars

LEMMA AgNextKeeps ==
  ASSUME AgInv, [AgNext]_agVars
  PROVE  AgInv'
  <1>1. AgNextOrStutter
    BY DEF AgNextOrStutter
  <1>2. CASE AgAcceptWS
    BY <1>2, AgAcceptWSKeeps
  <1>3. CASE \/ AgInitializeTopic \/ AgStartFails \/ AgTopicReady \/ AgConnect \/ AgReadLoopExit
             \/ UNCHANGED agVars
    BY <1>3, AgIdleKeeps
  <1>4. CASE AgAssigned
    BY <1>4, AgAssignedKeeps
  <1>5. CASE AgReadMessage
    BY <1>5, AgReadMessageKeeps
  <1>6. CASE AgClose
    BY <1>6, AgCloseKeeps
  <1>7. CASE \E r \in 1 .. AgReadings : AgProduceData(r)
    BY <1>7, AgProduceDataKeeps
  <1>8. CASE \E i \in DOMAIN AgEvents : AgSubscribe(i)
    BY <1>8, AgSubscribeKeeps
  <1>9. CASE \E p \in agPublish : AgLookup(p) \/ AgSend(p)
    BY <1>9, AgLookupKeeps, AgSendKeeps
  <1>10. CASE \E e \in AgEventSet : AgProcessEvent(e) \/ AgDone(e)
    BY <1>10, AgProcessEventKeeps, AgDoneKeeps
  <1> QED
    BY <1>1, <1>2, <1>3, <1>4, <1>5, <1>6, <1>7, <1>8, <1>9, <1>10 DEF AgNextOrStutter, AgNext

LEMMA AgInitKeeps ==
  ASSUME AgInit({"start"})
  PROVE  AgInv
  <1> USE DEF AgInit
  <1>1. << >> \in Seq(Nat) /\ Len(<< >>) = 0 /\ << >> \in Seq(Nat \X Nat) /\ DOMAIN << >> = {}
    OBVIOUS
  <1>2. AgTypeOK
    BY <1>1, AgAssumption DEF AgTypeOK, AgNoPos
  <1>3. AgTopicOK
    BY <1>1, FS_EmptySet DEF AgTopicOK, AgOnce
  <1>4. \A e \in AgEventSet : \A r : ~AgPlaced(e, r)
    BY <1>1 DEF AgPlaced, AgPublishing, AgIn
  <1>5. AgKnownOK /\ AgBusOK
    BY <1>1, <1>4 DEF AgKnownOK, AgBusOK, AgAtMostOnce, AgAtLeastOnce, AgOnce, AgIn, AgPublishing
  <1>6. AgPathOK
    <2>1. agHandled[AgDistance] = << >> /\ agStore = << >> /\ agInvoices = << >>
      BY DEF AgEventSet
    <2>2. agPoints \in Nat \X Nat /\ agPoints[1] = AgOrigin
      BY DEF AgOrigin
    <2>3. \E f \in [DOMAIN agInvoices -> DOMAIN agStore] : TRUE
      <3>1. [i \in {} |-> i] \in [{} -> {}]
        OBVIOUS
      <3> QED
        BY <1>1, <2>1, <3>1
    <2>4. AgDistancesFormPath
      BY <1>1, <2>1, <2>3 DEF AgDistancesFormPath
    <2> QED
      BY <1>1, <2>1, <2>2, <2>4 DEF AgPathOK
  <1> QED
    BY <1>2, <1>3, <1>5, <1>6 DEF AgInv

\* Every state of the aggregator satisfies the invariant: readings are produced and
\* read once (AcceptWSLoop, ReadMessageLoop), each is in one place of the bus
\* (Publish, processEvent), and the points of AggregateDistance form a path.
THEOREM AggregatorInvariant == AgSpec => []AgInv
  <1>1. AgInit({"start"}) => AgInv
    BY AgInitKeeps
  <1>2. AgInv /\ [AgNext]_agVars => AgInv'
    BY AgNextKeeps
  <1> QED
    BY <1>1, <1>2, PTL DEF AgSpec

\* AggregateDistance stores the distances of one path from the origin through the
\* readings in the order processEvent hands them over, and SaveInvoice is called
\* for a subsequence of them, whatever readings are lost or reordered on the way.
THEOREM DistancesFormPath == AgSpec => []AgDistancesFormPath
  <1>1. AgInv => AgDistancesFormPath
    BY DEF AgInv, AgPathOK
  <1> QED
    BY <1>1, AggregatorInvariant, PTL

LEMMA AgCount ==
  ASSUME NEW s \in Seq(Nat), NEW r, AgOnce(s)
  PROVE  Cardinality({j \in DOMAIN s : s[j] = r}) = IF AgIn(s, r) THEN 1 ELSE 0
  <1>1. DOMAIN s = 1 .. Len(s)
    OBVIOUS
  <1>2. CASE AgIn(s, r)
    <2>1. PICK i \in 1 .. Len(s) : s[i] = r
      BY <1>2 DEF AgIn
    <2>2. {j \in DOMAIN s : s[j] = r} = {i}
      BY <1>1, <2>1 DEF AgOnce
    <2> QED
      BY <1>2, <2>2, FS_Singleton
  <1>3. CASE ~AgIn(s, r)
    <2>1. {j \in DOMAIN s : s[j] = r} = {}
      BY <1>1, <1>3 DEF AgIn
    <2> QED
      BY <1>3, <2>1, FS_EmptySet
  <1> QED
    BY <1>2, <1>3

LEMMA AgCountPublish ==
  ASSUME NEW e, NEW r, AgAtMostOnce(e)
  PROVE  Cardinality({p \in agPublish : p.event = e /\ p.reading = r})
           = IF AgPublishing(e, r) THEN 1 ELSE 0
  <1>1. CASE AgPublishing(e, r)
    <2>1. PICK p \in agPublish : p.event = e /\ p.reading = r
      BY <1>1 DEF AgPublishing
    <2>2. {o \in agPublish : o.event = e /\ o.reading = r} = {p}
      BY <2>1 DEF AgAtMostOnce
    <2> QED
      BY <1>1, <2>2, FS_Singleton
  <1>2. CASE ~AgPublishing(e, r)
    <2>1. {p \in agPublish : p.event = e /\ p.reading = r} = {}
      BY <1>2 DEF AgPublishing
    <2> QED
      BY <1>2, <2>1, FS_EmptySet
  <1> QED
    BY <1>1, <1>2

\* A reading that ReadMessageLoop reads after an event was subscribed is never lost
\* and never duplicated on its way through Publish, dataCH and processEvent, for any
\* number of readings and any capacity of dataCH.
THEOREM NoReadingLost == AgSpec => []AgNoneLost
  <1>1. ASSUME AgInv PROVE AgNoneLost
    <2>1. SUFFICES ASSUME NEW e \in AgEventSet, AgRuns(e), agPos # AgNoPos,
                          NEW i \in (agFrom[e] + 1) .. agPos, NEW r, r = agTopic[i]
                   PROVE  Cardinality({p \in agPublish : p.event = e /\ p.reading = r})
                            + Cardinality({j \in DOMAIN agQueue[e] : agQueue[e][j] = r})
                            + Cardinality({j \in DOMAIN agHandled[e] : agHandled[e][j] = r}) = 1
      BY DEF AgNoneLost, AgRuns
    <2>2. AgAtMostOnce(e) /\ AgAtLeastOnce(e)
      BY <1>1 DEF AgInv, AgBusOK
    <2>3. AgPublishing(e, r) \/ AgIn(agQueue[e], r) \/ AgIn(agHandled[e], r)
      BY <2>1, <2>2 DEF AgAtLeastOnce, AgPlaced
    <2>4. /\ AgPublishing(e, r) => ~AgIn(agQueue[e], r) /\ ~AgIn(agHandled[e], r)
          /\ AgIn(agQueue[e], r) => ~AgIn(agHandled[e], r)
          /\ AgOnce(agQueue[e]) /\ AgOnce(agHandled[e])
      BY <2>2 DEF AgAtMostOnce
    <2>5. agQueue[e] \in Seq(Nat) /\ agHandled[e] \in Seq(Nat)
      BY <1>1 DEF AgInv, AgTypeOK
    <2>6. /\ Cardinality({p \in agPublish : p.event = e /\ p.reading = r})
               = IF AgPublishing(e, r) THEN 1 ELSE 0
          /\ Cardinality({j \in DOMAIN agQueue[e] : agQueue[e][j] = r})
               = IF AgIn(agQueue[e], r) THEN 1 ELSE 0
          /\ Cardinality({j \in DOMAIN agHandled[e] : agHandled[e][j] = r})
               = IF AgIn(agHandled[e], r) THEN 1 ELSE 0
      BY <2>2, <2>4, <2>5, AgCount, AgCountPublish
    <2> QED
      BY <2>3, <2>4, <2>6
  <1> QED
    BY <1>1, AggregatorInvariant, PTL

-----------------------------------------------------------------------------
(***************************************************************************)
(* The upload of a file                                                    *)
(***************************************************************************)
FuChunks == FuUploads \X Nat
FuHole == << "hole" >>
FuCells == FuChunks \cup {FuHole}

FuTypeOK ==
  /\ fuFile \in [FuUploads -> Seq(FuChunks)]
  /\ fuSender \in [FuUploads -> {"idle", "sending", "waiting", "match", "mismatch", "failed"}]
  /\ fuSent \in [FuUploads -> Nat] /\ fuOffset \in [FuUploads -> Nat]
  /\ fuStream \in [FuUploads -> Seq(FuChunks \cup {FuEOF})]
  /\ fuHandler \in [FuUploads -> {"recv", "done", "failed"}]
  /\ fuPath \in [FuUploads -> FuStamps \cup {FuNoPath}]
  /\ fuDisk \in [FuStamps -> Seq(FuCells)] /\ fuCreated \in [FuStamps -> SUBSET FuUploads]

\* While the handler receives, the stream holds what it has not yet written of what
\* was sent, and the end of the file once the sender waits for the answer.
FuStreamOK(u) ==
  fuHandler[u] = "recv" =>
    /\ fuSender[u] \in {"idle", "sending", "waiting"}
    /\ fuOffset[u] <= fuSent[u] /\ fuSent[u] <= Len(fuFile[u])
    /\ \A i \in 1 .. (fuSent[u] - fuOffset[u]) : fuStream[u][i] = fuFile[u][fuOffset[u] + i]
    /\ fuSender[u] # "waiting" => Len(fuStream[u]) = fuSent[u] - fuOffset[u]
    /\ fuSender[u] = "waiting" =>
         /\ fuSent[u] = Len(fuFile[u]) /\ Len(fuStream[u]) = fuSent[u] - fuOffset[u] + 1
         /\ fuStream[u][fuSent[u] - fuOffset[u] + 1] = FuEOF

\* The handler answers when it has the whole file.
FuAnswerOK(u) ==
  /\ fuOffset[u] <= Len(fuFile[u])
  /\ fuHandler[u] = "done" => fuOffset[u] = Len(fuFile[u])
  /\ fuSender[u] = "match" => fuHandler[u] = "done"

FuPrefix(f, n) == [i \in 1 .. n |-> f[i]]

\* A path that no other upload has got holds what its upload has written.
FuDiskOK(u) ==
  /\ fuPath[u] = FuNoPath <=> fuOffset[u] = 0
  /\ fuPath[u] # FuNoPath =>
       /\ u \in fuCreated[fuPath[u]]
       /\ fuCreated[fuPath[u]] = {u} => fuDisk[fuPath[u]] = FuPrefix(fuFile[u], fuOffset[u])

FuInv ==
  /\ FuTypeOK
  /\ \A u \in FuUploads : FuStreamOK(u) /\ FuAnswerOK(u) /\ FuDiskOK(u)

LEMMA FuEOFisNoChunk == FuEOF \notin FuChunks
  <1>1. \A c \in FuChunks : DOMAIN c = 1 .. 2
    BY DEF FuChunks
  <1>2. DOMAIN FuEOF = 1 .. 1
    BY DEF FuEOF
  <1>3. 1 .. 1 # 1 .. 2
    <2>1. 2 \in 1 .. 2 /\ 2 \notin 1 .. 1
      OBVIOUS
    <2> QED
      BY <2>1
  <1> QED
    BY <1>1, <1>2, <1>3

LEMMA FuPrefixFacts ==
  ASSUME NEW f \in Seq(FuChunks), NEW n \in Nat, n <= Len(f)
  PROVE  /\ FuPrefix(f, n) \in Seq(FuChunks) /\ Len(FuPrefix(f, n)) = n
         /\ \A i \in 1 .. n : FuPrefix(f, n)[i] = f[i]
         /\ n = Len(f) => FuPrefix(f, n) = f
  <1>1. \A i \in 1 .. n : f[i] \in FuChunks
    <2>1. \A i \in 1 .. n : i \in 1 .. Len(f)
      OBVIOUS
    <2> QED
      BY <2>1
  <1>2. [i \in 1 .. n |-> f[i]] \in Seq(FuChunks) /\ Len([i \in 1 .. n |-> f[i]]) = n
    BY <1>1
  <1>3. n = Len(f) => [i \in 1 .. n |-> f[i]] = f
    OBVIOUS
  <1> QED
    BY <1>2, <1>3 DEF FuPrefix

\* A Write at the end of what is stored stores one more chunk.
LEMMA FuWriteNext ==
  ASSUME NEW f \in Seq(FuChunks), NEW n \in Nat, n < Len(f)
  PROVE  FuWrite(FuPrefix(f, n), n, f[n + 1]) = FuPrefix(f, n + 1)
  <1>1. Len(FuPrefix(f, n)) = n /\ \A i \in 1 .. n : FuPrefix(f, n)[i] = f[i]
    BY FuPrefixFacts
  <1>2. PICK g : g = FuPrefix(f, n)
    OBVIOUS
  <1>3. FuWrite(g, n, f[n + 1]) =
          [i \in 1 .. n + 1 |-> IF i = n + 1 THEN f[n + 1] ELSE IF i <= n THEN g[i] ELSE FuHole]
    BY <1>1, <1>2 DEF FuWrite, FuHole
  <1>4. \A i \in 1 .. n + 1 : (IF i = n + 1 THEN f[n + 1] ELSE IF i <= n THEN g[i] ELSE FuHole) = f[i]
    BY <1>1, <1>2
  <1>5. [i \in 1 .. n + 1 |-> IF i = n + 1 THEN f[n + 1] ELSE IF i <= n THEN g[i] ELSE FuHole]
          = [i \in 1 .. n + 1 |-> f[i]]
    BY <1>4
  <1> QED
    BY <1>2, <1>3, <1>5 DEF FuPrefix

LEMMA FuWriteType ==
  ASSUME NEW f \in Seq(FuCells), NEW n \in Nat, NEW c \in FuCells
  PROVE  FuWrite(f, n, c) \in Seq(FuCells)
  <1>1. PICK m \in Nat : m = IF Len(f) > n THEN Len(f) ELSE n + 1
    OBVIOUS
  <1>2. FuHole \in FuCells
    BY DEF FuCells
  <1>3. \A i \in 1 .. m : (IF i = n + 1 THEN c ELSE IF i <= Len(f) THEN f[i] ELSE FuHole) \in FuCells
    BY <1>2
  <1>4. [i \in 1 .. m |-> IF i = n + 1 THEN c ELSE IF i <= Len(f) THEN f[i] ELSE FuHole] \in Seq(FuCells)
    BY <1>3
  <1> QED
    BY <1>1, <1>4 DEF FuWrite, FuHole

\* What the handler receives next: the next chunk of the file, or the end of it.
LEMMA FuHeadFacts ==
  ASSUME FuInv, NEW u \in FuUploads, FuReceived(u)
  PROVE  /\ Head(fuStream[u]) = fuStream[u][1] /\ Tail(fuStream[u]) \in Seq(FuChunks \cup {FuEOF})
         /\ Head(fuStream[u]) = FuEOF => fuSent[u] = fuOffset[u] /\ fuSent[u] = Len(fuFile[u])
         /\ Head(fuStream[u]) # FuEOF =>
              /\ fuOffset[u] < fuSent[u] /\ Head(fuStream[u]) = fuFile[u][fuOffset[u] + 1]
              /\ Head(fuStream[u]) \in FuChunks
  <1>1. PICK s \in Seq(FuChunks \cup {FuEOF}), f \in Seq(FuChunks), k \in Nat, n \in Nat :
          s = fuStream[u] /\ f = fuFile[u] /\ k = fuOffset[u] /\ n = fuSent[u]
    BY DEF FuInv, FuTypeOK
  <1>2. /\ s # << >> /\ k <= n /\ n <= Len(f) /\ \A i \in 1 .. (n - k) : s[i] = f[k + i]
        /\ (fuSender[u] # "waiting" => Len(s) = n - k)
        /\ (fuSender[u] = "waiting" => n = Len(f) /\ s[n - k + 1] = FuEOF)
    BY <1>1 DEF FuInv, FuStreamOK, FuReceived
  <1>3. Head(s) = s[1] /\ Tail(s) \in Seq(FuChunks \cup {FuEOF}) /\ Len(s) # 0
    BY <1>2
  <1>4. k < n => s[1] = f[k + 1] /\ f[k + 1] \in FuChunks
    BY <1>2
  <1>5. k = n => fuSender[u] = "waiting"
    BY <1>2, <1>3
  <1>6. k = n => s[1] = FuEOF /\ n = Len(f)
    BY <1>2, <1>5
  <1>7. k < n \/ k = n
    BY <1>2
  <1> QED
    BY <1>1, <1>3, <1>4, <1>6, <1>7, FuEOFisNoChunk

-----------------------------------------------------------------------------
\* A step of upload u leaves the other uploads alone, but for a path it may take.
FuOnly(u) ==
  /\ fuFile' = fuFile
  /\ \A w \in FuUploads \ {u} :
       /\ fuSender'[w] = fuSender[w] /\ fuSent'[w] = fuSent[w] /\ fuStream'[w] = fuStream[w]
       /\ fuHandler'[w] = fuHandler[w] /\ fuPath'[w] = fuPath[w] /\ fuOffset'[w] = fuOffset[w]
       /\ fuPath[w] # FuNoPath =>
            /\ fuCreated[fuPath[w]] \subseteq fuCreated'[fuPath[w]]
            /\ fuCreated'[fuPath[w]] = {w} => /\ fuDisk'[fuPath[w]] = fuDisk[fuPath[w]]
                                              /\ fuCreated[fuPath[w]] = {w}

LEMMA FuStep ==
  ASSUME FuInv, NEW u \in FuUploads, FuTypeOK', FuOnly(u),
         FuStreamOK(u)', FuAnswerOK(u)', FuDiskOK(u)'
  PROVE  FuInv'
  <1>1. ASSUME NEW w \in FuUploads, w # u PROVE FuStreamOK(w)' /\ FuAnswerOK(w)' /\ FuDiskOK(w)'
    <2>1. FuStreamOK(w) /\ FuAnswerOK(w) /\ FuDiskOK(w)
      BY DEF FuInv
    <2>2. /\ fuFile' = fuFile /\ fuSender'[w] = fuSender[w] /\ fuSent'[w] = fuSent[w]
          /\ fuStream'[w] = fuStream[w] /\ fuHandler'[w] = fuHandler[w]
          /\ fuPath'[w] = fuPath[w] /\ fuOffset'[w] = fuOffset[w]
      BY <1>1 DEF FuOnly
    <2>3. FuStreamOK(w)'
      BY <2>1, <2>2 DEF FuStreamOK
    <2>4. FuAnswerOK(w)'
      BY <2>1, <2>2 DEF FuAnswerOK
    <2>5. PICK p : p = fuPath[w] /\ p = fuPath'[w]
      BY <2>2
    <2>6. p # FuNoPath =>
            /\ fuCreated[p] \subseteq fuCreated'[p]
            /\ fuCreated'[p] = {w} => fuDisk'[p] = fuDisk[p] /\ fuCreated[p] = {w}
      BY <1>1, <2>5 DEF FuOnly
    <2>7. FuDiskOK(w)'
      BY <2>1, <2>2, <2>5, <2>6 DEF FuDiskOK, FuNoPath, FuPrefix
    <2> QED
      BY <2>3, <2>4, <2>7
  <1> QED
    BY <1>1 DEF FuInv

\* The sender's steps: what is stored does not change.
LEMMA FuSenderKeeps ==
  ASSUME FuInv, NEW u \in FuUploads, UNCHANGED << fuFile, fuSrv >>, FuTypeOK',
         \A w \in FuUploads \ {u} :
           fuSender'[w] = fuSender[w] /\ fuSent'[w] = fuSent[w] /\ fuStream'[w] = fuStream[w],
         FuStreamOK(u)', fuSender'[u] = "match" => fuHandler[u] = "done"
  PROVE  FuInv'
  <1>1. FuOnly(u)
    BY DEF FuOnly, fuSrv
  <1>2. FuAnswerOK(u) /\ FuDiskOK(u)
    BY DEF FuInv
  <1>3. FuAnswerOK(u)' /\ FuDiskOK(u)'
    BY <1>2 DEF FuAnswerOK, FuDiskOK, FuNoPath, FuPrefix, fuSrv
  <1> QED
    BY <1>1, <1>3, FuStep

LEMMA FuSenderMoves ==
  ASSUME FuInv, NEW u \in FuUploads, FuOpen(u) \/ FuSendFails(u) \/ FuCloseAndRecv(u)
  PROVE  FuInv'
  <1>1. PICK t \in {"sending", "match", "mismatch", "failed"} :
          /\ fuSender' = [fuSender EXCEPT ![u] = t]
          /\ t = "match" => fuHandler[u] = "done"
          /\ t = "sending" => fuSender[u] = "idle"
          /\ t # "sending" => fuHandler[u] # "recv"
    BY DEF FuOpen, FuSendFails, FuCloseAndRecv
  <1>2. UNCHANGED << fuFile, fuSrv, fuSent, fuStream >>
    BY DEF FuOpen, FuSendFails, FuCloseAndRecv
  <1>3. FuTypeOK'
    BY <1>1, <1>2 DEF FuInv, FuTypeOK, fuSrv
  <1>4. /\ fuSender'[u] = t
        /\ \A w \in FuUploads \ {u} :
             fuSender'[w] = fuSender[w] /\ fuSent'[w] = fuSent[w] /\ fuStream'[w] = fuStream[w]
    BY <1>1, <1>2 DEF FuInv, FuTypeOK
  <1>5. FuStreamOK(u)'
    BY <1>1, <1>2, <1>4 DEF FuInv, FuStreamOK, fuSrv
  <1> QED
    BY <1>1, <1>2, <1>3, <1>4, <1>5, FuSenderKeeps

\* The stream, the file and the counters of one upload, as rigid values.
LEMMA FuValues ==
  ASSUME FuInv, NEW u \in FuUploads
  PROVE  \E s \in Seq(FuChunks \cup {FuEOF}), f \in Seq(FuChunks), k \in Nat, n \in Nat, m \in Nat :
           s = fuStream[u] /\ f = fuFile[u] /\ k = fuOffset[u] /\ n = fuSent[u] /\ m = Len(s)
  <1>1. /\ fuStream[u] \in Seq(FuChunks \cup {FuEOF}) /\ fuFile[u] \in Seq(FuChunks)
        /\ fuOffset[u] \in Nat /\ fuSent[u] \in Nat
    BY DEF FuInv, FuTypeOK
  <1>2. Len(fuStream[u]) \in Nat
    BY <1>1
  <1> QED
    BY <1>1, <1>2

LEMMA FuSendChunkKeeps ==
  ASSUME FuInv, NEW u \in FuUploads, FuSendChunk(u)
  PROVE  FuInv'
  <1>1. PICK s \in Seq(FuChunks \cup {FuEOF}), f \in Seq(FuChunks), k \in Nat, n \in Nat, m \in Nat :
          s = fuStream[u] /\ f = fuFile[u] /\ k = fuOffset[u] /\ n = fuSent[u] /\ m = Len(s)
    BY FuValues
  <1>2. fuSender[u] = "sending" /\ n < Len(f) /\ fuHandler[u] = "recv"
    BY <1>1 DEF FuSendChunk
  <1>3. k <= n /\ m = n - k /\ \A i \in 1 .. m : s[i] = f[k + i]
    BY <1>1, <1>2 DEF FuInv, FuStreamOK
  <1>4. n + 1 \in 1 .. Len(f)
    BY <1>2
  <1>5. f[n + 1] \in FuChunks \cup {FuEOF}
    BY <1>4
  <1>6. PICK c \in FuChunks \cup {FuEOF} : c = f[n + 1]
    BY <1>5
  <1>7. /\ Append(s, c) \in Seq(FuChunks \cup {FuEOF}) /\ Len(Append(s, c)) = m + 1
        /\ Append(s, c)[m + 1] = c /\ \A i \in 1 .. m : Append(s, c)[i] = s[i]
    BY <1>1
  <1>8. /\ fuStream' = [fuStream EXCEPT ![u] = Append(s, c)] /\ fuSent' = [fuSent EXCEPT ![u] = n + 1]
        /\ UNCHANGED << fuFile, fuSender, fuSrv >>
    BY <1>1, <1>6 DEF FuSendChunk
  <1>9. FuTypeOK'
    BY <1>7, <1>8 DEF FuInv, FuTypeOK, fuSrv
  <1>10. /\ fuStream'[u] = Append(s, c) /\ fuSent'[u] = n + 1
         /\ \A w \in FuUploads \ {u} :
              fuSender'[w] = fuSender[w] /\ fuSent'[w] = fuSent[w] /\ fuStream'[w] = fuStream[w]
    BY <1>8 DEF FuInv, FuTypeOK
  <1>11. m + 1 = n + 1 - k /\ k + (m + 1) = n + 1 /\ k <= n + 1 /\ n + 1 <= Len(f)
    BY <1>2, <1>3
  <1>12. ASSUME NEW i \in 1 .. m + 1 PROVE Append(s, c)[i] = f[k + i]
    <2>1. CASE i \in 1 .. m
      BY <1>3, <1>7, <2>1
    <2>2. CASE i = m + 1
      BY <1>6, <1>7, <1>11, <2>2
    <2>3. i \in 1 .. m \/ i = m + 1
      BY <1>12
    <2> QED
      BY <2>1, <2>2, <2>3
  <1>13. fuOffset'[u] = k /\ fuFile'[u] = f /\ fuSender'[u] = "sending"
    BY <1>1, <1>2, <1>8 DEF fuSrv
  <1>14. \A i \in 1 .. (n + 1 - k) : Append(s, c)[i] = f[k + i]
    BY <1>11, <1>12
  <1>15. FuStreamOK(u)'
    <2>1. Len(fuStream'[u]) = n + 1 - k
      BY <1>7, <1>10, <1>11
    <2>2. \A i \in 1 .. (n + 1 - k) : fuStream'[u][i] = f[k + i]
      BY <1>10, <1>14
    <2> QED
      BY <1>10, <1>11, <1>13, <2>1, <2>2 DEF FuStreamOK
  <1> QED
    BY <1>8, <1>9, <1>10, <1>13, <1>15, FuSenderKeeps

LEMMA FuCloseSendKeeps ==
  ASSUME FuInv, NEW u \in FuUploads, FuCloseSend(u)
  PROVE  FuInv'
  <1>1. PICK s \in Seq(FuChunks \cup {FuEOF}), f \in Seq(FuChunks), k \in Nat, n \in Nat, m \in Nat :
          s = fuStream[u] /\ f = fuFile[u] /\ k = fuOffset[u] /\ n = fuSent[u] /\ m = Len(s)
    BY FuValues
  <1>2. fuSender[u] = "sending" /\ n = Len(f) /\ fuHandler[u] = "recv"
    BY <1>1 DEF FuCloseSend
  <1>3. k <= n /\ m = n - k /\ \A i \in 1 .. (n - k) : s[i] = f[k + i]
    BY <1>1, <1>2 DEF FuInv, FuStreamOK
  <1>4. PICK c \in FuChunks \cup {FuEOF} : c = FuEOF
    OBVIOUS
  <1>5. /\ Append(s, c) \in Seq(FuChunks \cup {FuEOF}) /\ Len(Append(s, c)) = m + 1
        /\ Append(s, c)[m + 1] = c /\ \A i \in 1 .. m : Append(s, c)[i] = s[i]
    BY <1>1
  <1>6. /\ fuStream' = [fuStream EXCEPT ![u] = Append(s, c)]
        /\ fuSender' = [fuSender EXCEPT ![u] = "waiting"] /\ UNCHANGED << fuFile, fuSent, fuSrv >>
    BY <1>1, <1>4 DEF FuCloseSend
  <1>7. FuTypeOK'
    BY <1>5, <1>6 DEF FuInv, FuTypeOK, fuSrv
  <1>8. /\ fuStream'[u] = Append(s, c) /\ fuSent'[u] = n /\ fuSender'[u] = "waiting"
        /\ \A w \in FuUploads \ {u} :
             fuSender'[w] = fuSender[w] /\ fuSent'[w] = fuSent[w] /\ fuStream'[w] = fuStream[w]
    BY <1>1, <1>6 DEF FuInv, FuTypeOK
  <1>9. fuOffset'[u] = k /\ fuFile'[u] = f
    BY <1>1, <1>6 DEF fuSrv
  <1>10. \A i \in 1 .. (n - k) : Append(s, c)[i] = f[k + i]
    BY <1>3, <1>5
  <1>11. Append(s, c)[n - k + 1] = FuEOF /\ Len(Append(s, c)) = n - k + 1
    BY <1>3, <1>4, <1>5
  <1>12. FuStreamOK(u)'
    BY <1>2, <1>3, <1>8, <1>9, <1>10, <1>11 DEF FuStreamOK, FuEOF
  <1> QED
    BY <1>6, <1>7, <1>8, <1>12, FuSenderKeeps

\* The handler takes the next chunk from the stream.
FuTakes(u) ==
  /\ FuReceived(u) /\ Head(fuStream[u]) # FuEOF /\ FuNextChunk(u)
  /\ fuOffset' = [fuOffset EXCEPT ![u] = fuOffset[u] + 1]
  /\ UNCHANGED << fuFile, fuSender, fuSent, fuHandler >>

LEMMA FuTakesKeeps ==
  ASSUME FuInv, NEW u \in FuUploads, FuTakes(u)
  PROVE  /\ FuStreamOK(u)' /\ FuAnswerOK(u)'
         /\ fuStream' \in [FuUploads -> Seq(FuChunks \cup {FuEOF})] /\ fuOffset' \in [FuUploads -> Nat]
         /\ fuOffset'[u] = fuOffset[u] + 1
         /\ \A w \in FuUploads \ {u} : fuStream'[w] = fuStream[w] /\ fuOffset'[w] = fuOffset[w]
  <1>1. PICK s \in Seq(FuChunks \cup {FuEOF}), f \in Seq(FuChunks), k \in Nat, n \in Nat, m \in Nat :
          s = fuStream[u] /\ f = fuFile[u] /\ k = fuOffset[u] /\ n = fuSent[u] /\ m = Len(s)
    BY FuValues
  <1>2. fuHandler[u] = "recv" /\ s # << >> /\ Head(s) # FuEOF
    BY <1>1 DEF FuTakes, FuReceived
  <1>3. k < n
    BY <1>1, FuHeadFacts DEF FuTakes
  <1>4. /\ fuSender[u] \in {"idle", "sending", "waiting"} /\ n <= Len(f)
        /\ \A i \in 1 .. (n - k) : s[i] = f[k + i]
        /\ fuSender[u] # "waiting" => m = n - k
        /\ fuSender[u] = "waiting" => n = Len(f) /\ m = n - k + 1 /\ s[n - k + 1] = FuEOF
    BY <1>1, <1>2 DEF FuInv, FuStreamOK
  <1>5. Tail(s) \in Seq(FuChunks \cup {FuEOF})
    BY <1>1, FuHeadFacts DEF FuTakes
  <1>6. PICK t \in Seq(FuChunks \cup {FuEOF}) : t = Tail(s)
    BY <1>5
  <1>7. m >= 1 /\ Len(t) = m - 1 /\ \A i \in 1 .. (m - 1) : t[i] = s[i + 1]
    BY <1>1, <1>2, <1>6
  <1>8. fuStream' = [fuStream EXCEPT ![u] = t] /\ fuOffset' = [fuOffset EXCEPT ![u] = k + 1]
    BY <1>1, <1>6 DEF FuTakes, FuNextChunk
  <1>9. /\ fuStream' \in [FuUploads -> Seq(FuChunks \cup {FuEOF})] /\ fuOffset' \in [FuUploads -> Nat]
        /\ fuStream'[u] = t /\ fuOffset'[u] = k + 1
        /\ \A w \in FuUploads \ {u} : fuStream'[w] = fuStream[w] /\ fuOffset'[w] = fuOffset[w]
    BY <1>8 DEF FuInv, FuTypeOK
  <1>10. ASSUME NEW i \in 1 .. (n - (k + 1)) PROVE t[i] = f[(k + 1) + i]
    <2>1. n - k <= m
      <3>1. m = n - k \/ m = n - k + 1
        BY <1>4
      <3> QED
        BY <3>1
    <2>2. i \in Int /\ 1 <= i /\ i <= n - (k + 1)
      BY <1>3
    <2>3. i + 1 \in 1 .. (n - k) /\ i \in 1 .. (m - 1) /\ k + (i + 1) = (k + 1) + i
      BY <2>1, <2>2
    <2> QED
      BY <1>4, <1>7, <2>3
  <1>11. fuSender[u] # "waiting" => Len(t) = n - (k + 1)
    BY <1>4, <1>7
  <1>12. fuSender[u] = "waiting" =>
           n = Len(f) /\ Len(t) = n - (k + 1) + 1 /\ t[n - (k + 1) + 1] = FuEOF
    <2>1. SUFFICES ASSUME fuSender[u] = "waiting"
                   PROVE  n = Len(f) /\ Len(t) = n - (k + 1) + 1 /\ t[n - (k + 1) + 1] = FuEOF
      OBVIOUS
    <2>2. n = Len(f) /\ m = n - k + 1 /\ s[n - k + 1] = FuEOF
      BY <1>4, <2>1
    <2>3. /\ n - (k + 1) + 1 = n - k /\ n - k \in 1 .. (m - 1) /\ (n - k) + 1 = n - k + 1
          /\ m - 1 = n - (k + 1) + 1
      BY <1>3, <2>2
    <2>4. t[n - k] = FuEOF
      BY <1>7, <2>2, <2>3
    <2> QED
      BY <1>7, <2>2, <2>3, <2>4
  <1>13. /\ fuFile'[u] = f /\ fuSender'[u] = fuSender[u] /\ fuSent'[u] = n /\ fuHandler'[u] = "recv"
    BY <1>1, <1>2 DEF FuTakes
  <1>14. k + 1 <= n /\ k + 1 <= Len(f)
    BY <1>3, <1>4
  <1>15. FuStreamOK(u)'
    BY <1>4, <1>9, <1>10, <1>11, <1>12, <1>13, <1>14 DEF FuStreamOK, FuEOF
  <1>16. FuAnswerOK(u)'
    BY <1>2, <1>4, <1>9, <1>13, <1>14 DEF FuAnswerOK
  <1> QED
    BY <1>1, <1>9, <1>15, <1>16

LEMMA FuCreateKeeps ==
  ASSUME FuInv, NEW u \in FuUploads, FuCreate(u)
  PROVE  FuInv'
  <1>1. PICK p \in FuStamps : FuCreateAnd(u, p)
    BY DEF FuCreate
  <1>2. FuTakes(u)
    BY <1>1 DEF FuTakes, FuCreate, FuCreateAnd
  <1>3. /\ FuStreamOK(u)' /\ FuAnswerOK(u)'
        /\ fuStream' \in [FuUploads -> Seq(FuChunks \cup {FuEOF})] /\ fuOffset' \in [FuUploads -> Nat]
        /\ fuOffset'[u] = fuOffset[u] + 1
        /\ \A w \in FuUploads \ {u} : fuStream'[w] = fuStream[w] /\ fuOffset'[w] = fuOffset[w]
    BY <1>2, FuTakesKeeps
  <1>4. p # FuNoPath /\ fuPath[u] = FuNoPath /\ fuOffset[u] = 0
    BY FuAssumption DEF FuCreate, FuInv, FuDiskOK
  <1>5. PICK f \in Seq(FuChunks) : f = fuFile[u] /\ f = fuFile'[u]
    BY <1>2 DEF FuInv, FuTypeOK, FuTakes
  <1>6. Head(fuStream[u]) = f[1] /\ f[1] \in FuChunks /\ 0 < Len(f)
    <2>1. FuReceived(u) /\ Head(fuStream[u]) # FuEOF /\ fuHandler[u] = "recv"
      BY <1>2 DEF FuTakes, FuReceived
    <2>2. /\ fuOffset[u] < fuSent[u] /\ Head(fuStream[u]) = fuFile[u][fuOffset[u] + 1]
          /\ Head(fuStream[u]) \in FuChunks
      BY <2>1, FuHeadFacts
    <2>3. fuSent[u] <= Len(f) /\ fuSent[u] \in Nat
      BY <1>5, <2>1 DEF FuInv, FuStreamOK, FuTypeOK
    <2> QED
      BY <1>4, <1>5, <2>2, <2>3
  <1>7. FuWrite(<< >>, 0, f[1]) = FuPrefix(f, 1)
    <2>1. FuPrefix(f, 0) = << >>
      <3>1. FuPrefix(f, 0) \in Seq(FuChunks) /\ Len(FuPrefix(f, 0)) = 0
        BY FuPrefixFacts
      <3> QED
        BY <3>1
    <2>2. FuWrite(FuPrefix(f, 0), 0, f[0 + 1]) = FuPrefix(f, 0 + 1)
      BY <1>6, FuWriteNext
    <2> QED
      BY <2>1, <2>2
  <1>8. FuWrite(<< >>, 0, f[1]) \in Seq(FuCells)
    <2>1. << >> \in Seq(FuCells) /\ f[1] \in FuCells
      BY <1>6 DEF FuCells
    <2> QED
      BY <2>1, FuWriteType
  <1>9. /\ fuPath' = [fuPath EXCEPT ![u] = p] /\ fuDisk' = [fuDisk EXCEPT ![p] = FuPrefix(f, 1)]
        /\ fuCreated' = [fuCreated EXCEPT ![p] = fuCreated[p] \cup {u}]
    BY <1>1, <1>6, <1>7 DEF FuCreateAnd
  <1>10. FuTypeOK'
    BY <1>2, <1>3, <1>7, <1>8, <1>9 DEF FuInv, FuTypeOK, FuTakes
  <1>11. /\ fuPath'[u] = p /\ fuDisk'[p] = FuPrefix(f, 1) /\ fuCreated'[p] = fuCreated[p] \cup {u}
         /\ \A w \in FuUploads \ {u} : fuPath'[w] = fuPath[w]
         /\ \A q \in FuStamps \ {p} : fuDisk'[q] = fuDisk[q] /\ fuCreated'[q] = fuCreated[q]
    BY <1>9 DEF FuInv, FuTypeOK
  <1>12. ASSUME NEW w \in FuUploads \ {u}, fuPath[w] # FuNoPath
         PROVE  /\ fuCreated[fuPath[w]] \subseteq fuCreated'[fuPath[w]]
                /\ fuCreated'[fuPath[w]] = {w} => /\ fuDisk'[fuPath[w]] = fuDisk[fuPath[w]]
                                                  /\ fuCreated[fuPath[w]] = {w}
    <2>1. fuPath[w] \in FuStamps
      BY <1>12 DEF FuInv, FuTypeOK
    <2> QED
      BY <1>11, <1>12, <2>1
  <1>13. FuOnly(u)
    BY <1>2, <1>3, <1>11, <1>12 DEF FuOnly, FuTakes
  <1>14. fuOffset'[u] = 1
    BY <1>3, <1>4
  <1>15. FuDiskOK(u)'
    <2>1. fuDisk'[p] = FuPrefix(fuFile'[u], fuOffset'[u])
      BY <1>5, <1>11, <1>14
    <2>2. fuPath'[u] = p /\ p # FuNoPath /\ u \in fuCreated'[p] /\ fuOffset'[u] # 0
      BY <1>4, <1>11, <1>14
    <2> QED
      BY <2>1, <2>2 DEF FuDiskOK, FuNoPath
  <1> QED
    BY <1>3, <1>10, <1>13, <1>15, FuStep

LEMMA FuWriteChunkKeeps ==
  ASSUME FuInv, NEW u \in FuUploads, FuWriteChunk(u)
  PROVE  FuInv'
  <1>1. FuTakes(u)
    BY DEF FuTakes, FuWriteChunk
  <1>2. /\ FuStreamOK(u)' /\ FuAnswerOK(u)'
        /\ fuStream' \in [FuUploads -> Seq(FuChunks \cup {FuEOF})] /\ fuOffset' \in [FuUploads -> Nat]
        /\ fuOffset'[u] = fuOffset[u] + 1
        /\ \A w \in FuUploads \ {u} : fuStream'[w] = fuStream[w] /\ fuOffset'[w] = fuOffset[w]
    BY <1>1, FuTakesKeeps
  <1>3. fuPath[u] \in FuStamps /\ fuPath[u] # FuNoPath
    BY DEF FuWriteChunk, FuInv, FuTypeOK
  <1>4. PICK p \in FuStamps, f \in Seq(FuChunks), k \in Nat :
          /\ p = fuPath[u] /\ p # FuNoPath /\ f = fuFile[u] /\ f = fuFile'[u] /\ k = fuOffset[u]
    BY <1>1, <1>3 DEF FuInv, FuTypeOK, FuTakes
  <1>5. Head(fuStream[u]) = f[k + 1] /\ f[k + 1] \in FuChunks /\ k < Len(f)
    <2>1. FuReceived(u) /\ Head(fuStream[u]) # FuEOF /\ fuHandler[u] = "recv"
      BY <1>1 DEF FuTakes, FuReceived
    <2>2. /\ fuOffset[u] < fuSent[u] /\ Head(fuStream[u]) = fuFile[u][fuOffset[u] + 1]
          /\ Head(fuStream[u]) \in FuChunks
      BY <2>1, FuHeadFacts
    <2>3. fuSent[u] <= Len(f) /\ fuSent[u] \in Nat
      BY <1>4, <2>1 DEF FuInv, FuStreamOK, FuTypeOK
    <2> QED
      BY <1>4, <2>2, <2>3
  <1>6. FuWrite(fuDisk[p], k, f[k + 1]) \in Seq(FuCells)
    <2>1. fuDisk[p] \in Seq(FuCells) /\ f[k + 1] \in FuCells
      BY <1>5 DEF FuCells, FuInv, FuTypeOK
    <2> QED
      BY <2>1, FuWriteType
  <1>7. PICK d \in Seq(FuCells) : d = FuWrite(fuDisk[p], k, f[k + 1])
    BY <1>6
  <1>8. fuDisk' = [fuDisk EXCEPT ![p] = d] /\ UNCHANGED << fuPath, fuCreated >>
    BY <1>4, <1>5, <1>7 DEF FuWriteChunk
  <1>9. FuTypeOK'
    BY <1>1, <1>2, <1>8 DEF FuInv, FuTypeOK, FuTakes
  <1>10. fuDisk'[p] = d /\ \A q \in FuStamps \ {p} : fuDisk'[q] = fuDisk[q]
    BY <1>8 DEF FuInv, FuTypeOK
  <1>11. u \in fuCreated[p] /\ (fuCreated[p] = {u} => fuDisk[p] = FuPrefix(f, k))
    BY <1>4 DEF FuInv, FuDiskOK
  <1>12. ASSUME NEW w \in FuUploads \ {u}, fuPath[w] # FuNoPath
         PROVE  fuCreated'[fuPath[w]] = {w} => fuDisk'[fuPath[w]] = fuDisk[fuPath[w]]
    <2>1. fuPath[w] \in FuStamps
      BY <1>12 DEF FuInv, FuTypeOK
    <2> QED
      BY <1>8, <1>10, <1>11, <1>12, <2>1
  <1>13. FuOnly(u)
    BY <1>1, <1>2, <1>8, <1>12 DEF FuOnly, FuTakes
  <1>14. fuCreated[p] = {u} => d = FuPrefix(f, k + 1)
    BY <1>5, <1>7, <1>11, FuWriteNext
  <1>15. fuOffset'[u] = k + 1 /\ fuOffset'[u] # 0 /\ fuPath'[u] = p
    BY <1>2, <1>4, <1>8
  <1>16. FuDiskOK(u)'
    BY <1>4, <1>8, <1>10, <1>11, <1>14, <1>15 DEF FuDiskOK, FuNoPath, FuPrefix
  <1> QED
    BY <1>2, <1>9, <1>13, <1>16, FuStep

LEMMA FuHandlerEnds ==
  ASSUME FuInv, NEW u \in FuUploads, FuHandlerFails(u) \/ FuFirstWriteFails(u)
  PROVE  FuInv'
  <1>1. /\ fuHandler' = [fuHandler EXCEPT ![u] = "failed"] /\ fuHandler[u] = "recv"
        /\ UNCHANGED << fuFile, fuSender, fuSent, fuStream, fuPath, fuOffset >>
    BY DEF FuHandlerFails, FuFirstWriteFails, FuReceived
  <1>2. \/ UNCHANGED << fuDisk, fuCreated >>
        \/ /\ fuPath[u] = FuNoPath
           /\ \E p \in FuStamps : /\ fuDisk' = [fuDisk EXCEPT ![p] = << >>]
                                  /\ fuCreated' = [fuCreated EXCEPT ![p] = fuCreated[p] \cup {u}]
    BY DEF FuHandlerFails, FuFirstWriteFails
  <1>3. << >> \in Seq(FuCells)
    OBVIOUS
  <1>4. fuHandler' \in [FuUploads -> {"recv", "done", "failed"}] /\ fuHandler'[u] = "failed"
        /\ \A w \in FuUploads \ {u} : fuHandler'[w] = fuHandler[w]
    BY <1>1 DEF FuInv, FuTypeOK
  <1>5. fuDisk' \in [FuStamps -> Seq(FuCells)] /\ fuCreated' \in [FuStamps -> SUBSET FuUploads]
    <2>1. fuDisk \in [FuStamps -> Seq(FuCells)] /\ fuCreated \in [FuStamps -> SUBSET FuUploads]
      BY DEF FuInv, FuTypeOK
    <2>2. CASE UNCHANGED << fuDisk, fuCreated >>
      BY <2>1, <2>2
    <2>3. ASSUME NEW p \in FuStamps, fuDisk' = [fuDisk EXCEPT ![p] = << >>],
                 fuCreated' = [fuCreated EXCEPT ![p] = fuCreated[p] \cup {u}]
          PROVE  fuDisk' \in [FuStamps -> Seq(FuCells)] /\ fuCreated' \in [FuStamps -> SUBSET FuUploads]
      <3>1. fuDisk' \in [FuStamps -> Seq(FuCells)]
        BY <1>3, <2>1, <2>3
      <3>2. fuCreated' \in [FuStamps -> SUBSET FuUploads]
        BY <2>1, <2>3
      <3> QED
        BY <3>1, <3>2
    <2> QED
      BY <1>2, <2>2, <2>3
  <1>6. FuTypeOK'
    BY <1>1, <1>4, <1>5 DEF FuInv, FuTypeOK
  <1>7. ASSUME NEW w \in FuUploads \ {u}, fuPath[w] # FuNoPath
        PROVE  /\ fuCreated[fuPath[w]] \subseteq fuCreated'[fuPath[w]]
               /\ fuCreated'[fuPath[w]] = {w} => /\ fuDisk'[fuPath[w]] = fuDisk[fuPath[w]]
                                                 /\ fuCreated[fuPath[w]] = {w}
    <2>1. fuPath[w] \in FuStamps
      BY <1>7 DEF FuInv, FuTypeOK
    <2> QED
      BY <1>2, <1>7, <2>1 DEF FuInv, FuTypeOK
  <1>8. FuOnly(u)
    BY <1>1, <1>4, <1>7 DEF FuOnly
  <1>9. FuStreamOK(u)'
    BY <1>4 DEF FuStreamOK
  <1>10. FuStreamOK(u) /\ FuAnswerOK(u) /\ FuDiskOK(u)
    BY DEF FuInv
  <1>11. FuAnswerOK(u)'
    BY <1>1, <1>4, <1>10 DEF FuAnswerOK, FuStreamOK
  <1>12. FuDiskOK(u)'
    <2>1. CASE UNCHANGED << fuDisk, fuCreated >>
      BY <1>1, <1>10, <2>1 DEF FuDiskOK, FuNoPath, FuPrefix
    <2>2. CASE fuPath[u] = FuNoPath
      BY <1>1, <1>10, <2>2 DEF FuDiskOK, FuNoPath
    <2> QED
      BY <1>2, <2>1, <2>2
  <1> QED
    BY <1>6, <1>8, <1>9, <1>11, <1>12, FuStep

LEMMA FuReceiveEOFKeeps ==
  ASSUME FuInv, NEW u \in FuUploads, FuReceiveEOF(u)
  PROVE  FuInv'
  <1>1. FuReceived(u) /\ Head(fuStream[u]) = FuEOF
    BY DEF FuReceiveEOF
  <1>2. /\ Tail(fuStream[u]) \in Seq(FuChunks \cup {FuEOF})
        /\ fuSent[u] = fuOffset[u] /\ fuSent[u] = Len(fuFile[u])
    BY <1>1, FuHeadFacts
  <1>3. /\ fuHandler' = [fuHandler EXCEPT ![u] = "done"]
        /\ fuStream' = [fuStream EXCEPT ![u] = Tail(fuStream[u])]
        /\ UNCHANGED << fuFile, fuSender, fuSent, fuPath, fuOffset, fuDisk, fuCreated >>
    BY DEF FuReceiveEOF, FuNextChunk
  <1>4. FuTypeOK'
    BY <1>2, <1>3 DEF FuInv, FuTypeOK
  <1>5. /\ fuHandler'[u] = "done"
        /\ \A w \in FuUploads \ {u} : fuHandler'[w] = fuHandler[w] /\ fuStream'[w] = fuStream[w]
    BY <1>3 DEF FuInv, FuTypeOK
  <1>6. FuOnly(u)
    BY <1>3, <1>5 DEF FuOnly
  <1>7. FuStreamOK(u)'
    BY <1>5 DEF FuStreamOK
  <1>8. FuAnswerOK(u) /\ FuDiskOK(u)
    BY DEF FuInv
  <1>9. FuAnswerOK(u)'
    BY <1>2, <1>3, <1>5, <1>8 DEF FuAnswerOK
  <1>10. FuDiskOK(u)'
    BY <1>3, <1>8 DEF FuDiskOK, FuNoPath, FuPrefix
  <1> QED
    BY <1>4, <1>6, <1>7, <1>9, <1>10, FuStep

LEMMA FuNextKeeps ==
  ASSUME FuInv, [FuNext]_fuVars
  PROVE  FuInv'
  <1>1. CASE UNCHANGED fuVars
    <2>1. UNCHANGED << fuFile, fuSender, fuSent, fuStream, fuHandler, fuPath, fuOffset, fuDisk, fuCreated >>
      BY <1>1 DEF fuVars
    <2>2. FuTypeOK'
      BY <2>1 DEF FuInv, FuTypeOK
    <2>3. ASSUME NEW u \in FuUploads PROVE FuStreamOK(u)' /\ FuAnswerOK(u)' /\ FuDiskOK(u)'
      <3>1. FuStreamOK(u) /\ FuAnswerOK(u) /\ FuDiskOK(u)
        BY DEF FuInv
      <3> QED
        BY <2>1, <3>1 DEF FuStreamOK, FuAnswerOK, FuDiskOK, FuNoPath, FuPrefix
    <2> QED
      BY <2>2, <2>3 DEF FuInv
  <1>2. CASE \E u \in FuUploads : FuOpen(u) \/ FuSendFails(u) \/ FuCloseAndRecv(u)
    BY <1>2, FuSenderMoves
  <1>3. CASE \E u \in FuUploads : FuSendChunk(u) \/ FuCloseSend(u)
    BY <1>3, FuSendChunkKeeps, FuCloseSendKeeps
  <1>4. CASE \E u \in FuUploads : FuCreate(u) \/ FuWriteChunk(u)
    BY <1>4, FuCreateKeeps, FuWriteChunkKeeps
  <1>5. CASE \E u \in FuUploads : FuHandlerFails(u) \/ FuFirstWriteFails(u)
    BY <1>5, FuHandlerEnds
  <1>6. CASE \E u \in FuUploads : FuReceiveEOF(u)
    BY <1>6, FuReceiveEOFKeeps
  <1> QED
    BY <1>1, <1>2, <1>3, <1>4, <1>5, <1>6 DEF FuNext

LEMMA FuInitKeeps ==
  ASSUME FuInit({TRUE})
  PROVE  FuInv
  <1>1. PICK n \in [FuUploads -> FuSizes] : fuFile = [u \in FuUploads |-> FuContent(u, n[u])]
    BY DEF FuInit
  <1>2. ASSUME NEW u \in FuUploads
        PROVE  FuContent(u, n[u]) \in Seq(FuChunks)
    <2>1. n[u] \in Nat
      BY FuAssumption
    <2>2. \A i \in 1 .. n[u] : << u, i >> \in FuChunks
      BY <2>1 DEF FuChunks
    <2> QED
      BY <2>1, <2>2 DEF FuContent
  <1>3. fuFile \in [FuUploads -> Seq(FuChunks)]
    BY <1>1, <1>2
  <1>4. /\ << >> \in Seq(FuChunks \cup {FuEOF}) /\ << >> \in Seq(FuCells) /\ Len(<< >>) = 0
    OBVIOUS
  <1>5. FuTypeOK
    BY <1>3, <1>4 DEF FuInit, FuTypeOK
  <1>6. ASSUME NEW u \in FuUploads PROVE FuStreamOK(u) /\ FuAnswerOK(u) /\ FuDiskOK(u)
    <2>1. Len(fuFile[u]) \in Nat
      BY <1>3
    <2>2. /\ fuSender[u] = "idle" /\ fuSent[u] = 0 /\ fuOffset[u] = 0 /\ fuStream[u] = << >>
          /\ fuHandler[u] = "recv" /\ fuPath[u] = FuNoPath
      BY DEF FuInit
    <2> QED
      BY <1>4, <2>1, <2>2 DEF FuStreamOK, FuAnswerOK, FuDiskOK
  <1> QED
    BY <1>5, <1>6 DEF FuInv

\* When UploadFile of file-sender reports that all bytes were received, UploadFile of
\* the invoicer has left exactly the file at its path, unless another upload got the
\* same time stamp, for any number of concurrent uploads of any size and any failures.
THEOREM ReportedIsStored == FuSpec => []FuReportedIsStored
  <1>1. FuInit({TRUE}) => FuInv
    BY FuInitKeeps
  <1>2. FuInv /\ [FuNext]_fuVars => FuInv'
    BY FuNextKeeps
  <1>3. ASSUME FuInv PROVE FuReportedIsStored
    <2>1. SUFFICES ASSUME NEW u \in FuUploads, fuSender[u] = "match"
                   PROVE  \/ fuFile[u] = << >> /\ fuPath[u] = FuNoPath
                          \/ /\ fuPath[u] # FuNoPath
                             /\ fuDisk[fuPath[u]] = fuFile[u] \/ fuCreated[fuPath[u]] # {u}
      BY DEF FuReportedIsStored
    <2>2. FuAnswerOK(u) /\ FuDiskOK(u) /\ fuFile[u] \in Seq(FuChunks)
      BY <1>3 DEF FuInv, FuTypeOK
    <2>3. fuOffset[u] = Len(fuFile[u]) /\ Len(fuFile[u]) \in Nat
      BY <2>1, <2>2 DEF FuAnswerOK
    <2>4. CASE fuPath[u] = FuNoPath
      <3>1. Len(fuFile[u]) = 0
        BY <2>2, <2>3, <2>4 DEF FuDiskOK
      <3>2. fuFile[u] = << >>
        BY <2>2, <3>1
      <3> QED
        BY <2>4, <3>2
    <2>5. CASE fuPath[u] # FuNoPath
      <3>1. fuCreated[fuPath[u]] = {u} => fuDisk[fuPath[u]] = FuPrefix(fuFile[u], Len(fuFile[u]))
        BY <2>2, <2>3, <2>5 DEF FuDiskOK
      <3>2. FuPrefix(fuFile[u], Len(fuFile[u])) = fuFile[u]
        BY <2>2, <2>3, FuPrefixFacts
      <3> QED
        BY <2>5, <3>1, <3>2
    <2> QED
      BY <2>4, <2>5
  <1> QED
    BY <1>1, <1>2, <1>3, PTL DEF FuSpec

-----------------------------------------------------------------------------
(***************************************************************************)
(* The loop of FindLatestToCommit                                          *)
(***************************************************************************)

\* A map with finitely or infinitely many keys is a function into MsgState
\* whose keys are offsets.
LEMMA MapsAreMaps ==
  ASSUME NEW m \in Maps
  PROVE  /\ DOMAIN m \subseteq Keys
         /\ DOMAIN m \subseteq Int
         /\ m = [o \in DOMAIN m |-> m[o]]
         /\ \A o \in DOMAIN m : m[o] \in MsgState
  BY KeysAssumption DEF Maps

\* The loop invariant holds at the first iteration.
LEMMA InitLoopInv == Init => LoopInv
<1> SUFFICES ASSUME Init PROVE LoopInv
  OBVIOUS
<1>1. Visited = {}
  BY MapsAreMaps, KeysAssumption DEF Init, Visited, Scanned
<1>2. st = [o \in DOMAIN st0 \ Visited |-> st0[o]]
  BY <1>1, MapsAreMaps DEF Init
<1> QED
  BY <1>1, <1>2, KeysAssumption DEF Init, LoopInv

\* Every iteration preserves it.
LEMMA NextLoopInv == LoopInv /\ [Next]_vars => LoopInv'
<1> SUFFICES ASSUME LoopInv, [Next]_vars PROVE LoopInv'
  OBVIOUS
<1> USE DEF LoopInv
<1>0. DOMAIN st0 \subseteq Int
  BY MapsAreMaps
<1>1. CASE NotExists
  <2>1. offset \notin DOMAIN st0 \ Visited
    BY <1>1 DEF NotExists, InRange
  <2>2. Visited' = Visited
    BY <1>0, <1>1, <2>1 DEF NotExists, InRange, Visited, Scanned
  <2> QED
    BY <1>1, <2>2 DEF NotExists, InRange
<1>2. CASE DeleteFinished
  <2>1. /\ offset \in DOMAIN st0 /\ offset \notin Visited
        /\ st0[offset] # Pending
        /\ offset \in Scanned(st0, lc, mr)
    BY <1>2, <1>0 DEF DeleteFinished, InRange, Scanned
  <2>2. CASE offset' = offset + 1 /\ DOMAIN st' # {}
    <3>1. Visited' = Visited \cup {offset}
      BY <1>0, <1>2, <2>1, <2>2 DEF DeleteFinished, Visited, Scanned
    <3>2. st' = [o \in DOMAIN st0 \ Visited' |-> st0[o]]
      BY <1>2, <3>1 DEF DeleteFinished, InRange, Without
    <3> QED
      BY <1>2, <2>1, <2>2, <3>1, <3>2 DEF DeleteFinished, InRange
  <2>3. CASE pc' = "done" /\ UNCHANGED offset
    BY <1>2, <2>3 DEF DeleteFinished
  <2> QED
    BY <1>2, <2>2, <2>3 DEF DeleteFinished
<1>3. CASE StopAtPending
  BY <1>3 DEF StopAtPending
<1>4. CASE OutOfRange
  BY <1>4 DEF OutOfRange
<1>5. CASE UNCHANGED vars
  BY <1>5 DEF vars, Visited
<1> QED
  BY <1>1, <1>2, <1>3, <1>4, <1>5 DEF Next

\* The step that ends the loop leaves the result OffsetScan describes.
LEMMA ResultAtExit ==
  ASSUME LoopInv, [Next]_vars, LoopComputesScan
  PROVE  LoopComputesScan'
<1> USE DEF LoopInv
<1>0. DOMAIN st0 \subseteq Int
  BY MapsAreMaps
<1>1. CASE NotExists
  BY <1>1 DEF NotExists, InRange, LoopComputesScan
<1>2. CASE DeleteFinished
  <2>1. /\ offset \in DOMAIN st0 /\ offset \notin Visited
        /\ st0[offset] # Pending
        /\ offset \in Scanned(st0, lc, mr)
    BY <1>2, <1>0 DEF DeleteFinished, InRange, Scanned
  <2>2. CASE DOMAIN st' = {} /\ latest' = offset + 1
    <3>1. DOMAIN st0 = Visited \cup {offset}
      BY <1>2, <2>1, <2>2 DEF DeleteFinished, InRange, Without, Visited, Scanned
    <3>2. /\ Scanned(st0, lc, mr) = DOMAIN st0
          /\ PendingIn(st0, lc, mr) = {}
      BY <1>2, <2>1, <3>1 DEF Visited, Scanned, PendingIn, DeleteFinished, InRange
    <3>3. \A p \in DOMAIN st0 : p <= offset
      BY <1>0, <3>1 DEF Visited
    <3>4. IsLatestToCommit(st0, lc, mr, offset + 1)
      BY <2>1, <3>2, <3>3, <1>0 DEF IsLatestToCommit
    <3>5. Finished(st0, lc, mr, offset + 1) = DOMAIN st0
      BY <3>2 DEF Finished, PendingIn
    <3>6. st' = Pruned(st0, lc, mr, offset + 1)
      BY <1>2, <2>2, <3>5 DEF Pruned, DeleteFinished, Without
    <3> QED
      BY <1>2, <2>2, <3>4, <3>6 DEF DeleteFinished, LoopComputesScan
  <2>3. CASE UNCHANGED pc
    BY <1>2, <2>3 DEF DeleteFinished, InRange, LoopComputesScan
  <2> QED
    BY <1>2, <2>2, <2>3 DEF DeleteFinished
<1>3. CASE StopAtPending
  <2>1. offset \in PendingIn(st0, lc, mr)
    BY <1>3, <1>0 DEF StopAtPending, InRange, PendingIn, Scanned
  <2>2. \A p \in PendingIn(st0, lc, mr) : offset <= p
    BY <1>3, <1>0 DEF StopAtPending, InRange, PendingIn, Visited, Scanned
  <2>3. IsLatestToCommit(st0, lc, mr, offset)
    BY <2>1, <2>2 DEF IsLatestToCommit
  <2>4. Finished(st0, lc, mr, offset) = Visited
    BY <1>3, <1>0, <2>1, <2>2 DEF StopAtPending, InRange, Finished, PendingIn, Visited, Scanned
  <2>5. st = Pruned(st0, lc, mr, offset)
    BY <1>3, <2>4 DEF Pruned, StopAtPending, InRange
  <2> QED
    BY <1>3, <2>3, <2>5 DEF StopAtPending, LoopComputesScan
<1>4. CASE OutOfRange
  <2>1. Visited = Scanned(st0, lc, mr)
    BY <1>4, <1>0 DEF OutOfRange, Visited, Scanned
  <2>2. PendingIn(st0, lc, mr) = {}
    BY <1>4, <2>1 DEF OutOfRange, PendingIn
  <2>3. Scanned(st0, lc, mr) = {} \/ Scanned(st0, lc, mr) # DOMAIN st0
    BY <1>4, <2>1 DEF OutOfRange
  <2>4. IsLatestToCommit(st0, lc, mr, mr)
    BY <2>2, <2>3 DEF IsLatestToCommit
  <2>5. Finished(st0, lc, mr, mr) = Visited
    BY <2>1, <2>2 DEF Finished, PendingIn
  <2>6. st = Pruned(st0, lc, mr, mr)
    BY <1>4, <2>5 DEF Pruned, OutOfRange
  <2> QED
    BY <1>4, <2>4, <2>6 DEF OutOfRange, LoopComputesScan
<1>5. CASE UNCHANGED vars
  BY <1>5 DEF vars, LoopComputesScan
<1> QED
  BY <1>1, <1>2, <1>3, <1>4, <1>5 DEF Next

\* FindLatestToCommit's loop computes the relation of OffsetScan whatever the
\* map and the bounds are: the offset returned and the map left behind.
THEOREM LoopCorrect == Spec => []LoopComputesScan
<1>1. Init => LoopComputesScan
  BY DEF Init, LoopComputesScan
<1>2. LoopInv /\ LoopComputesScan /\ [Next]_vars => LoopComputesScan'
  BY ResultAtExit
<1> QED
  BY <1>1, <1>2, InitLoopInv, NextLoopInv, PTL DEF Spec

-----------------------------------------------------------------------------
(***************************************************************************)
(* The HTTP server of performance/                                         *)
(***************************************************************************)
TsPlaces ==
  {"unsent", "check", "cancel", "wait", "clear", "create", "decode", "answered", "panicked"}

TsTypeOK ==
  /\ tsReq \in [TsRequests -> TsPlaces]
  /\ tsCurrent \in TsRequests \cup {TsNone} /\ tsClosed \subseteq TsRequests
  /\ tsRunning \subseteq TsRequests /\ tsCrashed \in BOOLEAN /\ tsOverlap \in BOOLEAN
  /\ tsOn \in [TsRequests -> TsRequests \cup {TsNone}]

\* A test belongs to a request whose handler has made it, and runTests to one that
\* has been answered.
TsHasTest(r) == tsReq[r] \in {"decode", "answered"}
TsTestsOK ==
  /\ \A r \in tsRunning : tsReq[r] = "answered"
  /\ \A r \in tsClosed : TsHasTest(r)
  /\ tsCurrent # TsNone => TsHasTest(tsCurrent)

\* As long as handlers have not overlapped there is one test at a time: runTests
\* runs for the current one, whose exitCH is open, and not while a handler that has
\* waited for it replaces it.
TsOneTest ==
  /\ \A r, s \in TsBusy : r = s
  /\ \A r \in tsRunning : r = tsCurrent /\ r \notin tsClosed
  /\ \A r \in TsRequests :
       /\ tsReq[r] = "wait" => tsOn[r] = tsCurrent
       /\ tsReq[r] \in {"clear", "create", "decode"} => tsRunning = {}
       /\ tsReq[r] = "decode" => tsCurrent = r /\ r \notin tsClosed

TsInv ==
  /\ TsTypeOK /\ TsTestsOK
  /\ ~tsOverlap => TsOneTest
  /\ TsCrashNeedsOverlap

\* A handler that moves before it has made a test: none starts, ends or is closed.
LEMMA TsHandlerMoves ==
  ASSUME TsInv, NEW r \in TsRequests, NEW to \in TsPlaces \ {"unsent", "decode", "answered"},
         tsReq' = [tsReq EXCEPT ![r] = to], tsReq[r] \in {"check", "cancel", "wait", "clear"},
         UNCHANGED << tsClosed, tsRunning, tsCrashed, tsOverlap >>,
         tsCurrent' \in {tsCurrent, TsNone},
         tsOn' \in [TsRequests -> TsRequests \cup {TsNone}],
         \A s \in TsRequests : s # r => tsOn'[s] = tsOn[s],
         to = "wait" => tsOn'[r] = tsCurrent',
         ~tsOverlap => (tsCurrent' = tsCurrent \/ tsRunning = {}),
         ~tsOverlap => (to \in {"clear", "create"} => tsRunning = {})
  PROVE  TsInv'
  <1> USE DEF TsInv
  <1>1. TsTypeOK'
    BY DEF TsTypeOK
  <1>2. /\ tsReq'[r] = to /\ tsReq[r] \notin {"decode", "answered"} /\ to \notin {"decode", "answered"}
        /\ \A s \in TsRequests : s # r => tsReq'[s] = tsReq[s]
    BY DEF TsTypeOK
  <1>3. \A s \in TsRequests : /\ tsReq'[s] = "answered" <=> tsReq[s] = "answered"
                             /\ tsReq'[s] = "decode" <=> tsReq[s] = "decode"
    BY <1>2
  <1>4. TsTestsOK'
    BY <1>3 DEF TsTestsOK, TsHasTest, TsTypeOK, TsNone
  <1>5. ASSUME ~tsOverlap PROVE TsOneTest'
    <2>1. TsOneTest /\ r \in TsBusy
      BY <1>5 DEF TsBusy
    <2>2. TsBusy' \subseteq TsBusy
      BY <1>2, <2>1 DEF TsBusy
    <2>3. \A s, t \in TsBusy' : s = t
      BY <2>1, <2>2 DEF TsOneTest
    <2>4. \A s \in tsRunning' : s = tsCurrent' /\ s \notin tsClosed'
      BY <1>5, <2>1 DEF TsOneTest
    <2>5. ASSUME NEW s \in TsRequests
          PROVE  /\ tsReq'[s] = "wait" => tsOn'[s] = tsCurrent'
                 /\ tsReq'[s] \in {"clear", "create", "decode"} => tsRunning' = {}
                 /\ tsReq'[s] = "decode" => tsCurrent' = s /\ s \notin tsClosed'
      <3>1. CASE s = r
        BY <1>2, <1>5, <3>1
      <3>2. CASE s # r
        <4>1. s \notin TsBusy
          BY <2>1, <3>2 DEF TsOneTest
        <4> QED
          BY <1>2, <3>2, <4>1 DEF TsBusy
      <3> QED
        BY <3>1, <3>2
    <2> QED
      BY <2>3, <2>4, <2>5 DEF TsOneTest
  <1>6. TsCrashNeedsOverlap'
    <2>1. TsUnrunnable \cup TsBadRange \subseteq TsRequests
      BY TsAssumption
    <2> QED
      BY <1>3, <2>1 DEF TsCrashNeedsOverlap
  <1> QED
    BY <1>1, <1>4, <1>5, <1>6

LEMMA TsPostKeeps ==
  ASSUME TsInv, NEW r \in TsRequests, TsPost(r)
  PROVE  TsInv'
  <1> USE DEF TsInv
  <1>1. /\ tsReq[r] = "unsent" /\ tsReq' = [tsReq EXCEPT ![r] = "check"]
        /\ tsOverlap' = (tsOverlap \/ TsBusy # {})
        /\ UNCHANGED << tsOn, tsCurrent, tsClosed, tsRunning, tsCrashed >>
    BY DEF TsPost, TsAt, TsTo
  <1>2. TsTypeOK'
    BY <1>1 DEF TsTypeOK, TsPlaces
  <1>3. /\ tsReq'[r] = "check"
        /\ \A s \in TsRequests : s # r => tsReq'[s] = tsReq[s]
    BY <1>1 DEF TsTypeOK
  <1>4. \A s \in TsRequests : /\ tsReq'[s] = "answered" <=> tsReq[s] = "answered"
                             /\ tsReq'[s] = "decode" <=> tsReq[s] = "decode"
    BY <1>1, <1>3
  <1>5. TsTestsOK'
    BY <1>1, <1>4 DEF TsTestsOK, TsHasTest, TsTypeOK, TsNone
  <1>6. ASSUME ~tsOverlap' PROVE TsOneTest'
    <2>1. TsOneTest /\ TsBusy = {}
      BY <1>1, <1>6 DEF TsTypeOK
    <2>2. \A s \in TsRequests : s # r =>
                 tsReq'[s] \notin {"check", "cancel", "wait", "clear", "create", "decode"}
      BY <1>3, <2>1 DEF TsBusy
    <2>3. \A s, t \in TsBusy' : s = t
      BY <2>2 DEF TsBusy
    <2> QED
      BY <1>1, <1>3, <2>1, <2>2, <2>3 DEF TsOneTest
  <1>7. TsCrashNeedsOverlap'
    <2>1. TsUnrunnable \cup TsBadRange \subseteq TsRequests
      BY TsAssumption
    <2>2. ASSUME NEW s \in TsUnrunnable \cup TsBadRange, tsReq[s] = "answered"
          PROVE  tsReq'[s] = "answered"
      <3>1. s \in TsRequests /\ s # r
        BY <1>1, <2>1, <2>2
      <3> QED
        BY ONLY <1>3, <2>2, <3>1
    <2>3. CASE tsCrashed /\ ~tsOverlap
      BY <2>2, <2>3 DEF TsCrashNeedsOverlap
    <2> QED
      BY <1>1, <2>3 DEF TsCrashNeedsOverlap
  <1> QED
    BY <1>2, <1>5, <1>6, <1>7

LEMMA TsHandleKeeps ==
  ASSUME TsInv, NEW r \in TsRequests, TsCheck(r) \/ TsCancel(r) \/ TsWait(r) \/ TsClear(r)
  PROVE  TsInv'
  <1> USE DEF TsInv
  <1>1. tsOn \in [TsRequests -> TsRequests \cup {TsNone}] /\ tsCurrent \in TsRequests \cup {TsNone}
    BY DEF TsTypeOK
  <1>2. CASE TsCheck(r)
    <2>1. PICK to \in {"create", "cancel"} :
            /\ tsReq' = [tsReq EXCEPT ![r] = to] /\ tsReq[r] = "check"
            /\ to = "create" => tsCurrent = TsNone
            /\ UNCHANGED << tsOn, tsCurrent, tsClosed, tsRunning, tsCrashed, tsOverlap >>
      BY <1>2 DEF TsCheck, TsAt, TsTo
    <2>2. to = "create" /\ ~tsOverlap => tsRunning = {}
      BY <2>1, TsAssumption DEF TsOneTest, TsTypeOK
    <2> QED
      BY <1>1, <2>1, <2>2, TsHandlerMoves DEF TsPlaces
  <1>3. CASE TsCancel(r)
    <2>1. PICK to \in {"panicked", "wait"} :
            /\ tsReq' = [tsReq EXCEPT ![r] = to] /\ tsReq[r] = "cancel"
            /\ tsOn' = [tsOn EXCEPT ![r] = tsCurrent]
            /\ UNCHANGED << tsCurrent, tsClosed, tsRunning, tsCrashed, tsOverlap >>
      BY <1>3 DEF TsCancel, TsAt, TsTo
    <2>2. /\ tsOn' \in [TsRequests -> TsRequests \cup {TsNone}] /\ tsOn'[r] = tsCurrent
          /\ \A s \in TsRequests : s # r => tsOn'[s] = tsOn[s]
      BY <1>1, <2>1
    <2> QED
      BY <2>1, <2>2, TsHandlerMoves DEF TsPlaces
  <1>4. CASE TsWait(r)
    <2>1. /\ tsReq' = [tsReq EXCEPT ![r] = "clear"] /\ tsReq[r] = "wait" /\ tsOn[r] \in tsClosed
          /\ UNCHANGED << tsOn, tsCurrent, tsClosed, tsRunning, tsCrashed, tsOverlap >>
      BY <1>4 DEF TsWait, TsAt, TsTo
    <2>2. ~tsOverlap => tsRunning = {}
      BY <2>1 DEF TsOneTest
    <2> QED
      BY <1>1, <2>1, <2>2, TsHandlerMoves DEF TsPlaces
  <1>5. CASE TsClear(r)
    <2>1. /\ tsReq' = [tsReq EXCEPT ![r] = "create"] /\ tsReq[r] = "clear" /\ tsCurrent' = TsNone
          /\ UNCHANGED << tsOn, tsClosed, tsRunning, tsCrashed, tsOverlap >>
      BY <1>5 DEF TsClear, TsAt, TsTo
    <2>2. ~tsOverlap => tsRunning = {}
      BY <2>1 DEF TsOneTest
    <2> QED
      BY <1>1, <2>1, <2>2, TsHandlerMoves DEF TsPlaces
  <1> QED
    BY <1>2, <1>3, <1>4, <1>5

LEMMA TsCreateKeeps ==
  ASSUME TsInv, NEW r \in TsRequests, TsCreate(r)
  PROVE  TsInv'
  <1> USE DEF TsInv
  <1>1. /\ tsReq[r] = "create" /\ tsReq' = [tsReq EXCEPT ![r] = "decode"] /\ tsCurrent' = r
        /\ UNCHANGED << tsOn, tsClosed, tsRunning, tsCrashed, tsOverlap >>
    BY DEF TsCreate, TsAt, TsTo
  <1>2. TsTypeOK'
    BY <1>1 DEF TsTypeOK, TsPlaces
  <1>3. /\ tsReq'[r] = "decode"
        /\ \A s \in TsRequests : s # r => tsReq'[s] = tsReq[s]
    BY <1>1 DEF TsTypeOK
  <1>4. \A s \in TsRequests : /\ tsReq[s] \in {"decode", "answered"} => tsReq'[s] = tsReq[s]
                             /\ tsReq[s] = "answered" <=> tsReq'[s] = "answered"
    BY <1>1, <1>3
  <1>5. TsTestsOK'
    BY <1>1, <1>3, <1>4 DEF TsTestsOK, TsHasTest, TsTypeOK, TsNone
  <1>6. ASSUME ~tsOverlap PROVE TsOneTest'
    <2>1. TsOneTest /\ r \in TsBusy /\ tsRunning = {} /\ r \notin tsClosed
      BY <1>1, <1>6 DEF TsBusy, TsOneTest, TsTestsOK, TsHasTest
    <2>2. TsBusy' \subseteq {r} /\ \A s \in TsRequests : s # r => s \notin TsBusy
      BY <1>3, <2>1 DEF TsBusy, TsOneTest
    <2>3. \A s \in TsRequests : s # r => tsReq'[s] \notin {"wait", "clear", "create", "decode"}
      BY <1>3, <2>2 DEF TsBusy
    <2> QED
      BY <1>1, <1>3, <2>1, <2>2, <2>3 DEF TsOneTest
  <1>7. TsCrashNeedsOverlap'
    <2>1. TsUnrunnable \cup TsBadRange \subseteq TsRequests
      BY TsAssumption
    <2> QED
      BY <1>1, <1>4, <2>1 DEF TsCrashNeedsOverlap
  <1> QED
    BY <1>1, <1>2, <1>5, <1>6, <1>7

LEMMA TsDecodeKeeps ==
  ASSUME TsInv, NEW r \in TsRequests, TsDecode(r)
  PROVE  TsInv'
  <1> USE DEF TsInv
  <1>1. /\ tsReq[r] = "decode" /\ tsReq' = [tsReq EXCEPT ![r] = "answered"]
        /\ tsRunning' \in {tsRunning, tsRunning \cup {r}}
        /\ UNCHANGED << tsOn, tsCurrent, tsClosed, tsCrashed, tsOverlap >>
    BY DEF TsDecode, TsAt, TsTo
  <1>2. TsTypeOK'
    BY <1>1 DEF TsTypeOK, TsPlaces
  <1>3. /\ tsReq'[r] = "answered"
        /\ \A s \in TsRequests : s # r => tsReq'[s] = tsReq[s]
    BY <1>1 DEF TsTypeOK
  <1>4. \A s \in TsRequests : tsReq[s] = "answered" => tsReq'[s] = "answered"
    BY <1>3
  <1>5. TsTestsOK'
    BY <1>1, <1>3, <1>4 DEF TsTestsOK, TsHasTest, TsTypeOK, TsNone
  <1>6. ASSUME ~tsOverlap PROVE TsOneTest'
    <2>1. TsOneTest /\ r \in TsBusy /\ tsRunning = {} /\ r \notin tsClosed /\ tsCurrent = r
      BY <1>1, <1>6 DEF TsBusy, TsOneTest
    <2>2. TsBusy' = {}
      BY <1>3, <2>1 DEF TsBusy, TsOneTest
    <2>3. \A s \in tsRunning' : s = tsCurrent' /\ s \notin tsClosed'
      BY <1>1, <2>1
    <2> QED
      BY <2>2, <2>3 DEF TsOneTest, TsBusy
  <1>7. TsCrashNeedsOverlap'
    <2>1. TsUnrunnable \cup TsBadRange \subseteq TsRequests
      BY TsAssumption
    <2> QED
      BY <1>1, <1>4, <2>1 DEF TsCrashNeedsOverlap
  <1> QED
    BY <1>1, <1>2, <1>5, <1>6, <1>7

LEMMA TsRunTestsKeeps ==
  ASSUME TsInv, NEW r \in TsRequests, TsRunTests(r)
  PROVE  TsInv'
  <1> USE DEF TsInv
  <1>1. /\ r \in tsRunning /\ tsRunning' = tsRunning \ {r} /\ tsCurrent # TsNone
        /\ tsClosed' = tsClosed \cup {tsCurrent}
        /\ UNCHANGED << tsReq, tsOn, tsCurrent, tsCrashed, tsOverlap >>
    BY DEF TsRunTests, TsNoneToClose
  <1>2. TsTypeOK'
    BY <1>1 DEF TsTypeOK
  <1>3. TsTestsOK'
    BY <1>1 DEF TsTestsOK, TsHasTest, TsNone
  <1>4. ASSUME ~tsOverlap PROVE TsOneTest'
    <2>1. TsOneTest /\ tsRunning' = {} /\ tsRunning # {}
      BY <1>1, <1>4 DEF TsOneTest
    <2>2. TsBusy' = TsBusy
      BY <1>1 DEF TsBusy
    <2> QED
      BY <1>1, <2>1, <2>2 DEF TsOneTest
  <1>5. TsCrashNeedsOverlap'
    BY <1>1 DEF TsCrashNeedsOverlap
  <1> QED
    BY <1>1, <1>2, <1>3, <1>4, <1>5

LEMMA TsPanicKeeps ==
  ASSUME TsInv, NEW r \in TsRequests, TsPanic(r)
  PROVE  TsInv'
  <1> USE DEF TsInv
  <1>1. /\ r \in tsRunning /\ (r \in TsUnrunnable \cup TsBadRange \/ TsNoneToClose) /\ tsCrashed' = TRUE
        /\ UNCHANGED << tsReq, tsOn, tsCurrent, tsClosed, tsRunning, tsOverlap >>
    BY DEF TsPanic
  <1>2. TsTypeOK' /\ TsTestsOK'
    BY <1>1 DEF TsTypeOK, TsTestsOK, TsHasTest, TsNone
  <1>3. ~tsOverlap => TsOneTest'
    BY <1>1 DEF TsOneTest, TsBusy
  <1>4. tsOverlap \/ r \in TsUnrunnable \cup TsBadRange
    BY <1>1, TsAssumption DEF TsOneTest, TsNoneToClose
  <1>5. tsReq'[r] = "answered"
    BY <1>1 DEF TsTestsOK
  <1>6. TsCrashNeedsOverlap'
    BY <1>1, <1>4, <1>5 DEF TsCrashNeedsOverlap
  <1> QED
    BY <1>1, <1>2, <1>3, <1>6

\* The process of performance/ ends by a panic only when testCaseHandler ran for two
\* requests at a time or a request asked for a scenario without a runner, or for an
\* interval or a range that makes NewTicker or rand.Int64N panic: the wait for exitCH
\* keeps runTests of one test from closing the channel of another, for any number of
\* requests.
THEOREM CrashNeedsOverlap == TsSpec => []TsCrashNeedsOverlap
  <1>1. TsInit({TRUE}) => TsInv
    BY DEF TsInit, TsInv, TsTypeOK, TsPlaces, TsTestsOK, TsOneTest, TsBusy, TsCrashNeedsOverlap
  <1>2. ASSUME TsInv, [TsNext]_tsVars PROVE TsInv'
    <2>1. CASE UNCHANGED tsVars
      BY <1>2, <2>1 DEF tsVars, TsInv, TsTypeOK, TsTestsOK, TsHasTest, TsOneTest, TsBusy,
                        TsCrashNeedsOverlap, TsNone
    <2>2. ASSUME NEW r \in TsRequests, TsPost(r) \/ TsHandle(r) \/ TsRunTests(r) \/ TsPanic(r)
          PROVE  TsInv'
      BY <1>2, <2>2, TsPostKeeps, TsHandleKeeps, TsCreateKeeps, TsDecodeKeeps, TsRunTestsKeeps,
         TsPanicKeeps DEF TsHandle
    <2> QED
      BY <1>2, <2>1, <2>2 DEF TsNext
  <1>3. TsInv => TsCrashNeedsOverlap
    BY DEF TsInv
  <1> QED
    BY <1>1, <1>2, <1>3, PTL DEF TsSpec

-----------------------------------------------------------------------------
(***************************************************************************)
(* The runners of performance/ that share the map: lock and sync.Map       *)
(***************************************************************************)
PfTypeOK ==
  /\ pfMax \in Nat /\ pfInit \in Nat /\ pfAppend \in Int /\ pfUpdate \in Int
  /\ pfSeen \in Int
  /\ DOMAIN pfState \subseteq Nat /\ pfEarly \subseteq Nat
  /\ pfCommit.off \in Nat /\ pfCommit.latest \in Nat

\* The offset that appendLoop is about to store is MaxReceived, but for the first.
PfAppendOK ==
  /\ pfAppend > 0 => pfAppend = pfMax /\ pfAppend # 1
  /\ pfAppend = 0 => pfMax = 1

\* A key of the map was appended, or updateLoop was early.
PfKnown(o) == o \in pfEarly \/ PfAppended(o)
PfKeysOK == \A o \in DOMAIN pfState : PfKnown(o)

\* Nothing is pending below x, and nothing that is being appended will be.
PfExempt(o) == o = 0 \/ o \in pfEarly
PfClear(x) == \A o \in DOMAIN pfState : pfState[o] = Pending /\ o < x => PfExempt(o)
PfReach(x) == x <= pfMax + 1 /\ (pfAppend > 0 /\ pfAppend < x => pfAppend \in pfEarly)

\* The offset a scan has found, and how far one has got.
PfFoundOK ==
  pfCommit.pc = "store" => \A x \in Nat : x = pfCommit.latest => PfClear(x) /\ PfReach(x)
PfScanOK ==
  pfCommit.pc = "scan" =>
    /\ pfCommit.latest <= pfMax
    /\ pfMode = "lock" => pfCommit.off = pfInit
    /\ \A o \in DOMAIN pfState :
         pfState[o] = Pending /\ o < pfCommit.off /\ o < pfCommit.latest => PfExempt(o)
PfLenOK ==
  pfCommit.pc \in {"delete", "len"} =>
    /\ pfCommit.off <= pfCommit.latest /\ pfCommit.latest <= pfMax
    /\ \A o \in DOMAIN pfState : pfState[o] = Pending /\ o <= pfCommit.off => PfExempt(o)
    /\ \A x \in Nat : x = pfCommit.off => PfKnown(x)

PfShared ==
  /\ PfTypeOK /\ PfAppendOK /\ PfKeysOK
  /\ \A x \in Nat : x = pfInit => PfClear(x) /\ PfReach(x)
  /\ PfFoundOK /\ PfScanOK /\ PfLenOK

\* Only the variant with channels has an owner of the map.
PfInv ==
  /\ pfOwner => pfMode = "chan"
  /\ pfMode # "chan" => PfShared

\* What a step has to keep, once the map, MaxReceived and the append are known.
\* More offsets become exempt; a pending message appears only where appendLoop puts
\* it; MaxReceived and the append move together.
PfMoves ==
  /\ pfEarly \subseteq pfEarly' /\ pfMax <= pfMax'
  /\ \A o \in DOMAIN pfState' : pfState'[o] = Pending =>
       \/ o \in DOMAIN pfState /\ pfState[o] = Pending
       \/ o = pfAppend
  /\ \/ pfAppend' = pfAppend /\ pfMax' = pfMax
     \/ pfAppend' < 0 /\ pfMax' = pfMax
     \/ pfAppend < 0 /\ pfMax' = pfMax + 1 /\ (pfAppend' = pfMax' \/ (pfAppend' = 0 /\ pfMax = 0))

LEMMA PfMovesClear ==
  ASSUME PfTypeOK, PfTypeOK', PfAppendOK, PfMoves, NEW x \in Nat, PfClear(x), PfReach(x)
  PROVE  PfClear(x)' /\ PfReach(x)'
  <1> USE DEF PfTypeOK
  <1>1. ASSUME NEW o \in DOMAIN pfState', pfState'[o] = Pending, o < x PROVE PfExempt(o)'
    <2>1. CASE o \in DOMAIN pfState /\ pfState[o] = Pending
      BY <1>1, <2>1 DEF PfClear, PfExempt, PfMoves
    <2>2. CASE o = pfAppend
      <3>1. o \in Nat
        BY <1>1
      <3>2. o = 0 \/ pfAppend > 0
        BY <2>2, <3>1
      <3> QED
        BY <1>1, <2>2, <3>2 DEF PfReach, PfExempt, PfMoves
    <2> QED
      BY <1>1, <2>1, <2>2 DEF PfMoves
  <1>2. PfReach(x)'
    <2>1. x <= pfMax + 1 /\ x <= pfMax' + 1
      <3>1. x <= pfMax + 1 /\ pfMax \in Nat
        BY DEF PfReach
      <3>2. pfMax <= pfMax' /\ pfMax' \in Nat
        BY DEF PfMoves
      <3>3. \A m, n \in Nat : x <= m + 1 /\ m <= n => x <= n + 1
        BY ONLY x \in Nat
      <3> QED
        BY ONLY <3>1, <3>2, <3>3
    <2>2. ASSUME pfAppend' > 0, pfAppend' < x PROVE pfAppend' \in pfEarly'
      <3>1. ASSUME pfMax' = pfMax + 1, pfAppend' = pfMax' PROVE FALSE
        <4>1. x <= pfMax'
          BY <2>1, <3>1
        <4> QED
          BY <2>2, <3>1, <4>1
      <3>2. pfAppend' = pfAppend
        BY <2>2, <3>1 DEF PfMoves
      <3> QED
        BY <2>2, <3>2 DEF PfReach, PfMoves
    <2> QED
      BY <2>1, <2>2 DEF PfReach
  <1> QED
    BY <1>1, <1>2 DEF PfClear, Pending

\* An offset that was appended, or marked early, stays so.
LEMMA PfMovesKnown ==
  ASSUME PfTypeOK, PfTypeOK', PfAppendOK, PfMoves, NEW o \in Nat, PfKnown(o)
  PROVE  PfKnown(o)'
  <1> USE DEF PfTypeOK
  <1>1. CASE o \in pfEarly
    BY <1>1 DEF PfKnown, PfMoves
  <1>2. CASE PfAppended(o)
    <2>1. o # pfAppend /\ o # 1 /\ (o = 0 => pfMax > 0) /\ o <= pfMax
      BY <1>2 DEF PfAppended
    <2>2. o # pfAppend' /\ (o = 0 => pfMax' > 0) /\ o <= pfMax'
      BY <2>1 DEF PfMoves
    <2> QED
      BY <2>1, <2>2 DEF PfKnown, PfAppended
  <1> QED
    BY <1>1, <1>2 DEF PfKnown

LEMMA PfMovesScan ==
  ASSUME PfShared, PfTypeOK', PfMoves, UNCHANGED << pfMode, pfInit, pfCommit >>
  PROVE  PfFoundOK' /\ PfScanOK' /\ PfLenOK'
  <1> USE DEF PfShared
  <1>1. PICK k \in Nat, n \in Nat : /\ k = pfCommit.off /\ n = pfCommit.latest
                                    /\ k = pfCommit'.off /\ n = pfCommit'.latest
    BY DEF PfTypeOK
  <1>2. PfFoundOK'
    <2>1. ASSUME pfCommit.pc = "store" PROVE PfClear(n)' /\ PfReach(n)'
      BY <1>1, <2>1, PfMovesClear DEF PfFoundOK
    <2> QED
      BY <1>1, <2>1 DEF PfFoundOK
  <1>3. PfScanOK'
    <2>1. SUFFICES ASSUME pfCommit.pc = "scan"
                   PROVE  /\ n <= pfMax' /\ (pfMode = "lock" => k = pfInit)
                          /\ \A o \in DOMAIN pfState' :
                               pfState'[o] = Pending /\ o < k /\ o < n => PfExempt(o)'
      BY <1>1 DEF PfScanOK, Pending
    <2>2. n <= pfMax' /\ n <= pfMax /\ (pfMode = "lock" => k = pfInit)
      BY <1>1, <2>1 DEF PfScanOK, PfMoves, PfTypeOK
    <2>3. ASSUME NEW o \in DOMAIN pfState', pfState'[o] = Pending, o < k, o < n PROVE PfExempt(o)'
      <3>1. CASE o \in DOMAIN pfState /\ pfState[o] = Pending
        BY <1>1, <2>1, <2>3, <3>1 DEF PfScanOK, PfExempt, PfMoves
      <3>2. CASE o = pfAppend
        <4>1. o \in Nat /\ o < pfMax
          BY <2>2, <2>3 DEF PfTypeOK
        <4>2. o = 0
          BY <3>2, <4>1 DEF PfAppendOK, PfTypeOK
        <4> QED
          BY <4>2 DEF PfExempt
      <3> QED
        BY <2>3, <3>1, <3>2 DEF PfMoves
    <2> QED
      BY <2>2, <2>3
  <1>4. PfLenOK'
    <2>1. SUFFICES ASSUME pfCommit.pc \in {"delete", "len"}
                   PROVE  /\ k <= n /\ n <= pfMax'
                          /\ \A o \in DOMAIN pfState' : pfState'[o] = Pending /\ o <= k => PfExempt(o)'
                          /\ PfKnown(k)'
      BY <1>1 DEF PfLenOK, Pending
    <2>2. k <= n /\ n <= pfMax /\ PfKnown(k)
      BY <1>1, <2>1 DEF PfLenOK
    <2>3. n <= pfMax'
      BY <2>2 DEF PfMoves, PfTypeOK
    <2>4. PfKnown(k)'
      BY <2>2, PfMovesKnown
    <2>5. ASSUME NEW o \in DOMAIN pfState', pfState'[o] = Pending, o <= k PROVE PfExempt(o)'
      <3>1. CASE o \in DOMAIN pfState /\ pfState[o] = Pending
        BY <1>1, <2>1, <2>5, <3>1 DEF PfLenOK, PfExempt, PfMoves
      <3>2. CASE o = pfAppend
        <4>1. o \in Nat /\ (o > 0 => o = pfMax)
          BY <2>5, <3>2 DEF PfTypeOK, PfAppendOK
        <4>2. o > 0 => o = k
          BY <2>2, <2>5, <4>1 DEF PfTypeOK
        <4>3. o > 0 => o \in pfEarly
          BY <2>2, <3>2, <4>2 DEF PfKnown, PfAppended
        <4> QED
          BY <4>1, <4>3 DEF PfExempt, PfMoves
      <3> QED
        BY <2>5, <3>1, <3>2 DEF PfMoves
    <2> QED
      BY <2>2, <2>3, <2>4, <2>5
  <1> QED
    BY <1>2, <1>3, <1>4

LEMMA PfStep ==
  ASSUME PfShared, PfTypeOK', PfAppendOK', PfMoves, UNCHANGED << pfMode, pfInit, pfCommit >>,
         \A o \in DOMAIN pfState' : o \in DOMAIN pfState \/ PfKnown(o)'
  PROVE  PfShared'
  <1> USE DEF PfShared
  <1>1. PfKeysOK'
    <2>1. ASSUME NEW o \in DOMAIN pfState' PROVE PfKnown(o)'
      <3>1. CASE o \in DOMAIN pfState
        BY <3>1, PfMovesKnown DEF PfKeysOK, PfTypeOK
      <3> QED
        BY <3>1
    <2> QED
      BY <2>1 DEF PfKeysOK
  <1>2. PICK i \in Nat : i = pfInit /\ i = pfInit'
    BY DEF PfTypeOK
  <1>3. PfClear(i)' /\ PfReach(i)'
    BY <1>2, PfMovesClear
  <1>4. \A x \in Nat : x = pfInit' => PfClear(x)' /\ PfReach(x)'
    BY <1>2, <1>3
  <1> QED
    BY <1>1, <1>4, PfMovesScan

LEMMA PfAppendTickKeeps ==
  ASSUME PfShared, PfAppendTick
  PROVE  PfShared'
  <1>1. /\ pfAppend = -1 /\ pfMax \in Nat
        /\ pfMax' = pfMax + 1 /\ pfAppend' = IF pfMax = 0 THEN 0 ELSE pfMax + 1
        /\ UNCHANGED << pfMode, pfInit, pfState, pfUpdate, pfSeen, pfCommit, pfEarly >>
    BY DEF PfShared, PfTypeOK, PfAppendTick, PfIdle, PfNextOffset, pfDataVars
  <1>2. PfTypeOK' /\ PfAppendOK' /\ PfMoves
    BY <1>1 DEF PfShared, PfTypeOK, PfAppendOK, PfMoves
  <1> QED
    BY <1>1, <1>2, PfStep

LEMMA PfAppendStoreKeeps ==
  ASSUME PfShared, pfMode # "chan", PfAppendStore
  PROVE  PfShared'
  <1> USE DEF PfShared
  <1>1. /\ pfAppend \in Nat /\ pfAppend' = -1 /\ pfState' = PfPut(pfState, pfAppend, Pending)
        /\ UNCHANGED << pfMode, pfInit, pfMax, pfUpdate, pfSeen, pfCommit, pfEarly >>
    BY DEF PfTypeOK, PfAppendStore, PfWrite, PfIdle, pfDataVars
  <1>2. /\ DOMAIN pfState' = DOMAIN pfState \cup {pfAppend}
        /\ \A o \in DOMAIN pfState : o # pfAppend => pfState'[o] = pfState[o]
    BY <1>1 DEF PfPut
  <1>3. PfTypeOK' /\ PfAppendOK' /\ PfMoves
    BY <1>1, <1>2 DEF PfTypeOK, PfAppendOK, PfMoves
  <1>4. PICK a \in Nat : a = pfAppend
    BY <1>1
  <1>5. PfKnown(a)'
    BY <1>1, <1>4 DEF PfKnown, PfAppended, PfAppendOK, PfTypeOK
  <1> QED
    BY <1>1, <1>2, <1>3, <1>4, <1>5, PfStep

LEMMA PfUpdateStoreKeeps ==
  ASSUME PfShared, pfMode # "chan", PfUpdateStore
  PROVE  PfShared'
  <1> USE DEF PfShared
  <1>1. /\ pfUpdate \in Nat /\ pfUpdate' = -1 /\ pfState' = PfPut(pfState, pfUpdate, Success)
        /\ pfEarly' = IF PfAppended(pfUpdate) THEN pfEarly ELSE pfEarly \cup {pfUpdate}
        /\ UNCHANGED << pfMode, pfInit, pfMax, pfAppend, pfSeen, pfCommit >>
    BY DEF PfTypeOK, PfUpdateStore, PfWrite, PfIdle, pfDataVars
  <1>2. /\ DOMAIN pfState' = DOMAIN pfState \cup {pfUpdate} /\ pfState'[pfUpdate] # Pending
        /\ \A o \in DOMAIN pfState : o # pfUpdate => pfState'[o] = pfState[o]
    BY <1>1 DEF PfPut, Success, Pending
  <1>3. PfTypeOK' /\ PfAppendOK' /\ PfMoves
    <2>1. PfTypeOK'
      <3>1. DOMAIN pfState' \subseteq Nat /\ pfEarly' \subseteq Nat
        BY <1>1, <1>2 DEF PfTypeOK
      <3>2. pfUpdate' \in Int
        BY <1>1
      <3>3. UNCHANGED << pfMax, pfInit, pfAppend, pfSeen, pfCommit >>
        BY <1>1
      <3> QED
        BY <3>1, <3>2, <3>3 DEF PfTypeOK
    <2>2. PfAppendOK'
      BY <1>1 DEF PfAppendOK
    <2>3. pfEarly \subseteq pfEarly' /\ pfMax <= pfMax'
      BY <1>1 DEF PfTypeOK
    <2>4. \A o \in DOMAIN pfState' : pfState'[o] = Pending => o \in DOMAIN pfState /\ pfState[o] = Pending
      BY <1>2
    <2> QED
      BY <1>1, <2>1, <2>2, <2>3, <2>4 DEF PfMoves
  <1>4. PICK u \in Nat : u = pfUpdate
    BY <1>1
  <1>5. PfKnown(u)'
    BY <1>1, <1>4 DEF PfKnown, PfAppended
  <1> QED
    BY <1>1, <1>2, <1>3, <1>4, <1>5, PfStep

\* Steps of commitLoop leave the append alone; the map may lose finished messages.
PfScans ==
  /\ UNCHANGED << pfMode, pfMax, pfAppend, pfUpdate, pfSeen, pfEarly >>
  /\ DOMAIN pfState' \subseteq DOMAIN pfState
  /\ \A o \in DOMAIN pfState' : pfState'[o] = pfState[o]

LEMMA PfScansKeep ==
  ASSUME PfShared, PfScans, pfInit' \in Nat, pfCommit'.off \in Nat, pfCommit'.latest \in Nat
  PROVE  /\ PfTypeOK' /\ PfAppendOK' /\ PfKeysOK'
         /\ \A x \in Nat : /\ PfClear(x) => PfClear(x)'
                           /\ PfReach(x) <=> PfReach(x)'
         /\ \A x \in Nat : PfKnown(x) <=> PfKnown(x)'
         /\ \A o : PfExempt(o) <=> PfExempt(o)'
  <1> USE DEF PfShared, PfScans
  <1>1. PfTypeOK'
    BY DEF PfTypeOK
  <1>2. PfAppendOK'
    BY DEF PfAppendOK
  <1>3. \A o : (PfKnown(o) <=> PfKnown(o)') /\ (PfExempt(o) <=> PfExempt(o)')
    BY DEF PfKnown, PfAppended, PfExempt
  <1>4. PfKeysOK'
    BY <1>3 DEF PfKeysOK
  <1>5. \A x \in Nat : PfClear(x) => PfClear(x)'
    BY <1>3 DEF PfClear, Pending
  <1>6. \A x \in Nat : PfReach(x) <=> PfReach(x)'
    BY DEF PfReach
  <1> QED
    BY <1>1, <1>2, <1>3, <1>4, <1>5, <1>6

\* A scan ends with l.
LEMMA PfFoundKeeps ==
  ASSUME PfShared, PfScans, pfInit' = pfInit, pfCommit'.pc = "store", pfCommit'.off \in Nat,
         NEW l \in Nat, pfCommit'.latest = l, PfClear(l)', PfReach(l)
  PROVE  PfShared'
  <1>1. pfInit' \in Nat
    BY DEF PfShared, PfTypeOK
  <1>2. /\ PfTypeOK' /\ PfAppendOK' /\ PfKeysOK'
        /\ \A x \in Nat : (PfClear(x) => PfClear(x)') /\ (PfReach(x) <=> PfReach(x)')
    BY <1>1, PfScansKeep
  <1>3. PfFoundOK' /\ PfScanOK' /\ PfLenOK'
    BY <1>2 DEF PfFoundOK, PfScanOK, PfLenOK
  <1>4. \A x \in Nat : x = pfInit' => PfClear(x)' /\ PfReach(x)'
    BY <1>2 DEF PfShared
  <1> QED
    BY <1>2, <1>3, <1>4 DEF PfShared

\* Offsets up to MaxReceived are out of appendLoop's reach.
LEMMA PfReachUpTo ==
  ASSUME PfShared, NEW x \in Nat,
         x <= pfMax \/ (x = pfMax + 1 /\ PfKnown(pfMax))
  PROVE  PfReach(x)
  <1> USE DEF PfShared, PfTypeOK
  <1>1. x <= pfMax + 1
    OBVIOUS
  <1>2. ASSUME pfAppend > 0, pfAppend < x PROVE pfAppend \in pfEarly
    <2>1. pfAppend = pfMax
      BY <1>2 DEF PfAppendOK
    <2>2. PfKnown(pfMax)
      BY <1>2, <2>1
    <2> QED
      BY <2>1, <2>2 DEF PfKnown, PfAppended
  <1> QED
    BY <1>1, <1>2 DEF PfReach

LEMMA PfScanLockKeeps ==
  ASSUME PfShared, PfScanLock
  PROVE  PfShared'
  <1> USE DEF PfShared
  <1>1. PICK k \in Nat, n \in Nat : k = pfCommit.off /\ n = pfCommit.latest
    BY DEF PfTypeOK
  <1>2. pfMode = "lock" /\ pfCommit.pc = "scan"
    BY DEF PfScanLock
  <1>3. PICK l \in 0 .. PfMaxOffset + 1 :
          /\ IsLatestToCommit(pfState, k, n, l) /\ pfState' = Pruned(pfState, k, n, l)
          /\ pfCommit' = [pc |-> "store", off |-> k, latest |-> l]
    BY <1>1 DEF PfScanLock, PfCommitTo
  <1>4. /\ l \in Nat /\ pfCommit'.pc = "store" /\ pfCommit'.off = k /\ pfCommit'.latest = l
    BY <1>3, PfAssumption
  <1>5. UNCHANGED << pfMode, pfInit, pfMax, pfAppend, pfUpdate, pfSeen, pfEarly >>
    BY DEF PfScanLock, pfDataVars
  <1>6. PfScans
    BY <1>3, <1>5 DEF PfScans, Pruned
  <1>7. n <= pfMax /\ pfMax \in Nat /\ DOMAIN pfState \subseteq Nat
    BY <1>1, <1>2 DEF PfScanOK, PfTypeOK
  <1>8. PfClear(k)
    BY <1>1, <1>2 DEF PfScanOK
  <1>9. l <= n \/ (l = n + 1 /\ n \in DOMAIN pfState)
    BY <1>3, <1>4, <1>7 DEF IsLatestToCommit, PendingIn, Scanned
  <1>10. PfReach(l)
    <2>1. CASE l <= n
      BY <1>4, <1>7, <2>1, PfReachUpTo
    <2>2. CASE l = n + 1 /\ n \in DOMAIN pfState
      <3>1. PfKnown(n)
        BY <2>2 DEF PfKeysOK
      <3>2. l <= pfMax \/ (l = pfMax + 1 /\ n = pfMax)
        BY <1>4, <1>7, <2>2
      <3> QED
        BY <1>4, <3>1, <3>2, PfReachUpTo
    <2> QED
      BY <1>9, <2>1, <2>2
  <1>11. PfClear(l)
    <2>1. SUFFICES ASSUME NEW o \in DOMAIN pfState, pfState[o] = Pending, o < l PROVE PfExempt(o)
      BY DEF PfClear
    <2>2. o \notin PendingIn(pfState, k, n)
      BY <1>3, <1>4, <1>7, <2>1 DEF IsLatestToCommit
    <2>3. o < k \/ n < o
      BY <1>7, <2>1, <2>2 DEF PendingIn, Scanned
    <2>4. o < k
      BY <1>4, <1>7, <1>9, <2>1, <2>3
    <2> QED
      BY <1>8, <2>1, <2>4 DEF PfClear
  <1>12. PfClear(l)'
    <2>1. pfInit' \in Nat
      BY <1>5 DEF PfTypeOK
    <2> QED
      BY <1>4, <1>6, <1>11, <2>1, PfScansKeep
  <1> QED
    BY <1>4, <1>5, <1>6, <1>10, <1>12, PfFoundKeeps

LEMMA PfCommitTickKeeps ==
  ASSUME PfShared, pfMode # "chan", PfCommitTick
  PROVE  PfShared'
  <1> USE DEF PfShared
  <1>1. /\ pfCommit' = [pc |-> "scan", off |-> pfInit, latest |-> pfMax]
        /\ UNCHANGED << pfMode, pfState, pfMax, pfInit, pfAppend, pfUpdate, pfSeen, pfEarly >>
    BY DEF PfCommitTick, PfCommitTo, pfDataVars
  <1>2. /\ pfCommit'.pc = "scan" /\ pfCommit'.off = pfInit /\ pfCommit'.latest = pfMax
        /\ pfInit \in Nat /\ pfMax \in Nat
    BY <1>1 DEF PfTypeOK
  <1>3. PfScans
    BY <1>1 DEF PfScans
  <1>4. /\ PfTypeOK' /\ PfAppendOK' /\ PfKeysOK'
        /\ \A x \in Nat : (PfClear(x) => PfClear(x)') /\ (PfReach(x) <=> PfReach(x)')
    BY <1>1, <1>2, <1>3, PfScansKeep
  <1>5. \A x \in Nat : x = pfInit' => PfClear(x)' /\ PfReach(x)'
    BY <1>1, <1>4
  <1>6. PfFoundOK' /\ PfLenOK'
    BY <1>2 DEF PfFoundOK, PfLenOK
  <1>7. PICK i \in Nat : i = pfInit /\ i = pfInit'
    BY <1>1, <1>2
  <1>8. PfClear(i)'
    BY <1>5, <1>7
  <1>9. PfScanOK'
    BY <1>1, <1>2, <1>7, <1>8 DEF PfScanOK, PfClear
  <1> QED
    BY <1>4, <1>5, <1>6, <1>9

LEMMA PfCommitStoreKeeps ==
  ASSUME PfShared, PfCommitStore
  PROVE  PfShared'
  <1> USE DEF PfShared
  <1>1. /\ pfCommit.pc = "store" /\ pfInit' = pfCommit.latest /\ pfCommit' = PfNoScan
        /\ UNCHANGED << pfMode, pfState, pfMax, pfAppend, pfUpdate, pfSeen, pfEarly >>
    BY DEF PfCommitStore
  <1>2. /\ pfCommit'.pc = "idle" /\ pfCommit'.off \in Nat /\ pfCommit'.latest \in Nat /\ pfInit' \in Nat
    BY <1>1 DEF PfNoScan, PfTypeOK
  <1>3. PfScans
    BY <1>1 DEF PfScans
  <1>4. /\ PfTypeOK' /\ PfAppendOK' /\ PfKeysOK'
        /\ \A x \in Nat : (PfClear(x) => PfClear(x)') /\ (PfReach(x) <=> PfReach(x)')
    BY <1>2, <1>3, PfScansKeep
  <1>5. \A x \in Nat : x = pfInit' => PfClear(x)' /\ PfReach(x)'
    BY <1>1, <1>4 DEF PfFoundOK
  <1>6. PfFoundOK' /\ PfLenOK' /\ PfScanOK'
    BY <1>2 DEF PfFoundOK, PfLenOK, PfScanOK
  <1> QED
    BY <1>4, <1>5, <1>6

\* The scan goes on at the next offset: nothing is pending up to the last one.
LEMMA PfNextOffsetKeeps ==
  ASSUME PfShared, PfScans, pfInit' = pfInit, pfMode # "lock", NEW k \in Nat, NEW n \in Nat,
         pfCommit' = [pc |-> "scan", off |-> k + 1, latest |-> n], n <= pfMax,
         \A o \in DOMAIN pfState : pfState[o] = Pending /\ o <= k => PfExempt(o)
  PROVE  PfShared'
  <1>1. /\ pfCommit'.pc = "scan" /\ pfCommit'.off = k + 1 /\ pfCommit'.latest = n
        /\ pfInit' \in Nat /\ k + 1 \in Nat
    BY DEF PfShared, PfTypeOK
  <1>2. /\ PfTypeOK' /\ PfAppendOK' /\ PfKeysOK' /\ \A o : PfExempt(o) <=> PfExempt(o)'
        /\ \A x \in Nat : (PfClear(x) => PfClear(x)') /\ (PfReach(x) <=> PfReach(x)')
    BY <1>1, PfScansKeep
  <1>3. \A x \in Nat : x = pfInit' => PfClear(x)' /\ PfReach(x)'
    BY <1>2 DEF PfShared
  <1>4. PfFoundOK' /\ PfLenOK'
    BY <1>1 DEF PfFoundOK, PfLenOK
  <1>5. ASSUME NEW o \in DOMAIN pfState', pfState'[o] = Pending, o < k + 1 PROVE PfExempt(o)'
    <2>1. o \in DOMAIN pfState /\ pfState[o] = Pending /\ o \in Nat
      BY <1>5 DEF PfScans, PfShared, PfTypeOK
    <2>2. o <= k
      BY <1>5, <2>1
    <2> QED
      BY <1>2, <2>1, <2>2
  <1>6. PfScanOK'
    BY <1>1, <1>5 DEF PfScanOK, PfScans, Pending
  <1> QED
    BY <1>2, <1>3, <1>4, <1>6 DEF PfShared

LEMMA PfScanSyncMapKeeps ==
  ASSUME PfShared, PfScanSyncMap
  PROVE  PfShared'
  <1> USE DEF PfShared
  <1>1. PICK k \in Nat, n \in Nat : k = pfCommit.off /\ n = pfCommit.latest
    BY DEF PfTypeOK
  <1>2. /\ pfMode = "syncmap" /\ pfMode # "lock"
        /\ UNCHANGED << pfMode, pfInit, pfMax, pfAppend, pfUpdate, pfSeen, pfEarly >>
    BY DEF PfScanSyncMap, pfDataVars
  <1>3. pfMax \in Nat /\ DOMAIN pfState \subseteq Nat /\ pfInit \in Nat
    BY DEF PfTypeOK
  <1>4. ASSUME pfCommit.pc = "scan", pfState' = pfState, NEW l \in Nat, l <= n, l <= k,
               pfCommit' = [pc |-> "store", off |-> k, latest |-> l]
        PROVE  PfShared'
    <2>1. PfScans /\ pfCommit'.pc = "store" /\ pfCommit'.off = k /\ pfCommit'.latest = l
      BY <1>2, <1>4 DEF PfScans
    <2>2. n <= pfMax
      BY <1>1, <1>4 DEF PfScanOK
    <2>3. PfReach(l)
      BY <1>3, <1>4, <2>2, PfReachUpTo
    <2>4. ASSUME NEW o \in DOMAIN pfState, pfState[o] = Pending, o < l PROVE PfExempt(o)
      <3>1. o < k /\ o < n
        BY <1>3, <1>4, <2>4
      <3> QED
        BY <1>1, <1>4, <2>4, <3>1 DEF PfScanOK
    <2>5. PfClear(l)
      BY <2>4 DEF PfClear
    <2>6. pfInit' \in Nat
      BY <1>2, <1>3
    <2>7. PfClear(l)'
      BY <2>1, <2>5, <2>6, PfScansKeep
    <2> QED
      BY <1>2, <1>4, <2>1, <2>3, <2>7, PfFoundKeeps
  <1>5. CASE /\ pfCommit.pc = "scan" /\ k > n /\ pfState' = pfState
             /\ pfCommit' = [pc |-> "store", off |-> k, latest |-> n]
    BY <1>4, <1>5
  <1>6. CASE /\ pfCommit.pc = "scan" /\ k <= n /\ pfState' = pfState
             /\ pfCommit' = [pc |-> "store", off |-> k, latest |-> k]
    BY <1>4, <1>6
  <1>7. CASE /\ pfCommit.pc = "scan" /\ k <= n /\ k \notin DOMAIN pfState /\ pfState' = pfState
             /\ pfCommit' = [pc |-> "scan", off |-> k + 1, latest |-> n]
    <2>1. PfScans
      BY <1>2, <1>7 DEF PfScans
    <2>2. n <= pfMax
      BY <1>1, <1>7 DEF PfScanOK
    <2>3. ASSUME NEW o \in DOMAIN pfState, pfState[o] = Pending, o <= k PROVE PfExempt(o)
      <3>1. o < k /\ o < n
        BY <1>3, <1>7, <2>3
      <3> QED
        BY <1>1, <1>7, <2>3, <3>1 DEF PfScanOK
    <2> QED
      BY <1>2, <1>7, <2>1, <2>2, <2>3, PfNextOffsetKeeps
  <1>8. CASE /\ pfCommit.pc = "scan" /\ k <= n /\ k \in DOMAIN pfState /\ pfState[k] # Pending
             /\ pfCommit' = [pc |-> "delete", off |-> k, latest |-> n] /\ pfState' = pfState
    <2>1. PfScans /\ pfCommit'.pc = "delete" /\ pfCommit'.off = k /\ pfCommit'.latest = n /\ pfInit' \in Nat
      BY <1>2, <1>3, <1>8 DEF PfScans
    <2>2. /\ PfTypeOK' /\ PfAppendOK' /\ PfKeysOK' /\ \A o : PfExempt(o) <=> PfExempt(o)'
          /\ \A x \in Nat : (PfClear(x) => PfClear(x)') /\ (PfReach(x) <=> PfReach(x)')
          /\ \A x \in Nat : PfKnown(x) <=> PfKnown(x)'
      BY <2>1, PfScansKeep
    <2>3. n <= pfMax
      BY <1>1, <1>8 DEF PfScanOK
    <2>4. PfKnown(k)'
      BY <1>8, <2>2 DEF PfKeysOK
    <2>5. ASSUME NEW o \in DOMAIN pfState', pfState'[o] = Pending, o <= k PROVE PfExempt(o)'
      <3>1. o \in DOMAIN pfState /\ o \in Nat /\ pfState[o] = Pending /\ o # k
        BY <1>3, <1>8, <2>5
      <3>2. o < k /\ o < n
        BY <1>8, <2>5, <3>1
      <3>3. PfExempt(o)
        BY <1>1, <1>8, <3>1, <3>2 DEF PfScanOK
      <3> QED
        BY <2>2, <3>3
    <2>6. PfLenOK'
      BY <1>2, <1>8, <2>1, <2>3, <2>4, <2>5 DEF PfLenOK, Pending
    <2>7. PfFoundOK' /\ PfScanOK'
      BY <2>1 DEF PfFoundOK, PfScanOK
    <2>8. \A x \in Nat : x = pfInit' => PfClear(x)' /\ PfReach(x)'
      BY <1>2, <2>2
    <2> QED
      BY <2>2, <2>6, <2>7, <2>8
  <1>11. CASE /\ pfCommit.pc = "delete" /\ pfCommit' = [pc |-> "len", off |-> k, latest |-> n]
              /\ pfState' = [p \in DOMAIN pfState \ {k} |-> pfState[p]]
    <2>1. PfScans /\ pfCommit'.pc = "len" /\ pfCommit'.off = k /\ pfCommit'.latest = n /\ pfInit' \in Nat
      BY <1>2, <1>3, <1>11 DEF PfScans
    <2>2. /\ PfTypeOK' /\ PfAppendOK' /\ PfKeysOK' /\ \A o : PfExempt(o) <=> PfExempt(o)'
          /\ \A x \in Nat : (PfClear(x) => PfClear(x)') /\ (PfReach(x) <=> PfReach(x)')
          /\ \A x \in Nat : PfKnown(x) <=> PfKnown(x)'
      BY <2>1, PfScansKeep
    <2>3. /\ k <= n /\ n <= pfMax /\ PfKnown(k)
          /\ \A o \in DOMAIN pfState : pfState[o] = Pending /\ o <= k => PfExempt(o)
      BY <1>1, <1>11 DEF PfLenOK
    <2>4. \A o \in DOMAIN pfState' : pfState'[o] = Pending /\ o <= k => PfExempt(o)'
      BY <1>11, <2>2, <2>3
    <2>5. PfKnown(k)'
      BY <2>2, <2>3
    <2>6. PfLenOK'
      BY <1>2, <2>1, <2>3, <2>4, <2>5 DEF PfLenOK, Pending
    <2>7. PfFoundOK' /\ PfScanOK'
      BY <2>1 DEF PfFoundOK, PfScanOK
    <2>8. \A x \in Nat : x = pfInit' => PfClear(x)' /\ PfReach(x)'
      BY <1>2, <2>2
    <2> QED
      BY <2>2, <2>6, <2>7, <2>8
  <1>9. CASE /\ pfCommit.pc = "len" /\ pfState' = pfState /\ DOMAIN pfState = {}
             /\ pfCommit' = [pc |-> "store", off |-> k, latest |-> k + 1]
    <2>1. PfScans /\ pfCommit'.pc = "store" /\ pfCommit'.off = k /\ pfCommit'.latest = k + 1
      BY <1>2, <1>9 DEF PfScans
    <2>2. k <= n /\ n <= pfMax /\ PfKnown(k)
      BY <1>1, <1>9 DEF PfLenOK
    <2>3. k + 1 \in Nat /\ (k + 1 <= pfMax \/ (k + 1 = pfMax + 1 /\ k = pfMax))
      BY <1>3, <2>2
    <2>4. PfReach(k + 1)
      BY <2>2, <2>3, PfReachUpTo
    <2>5. PICK l \in Nat : l = k + 1
      BY <2>3
    <2>6. PfClear(l)'
      BY <1>9 DEF PfClear
    <2> QED
      BY <1>2, <2>1, <2>4, <2>5, <2>6, PfFoundKeeps
  <1>10. CASE /\ pfCommit.pc = "len" /\ pfState' = pfState
              /\ pfCommit' = [pc |-> "scan", off |-> k + 1, latest |-> n]
    <2>1. PfScans
      BY <1>2, <1>10 DEF PfScans
    <2>2. /\ n <= pfMax
          /\ \A o \in DOMAIN pfState : pfState[o] = Pending /\ o <= k => PfExempt(o)
      BY <1>1, <1>10 DEF PfLenOK
    <2> QED
      BY <1>2, <1>10, <2>1, <2>2, PfNextOffsetKeeps
  <1> QED
    BY <1>1, <1>5, <1>6, <1>7, <1>8, <1>9, <1>10, <1>11 DEF PfScanSyncMap, PfCommitTo

LEMMA PfExitKeeps ==
  ASSUME PfShared, UNCHANGED << pfMode, pfState, pfMax, pfInit, pfEarly >>, pfUpdate' \in Int, pfSeen' \in Int,
         pfAppend' = pfAppend \/ (pfAppend < 0 /\ pfAppend' = PfDone),
         \/ pfCommit' = pfCommit
         \/ pfCommit.pc = "idle" /\ pfCommit' = [PfNoScan EXCEPT !.pc = "done"]
  PROVE  PfShared'
  <1> USE DEF PfShared
  <1>1. pfAppend \in Int /\ pfAppend' \in Int /\ (pfAppend' # pfAppend => pfAppend < 0 /\ pfAppend' < 0)
    BY DEF PfTypeOK, PfDone
  <1>2. CASE pfCommit' = pfCommit
    <2>1. PfTypeOK' /\ PfAppendOK' /\ PfMoves
      BY <1>1, <1>2 DEF PfTypeOK, PfAppendOK, PfMoves
    <2> QED
      BY <1>2, <2>1, PfStep
  <1>3. CASE pfCommit.pc = "idle" /\ pfCommit' = [PfNoScan EXCEPT !.pc = "done"]
    <2>1. pfCommit'.pc = "done" /\ pfCommit'.off = 0 /\ pfCommit'.latest = 0
      BY <1>3 DEF PfNoScan
    <2>2. PfTypeOK' /\ PfAppendOK' /\ PfMoves
      BY <1>1, <2>1 DEF PfTypeOK, PfAppendOK, PfMoves
    <2>3. \A x \in Nat : PfClear(x) /\ PfReach(x) => PfClear(x)' /\ PfReach(x)'
      BY <2>2, PfMovesClear
    <2>4. \A x \in Nat : x = pfInit' => PfClear(x)' /\ PfReach(x)'
      BY <2>3
    <2>5. PfKeysOK'
      BY <2>2, PfMovesKnown DEF PfKeysOK, PfTypeOK
    <2>6. PfFoundOK' /\ PfScanOK' /\ PfLenOK'
      BY <2>1 DEF PfFoundOK, PfScanOK, PfLenOK
    <2> QED
      BY <2>2, <2>4, <2>5, <2>6
  <1> QED
    BY <1>2, <1>3

LEMMA PfWaitKeeps ==
  ASSUME PfShared, UNCHANGED << pfMode, pfState, pfMax, pfInit, pfEarly, pfAppend, pfUpdate, pfSeen >>,
         pfCommit' = [pc |-> "wait", off |-> 0, latest |-> 0]
  PROVE  PfShared'
  <1> USE DEF PfShared
  <1>1. /\ pfCommit'.pc = "wait" /\ pfCommit'.off \in Nat /\ pfCommit'.latest \in Nat
        /\ pfInit' \in Nat /\ PfScans
    BY DEF PfTypeOK, PfScans
  <1>2. /\ PfTypeOK' /\ PfAppendOK' /\ PfKeysOK'
        /\ \A x \in Nat : (PfClear(x) => PfClear(x)') /\ (PfReach(x) <=> PfReach(x)')
    BY <1>1, PfScansKeep
  <1>3. \A x \in Nat : x = pfInit' => PfClear(x)' /\ PfReach(x)'
    BY <1>2
  <1>4. PfFoundOK' /\ PfScanOK' /\ PfLenOK'
    BY <1>1 DEF PfFoundOK, PfScanOK, PfLenOK
  <1> QED
    BY <1>2, <1>3, <1>4

LEMMA PfNextKeeps ==
  ASSUME PfInv, [PfNext]_pfVars
  PROVE  PfInv'
  <1>1. pfMode' = pfMode /\ (pfOwner' => pfOwner)
    BY DEF PfNext, PfScan, pfVars, pfDataVars, PfAppendTick, PfAppendStore, PfUpdateRead,
           PfUpdateTick, PfUpdateSkip, PfUpdatePick, PfUpdateStore, PfCommitTick, PfCommitSend, PfScanLock, PfScanSyncMap, PfCommitStore, PfOwnerStep,
           PfCancel, PfAppendExit, PfUpdateExit, PfCommitExit, PfOwnerExit
  <1>2. SUFFICES ASSUME pfMode # "chan", PfShared PROVE PfShared'
    BY <1>1 DEF PfInv
  <1>3. CASE PfAppendTick
    BY <1>2, <1>3, PfAppendTickKeeps
  <1>4. CASE PfAppendStore
    BY <1>2, <1>4, PfAppendStoreKeeps
  <1>5. CASE PfUpdateStore
    BY <1>2, <1>5, PfUpdateStoreKeeps
  <1>6. CASE PfCommitTick
    BY <1>2, <1>6, PfCommitTickKeeps
  <1>7. CASE PfScan
    BY <1>2, <1>7, PfScanLockKeeps, PfScanSyncMapKeeps, PfCommitStoreKeeps DEF PfScan
  <1>8. CASE PfOwnerStep
    BY <1>2, <1>8 DEF PfInv, PfOwnerStep
  <1>9. CASE PfUpdateRead \/ PfUpdateTick
    <2>1. /\ pfUpdate' \in Int /\ pfSeen' \in Int
          /\ UNCHANGED << pfMode, pfState, pfMax, pfInit, pfEarly, pfAppend, pfCommit >>
      BY <1>2, <1>9, PfAssumption DEF PfUpdateRead, PfUpdateTick, PfUpdateSkip, PfUpdatePick,
                                      pfDataVars, PfShared, PfTypeOK, PfIdle
    <2> QED
      BY <1>2, <2>1, PfExitKeeps
  <1>11. CASE PfCommitSend
    <2>1. /\ UNCHANGED << pfMode, pfState, pfMax, pfInit, pfEarly, pfAppend, pfUpdate, pfSeen >>
          /\ pfCommit' = [pc |-> "wait", off |-> 0, latest |-> 0]
      BY <1>11 DEF PfCommitSend, PfCommitTo, pfDataVars
    <2> QED
      BY <1>2, <2>1, PfWaitKeeps
  <1>10. CASE \/ PfCancel \/ PfAppendExit \/ PfUpdateExit \/ PfCommitExit \/ PfOwnerExit
              \/ UNCHANGED pfVars
    <2>1. /\ UNCHANGED << pfMode, pfState, pfMax, pfInit, pfEarly >>
          /\ pfAppend' = pfAppend \/ (pfAppend = PfIdle /\ pfAppend' = PfDone)
          /\ pfUpdate' = pfUpdate \/ pfUpdate' = PfDone
          /\ pfSeen' = pfSeen
          /\ \/ pfCommit' = pfCommit
             \/ pfCommit.pc = "idle" /\ pfCommit' = [PfNoScan EXCEPT !.pc = "done"]
      BY <1>10 DEF PfCancel, PfAppendExit, PfUpdateExit, PfCommitExit, PfOwnerExit, pfVars, pfDataVars
    <2>2. pfUpdate' \in Int /\ pfSeen' \in Int /\ (pfAppend' = pfAppend \/ (pfAppend < 0 /\ pfAppend' = PfDone))
      BY <1>2, <2>1 DEF PfShared, PfTypeOK, PfIdle, PfDone
    <2> QED
      BY <1>2, <2>1, <2>2, PfExitKeeps
  <1> QED
    BY <1>3, <1>4, <1>5, <1>6, <1>7, <1>8, <1>9, <1>10, <1>11 DEF PfNext

\* The scans of FindLatestToCommit (performance/, the variants with a lock and with a
\* sync.Map) leave no pending message behind InitOffset, whatever appendLoop and
\* updateLoop do between the reads of MaxReceived and of the map, but for offset 0,
\* which appendLoop announces in MaxReceived before it is stored, and for offsets
\* that updateLoop marked before they were appended.
THEOREM NoPendingBehind == PfSpec => []PfNoPendingBehind
  <1>1. PfInit({"lock", "syncmap", "chan"}) => PfInv
    <2>1. SUFFICES ASSUME PfInit({"lock", "syncmap", "chan"}) PROVE PfInv
      OBVIOUS
    <2>2. /\ DOMAIN pfState = {} /\ pfMax = 0 /\ pfInit = 0 /\ pfAppend = -1 /\ pfUpdate = -1 /\ pfSeen = -1
          /\ pfCommit.pc = "idle" /\ pfCommit.off = 0 /\ pfCommit.latest = 0 /\ pfEarly = {}
          /\ pfOwner = (pfMode = "chan")
      BY <2>1 DEF PfInit, PfIdle, PfNoScan
    <2>3. PfTypeOK /\ PfAppendOK /\ PfKeysOK
      BY <2>2 DEF PfTypeOK, PfAppendOK, PfKeysOK
    <2>4. \A x \in Nat : x = pfInit => PfClear(x) /\ PfReach(x)
      BY <2>2 DEF PfClear, PfReach
    <2>5. PfFoundOK /\ PfScanOK /\ PfLenOK
      BY <2>2 DEF PfFoundOK, PfScanOK, PfLenOK
    <2> QED
      BY <2>2, <2>3, <2>4, <2>5 DEF PfInv, PfShared
  <1>2. PfInv /\ [PfNext]_pfVars => PfInv'
    BY PfNextKeeps
  <1>3. PfInv => PfNoPendingBehind
    BY DEF PfInv, PfShared, PfTypeOK, PfNoPendingBehind, PfClear, PfExempt
  <1> QED
    BY <1>1, <1>2, <1>3, PTL DEF PfSpec

==============================================================================
