------------------------ MODULE CdcInventory_proofs -------------------------
(***************************************************************************)
(* Proofs about the inventory server, for any orders, messages, partitions *)
(* and number of redeliveries and crashes.  The server runs the consumer   *)
(* of KafkaConsumer, so what is proved of the consumer holds in it; the    *)
(* rest is that a success is only ever reported after the reservation.     *)
(***************************************************************************)
EXTENDS CdcInventory, KafkaConsumer_proofs

(***************************************************************************)
(* The inductive invariant, one part per idea                              *)
(***************************************************************************)
Contents == Orders \cup {Ignored, Garbled}
Open == {"begin", "inserted", "aborted"}
Results == Open \cup {"ok", "error"}
Published(tp, o) == o \in Offsets /\ o < Len(log[tp])

\* The topic holds payments that exist, and messages are read from it.
LogOK ==
  /\ log \in [TPs -> Seq(Contents)]
  /\ \A tp \in TPs : \A i \in 1 .. Len(log[tp]) : log[tp][i] \in Orders => log[tp][i] \in payments
  /\ pc = "send" => Published(cur[1], cur[2])
  /\ \A h \in handlers : Published(h.tp, h.off)

\* A transaction is of an order; one that has inserted its row is of an order
\* without a row, and a success has left the row.
Transactions == [tp : TPs, off : Offsets, session : Nat, res : Results]
Sound(t) ==
  /\ Published(t.tp, t.off)
  /\ t.res \in Open => Order(t) \in Orders
  /\ t.res = "inserted" => Order(t) \notin inventory
  /\ t.res = "ok" /\ Order(t) \in Orders => Order(t) \in inventory

\* At most one open transaction has inserted the row of an order.
TxOK ==
  /\ tx \subseteq Transactions
  /\ \A t \in tx : Sound(t)
  /\ \A t, u \in tx : t.res = "inserted" /\ u.res = "inserted" /\ Order(t) = Order(u) => t = u

\* The tables agree.
RowsOK ==
  /\ inventory \subseteq payments
  /\ inbox \in [Orders -> Nat]
  /\ \A n \in Orders : inbox[n] = IF n \in inventory THEN 1 ELSE 0

\* What was reported is reserved, or ended in an error.
ReportsOK ==
  \A tp \in TPs, o \in Offsets : <<tp, o>> \in reported =>
    /\ Published(tp, o)
    /\ Content(tp, o) \in Orders => Content(tp, o) \in inventory \/ <<tp, o>> \in failed

CdcInv == LogOK /\ TxOK /\ RowsOK /\ ReportsOK

-----------------------------------------------------------------------------
(***************************************************************************)
(* The server runs the consumer                                            *)
(***************************************************************************)
\* The steps of the consumer inside the server.
ConsumerStep ==
  StartConsumer \/ ConsumeLoop \/ CommitOffsetLoop \/ RebalanceEvent \/ AssignPrntCB \/ RevokePrtnCB

LEMMA ConsumerStepIsNext ==
  ASSUME ConsumerStep
  PROVE  Next
  BY DEF ConsumerStep, StartConsumer, ConsumeLoop, CommitOffsetLoop, RebalanceEvent,
     AssignPrntCB, RevokePrtnCB, Next, Rebalance

\* A report of the router is a report of a handler.
LEMMA RouteIsNext ==
  ASSUME NEW h \in handlers, Route(h)
  PROVE  Next
  <1>1. Success \in MsgState /\ Error \in MsgState
    BY DEF MsgState
  <1>2. PICK t \in TxOf(h) :
          Lookup(h) \/ UpdateState(h, IF t.res = "error" THEN Error ELSE Success)
    BY DEF Route
  <1>3. CASE Lookup(h)
    BY <1>3 DEF Next
  <1>4. CASE UpdateState(h, IF t.res = "error" THEN Error ELSE Success)
    <2> DEFINE s == IF t.res = "error" THEN Error ELSE Success
    <2>1. s \in MsgState
      BY <1>1
    <2> HIDE DEF s
    <2>2. LookupMissing(h) \/ WriteState(h, s)
      BY <1>4 DEF UpdateState, s
    <2> QED
      BY <2>1, <2>2 DEF Next
  <1> QED
    BY <1>2, <1>3, <1>4

\* Every step of the server is a step of the consumer, or none.
LEMMA ServerStepIsConsumerStep ==
  ASSUME [CdcNext]_<<vars, cdcVars>>
  PROVE  [Next]_vars
  <1>1. CASE UNCHANGED <<vars, cdcVars>>
    BY <1>1
  <1>2. CASE RegisterConnector
    BY <1>2 DEF RegisterConnector
  <1>3. ASSUME NEW n \in Orders, CreatePayment(n) PROVE UNCHANGED vars
    BY <1>3 DEF CreatePayment
  <1>4. ASSUME NEW tp \in TPs, NEW c, Publish(tp, c) PROVE UNCHANGED vars
    BY <1>4 DEF Publish
  <1>5. ASSUME NEW h \in handlers, HandlerMsg(h) PROVE UNCHANGED vars
    BY <1>5 DEF HandlerMsg
  <1>6. ASSUME NEW h \in handlers, Route(h) PROVE Next
    BY <1>6, RouteIsNext
  <1>7. ASSUME NEW t \in tx, Save(t) \/ TxClosure(t) PROVE UNCHANGED vars
    BY <1>7 DEF Save, TxClosure
  <1>8. CASE CdcCrash
    BY <1>8 DEF CdcCrash, Next
  <1>9. CASE ConsumerStep
    BY <1>9, ConsumerStepIsNext
  <1> QED
    BY <1>1, <1>2, <1>3, <1>4, <1>5, <1>6, <1>7, <1>8, <1>9 DEF CdcNext, ConsumerStep

\* The inventory server implements the consumer's specification.
THEOREM ServerRunsConsumer == CdcSpec => Spec
  <1>1. CdcInit => Init
    BY DEF CdcInit
  <1>2. [CdcNext]_<<vars, cdcVars>> => [Next]_vars
    BY ServerStepIsConsumerStep
  <1> QED
    BY <1>1, <1>2, PTL DEF CdcSpec, Spec

-----------------------------------------------------------------------------
(***************************************************************************)
(* The topic and its readers                                               *)
(***************************************************************************)
\* What was published stays where it is.
Stays(tp, o) == Published(tp, o) => Published(tp, o)' /\ Content(tp, o)' = Content(tp, o)

LEMMA PublishEffect ==
  ASSUME LogOK, NEW t \in TPs, NEW c \in Contents, Publish(t, c)
  PROVE  /\ log' \in [TPs -> Seq(Contents)]
         /\ \A tp \in TPs : \A i \in 1 .. Len(log'[tp]) :
              log'[tp][i] \in Orders => log'[tp][i] \in payments'
         /\ \A tp \in TPs, o \in Offsets : Stays(tp, o)
  <1>1. /\ log \in [TPs -> Seq(Contents)] /\ payments' = payments
        /\ c \in payments \cup {Ignored, Garbled}
        /\ log' = [log EXCEPT ![t] = Append(log[t], c)]
    BY DEF LogOK, Publish
  <1>2. /\ log[t] \in Seq(Contents) /\ Append(log[t], c) \in Seq(Contents)
        /\ Len(Append(log[t], c)) = Len(log[t]) + 1 /\ Len(log[t]) \in Nat
        /\ \A i \in 1 .. Len(log[t]) : Append(log[t], c)[i] = log[t][i]
        /\ Append(log[t], c)[Len(log[t]) + 1] = c
    BY <1>1
  <1>3. /\ log'[t] = Append(log[t], c)
        /\ \A tp \in TPs : tp # t => log'[tp] = log[tp]
    BY <1>1
  <1>4. log' \in [TPs -> Seq(Contents)]
    BY <1>1, <1>2
  <1>5. ASSUME NEW tp \in TPs, NEW i \in 1 .. Len(log'[tp]), log'[tp][i] \in Orders
        PROVE  log'[tp][i] \in payments'
    <2>1. CASE tp # t
      BY <1>1, <1>3, <1>5, <2>1 DEF LogOK
    <2>2. CASE tp = t /\ i \in 1 .. Len(log[t])
      BY <1>1, <1>2, <1>3, <1>5, <2>2 DEF LogOK
    <2>3. CASE tp = t /\ i = Len(log[t]) + 1
      BY <1>1, <1>2, <1>3, <1>5, <2>3, CdcAssumption
    <2> QED
      BY <1>2, <1>3, <2>1, <2>2, <2>3
  <1>6. ASSUME NEW tp \in TPs, NEW o \in Offsets PROVE Stays(tp, o)
    <2>1. CASE tp # t
      BY <1>3, <2>1 DEF Stays, Published, Content
    <2>2. CASE tp = t
      <3>1. o \in Int /\ 0 <= o
        BY DEF Offsets
      <3>2. o < Len(log[t]) => o + 1 \in 1 .. Len(log[t]) /\ o < Len(log[t]) + 1
        BY <1>2, <3>1
      <3> QED
        BY <1>2, <1>3, <2>2, <3>2 DEF Stays, Published, Content
    <2> QED
      BY <2>1, <2>2
  <1> QED
    BY <1>4, <1>5, <1>6

LEMMA LogStep ==
  ASSUME LogOK, CdcNext
  PROVE  /\ log' \in [TPs -> Seq(Contents)]
         /\ \A tp \in TPs : \A i \in 1 .. Len(log'[tp]) :
              log'[tp][i] \in Orders => log'[tp][i] \in payments'
         /\ \A tp \in TPs, o \in Offsets : Stays(tp, o)
  <1>1. CASE \E t \in TPs, c \in Contents : Publish(t, c)
    BY <1>1, PublishEffect
  <1>2. CASE log' = log /\ payments \subseteq payments'
    <2>1. \A tp \in TPs, o \in Offsets : Stays(tp, o)
      BY <1>2 DEF Stays, Published, Content
    <2> QED
      BY <1>2, <2>1 DEF LogOK
  <1>3. CASE ~\E t \in TPs, c \in Contents : Publish(t, c)
    <2>1. log' = log /\ payments \subseteq payments'
      BY <1>3 DEF CdcNext, Contents, RegisterConnector, CreatePayment, HandlerMsg, Route, Save,
         TxClosure, CdcCrash, cdcVars
    <2> QED
      BY <1>2, <2>1
  <1> QED
    BY <1>1, <1>3

\* A step of the consumer reports nothing, and reads only what is published.
LEMMA ConsumerStepEffect ==
  ASSUME DataOK, ControlOK, LogOK, ConsumerStep
  PROVE  /\ reported' = reported
         /\ pc' = "send" => Published(cur'[1], cur'[2])
         /\ \A h \in handlers' : Published(h.tp, h.off)
  <1>1. ASSUME NEW t \in TPs, position[t] < Len(log[t]), Receive(t)
        PROVE  /\ reported' = reported /\ handlers' = handlers
               /\ pc' = "send" => Published(cur'[1], cur'[2])
    <2>1. position[t] \in Nat /\ position[t] < LogSize /\ LogSize \in Nat
      BY <1>1, ConsumerAssumption DEF DataOK, Receive
    <2>2. position[t] \in Offsets
      BY <2>1 DEF Offsets
    <2>3. cur' = <<t, position[t]>> /\ reported' = reported /\ handlers' = handlers
      BY <1>1 DEF Receive
    <2> QED
      BY <1>1, <2>2, <2>3 DEF Published
  <1>2. CASE Enqueue
    <2>1. /\ reported' = reported /\ pc = "send" /\ pc' = "poll"
          /\ handlers' = handlers \cup
               {[tp |-> cur[1], off |-> cur[2], ps |-> None, session |-> StateOf(cur[1])]}
      BY <1>2 DEF Enqueue
    <2> QED
      BY <2>1 DEF LogOK
  <1>3. CASE StartConsumer \/ CommitOffsetLoop \/ RebalanceEvent \/ AssignPrntCB \/ RevokePrtnCB
    <2>1. CASE StartConsumer
      BY <2>1 DEF StartConsumer, Startup, InitializeKafkaTopic, WaitForTopicReady, SubscribeTopics, LogOK
    <2>2. CASE CommitOffsetLoop
      <3>1. UNCHANGED <<loopVars, handlers, reported>>
        BY <2>2 DEF CommitOffsetLoop, CommitLoop, CommitTick, CommitOk, CommitErr, RecordCommit, LoopExit
      <3> QED
        BY <3>1 DEF loopVars, LogOK
    <2>3. CASE RebalanceEvent
      BY <2>3 DEF RebalanceEvent, AssignEvent, RevokeEvent, LogOK
    <2>4. CASE AssignPrntCB
      BY <2>4 DEF AssignPrntCB, AssignLock, AssignState, AssignDone, AssignNext, LogOK
    <2>5. CASE RevokePrtnCB
      BY <2>5 DEF RevokePrtnCB, RevokeFind, RevokeDelete, RevokeDone, RevokeMissing, RevokeCancel,
         LogOK
    <2> QED
      BY <1>3, <2>1, <2>2, <2>3, <2>4, <2>5
  <1> QED
    BY <1>1, <1>2, <1>3 DEF ConsumerStep, ConsumeLoop, LogOK

\* The router looks the partition state up, or reports and forgets the message.
Reports(h, t) ==
  /\ t \in TxOf(h) /\ t.res \in {"ok", "error"}
  /\ reported' = reported \cup {<<h.tp, h.off>>} /\ handlers' = handlers \ {h}
  /\ failed' = IF t.res = "error" THEN failed \cup {<<t.tp, t.off>>} ELSE failed
  /\ tx' = tx \ {t}

LEMMA RouteEffect ==
  ASSUME NEW h \in handlers, Route(h)
  PROVE  /\ UNCHANGED <<pc, cur, payments, log, inventory, inbox>>
         /\ \/ /\ UNCHANGED <<reported, tx, failed>>
               /\ handlers' = (handlers \ {h}) \cup {[h EXCEPT !.ps = StateOf(h.tp)]}
            \/ \E t \in tx : Reports(h, t)
  <1>1. PICK t \in TxOf(h) :
          /\ t.res \in {"ok", "error"}
          /\ \/ Lookup(h) /\ UNCHANGED <<tx, failed>>
             \/ /\ UpdateState(h, IF t.res = "error" THEN Error ELSE Success)
                /\ failed' = IF t.res = "error" THEN failed \cup {Msg(t)} ELSE failed
                /\ tx' = tx \ {t}
          /\ UNCHANGED <<connector, payments, log, inventory, inbox>>
    BY DEF Route
  <1>2. CASE Lookup(h) /\ UNCHANGED <<tx, failed>>
    BY <1>1, <1>2 DEF Lookup, loopVars
  <1>3. CASE /\ UpdateState(h, IF t.res = "error" THEN Error ELSE Success)
             /\ failed' = IF t.res = "error" THEN failed \cup {Msg(t)} ELSE failed
             /\ tx' = tx \ {t}
    <2> DEFINE s == IF t.res = "error" THEN Error ELSE Success
    <2> HIDE DEF s
    <2>1. LookupMissing(h) \/ WriteState(h, s)
      BY <1>3 DEF UpdateState, s
    <2>2. /\ reported' = reported \cup {<<h.tp, h.off>>} /\ handlers' = handlers \ {h}
          /\ pc' = pc /\ cur' = cur
      BY <2>1 DEF LookupMissing, WriteState, loopVars
    <2>3. Reports(h, t)
      BY <1>1, <1>3, <2>2 DEF Reports, Msg
    <2> QED
      BY <1>1, <2>2, <2>3 DEF TxOf
  <1> QED
    BY <1>1, <1>2, <1>3

\* The server's own steps leave the consumer alone.
LEMMA ServerStepFrame ==
  ASSUME \/ RegisterConnector
         \/ \E n \in Orders : CreatePayment(n)
         \/ \E tp \in TPs, c \in Contents : Publish(tp, c)
         \/ \E h \in handlers : HandlerMsg(h)
         \/ \E t \in tx : Save(t) \/ TxClosure(t)
  PROVE  UNCHANGED <<pc, cur, handlers, reported>>
  <1>1. UNCHANGED vars
    BY DEF RegisterConnector, CreatePayment, Publish, HandlerMsg, Save, TxClosure
  <1> QED
    BY <1>1 DEF vars, loopVars

LEMMA NextLog ==
  ASSUME DataOK, ControlOK, LogOK, DataOK', ControlOK', CdcNext
  PROVE  LogOK'
  <1>1. /\ pc' = "send" => Published(cur'[1], cur'[2])
        /\ \A h \in handlers' : Published(h.tp, h.off)
    <2>1. CASE ConsumerStep
      BY <2>1, ConsumerStepEffect
    <2>2. ASSUME NEW h \in handlers, Route(h)
          PROVE  /\ pc' = "send" => Published(cur'[1], cur'[2])
                 /\ \A k \in handlers' : Published(k.tp, k.off)
      <3>1. pc' = pc /\ cur' = cur
        BY <2>2, RouteEffect
      <3>2. handlers' = (handlers \ {h}) \cup {[h EXCEPT !.ps = StateOf(h.tp)]}
            \/ handlers' = handlers \ {h}
        BY <2>2, RouteEffect DEF Reports
      <3>3. h \in [tp : TPs, off : Offsets, ps : Nat, session : Nat]
        BY DEF DataOK
      <3>4. \A x : [h EXCEPT !.ps = x].tp = h.tp /\ [h EXCEPT !.ps = x].off = h.off
        BY <3>3
      <3> QED
        BY <3>1, <3>2, <3>4 DEF LogOK
    <2>3. CASE CdcCrash
      BY <2>3 DEF CdcCrash, Crash
    <2>4. CASE UNCHANGED <<pc, cur, handlers, reported>>
      BY <2>4 DEF LogOK
    <2> QED
      BY <2>1, <2>2, <2>3, <2>4, ServerStepFrame DEF CdcNext, ConsumerStep, Contents
  <1>2. \A tp \in TPs, o \in Offsets : Stays(tp, o)
    BY LogStep
  <1>3. pc' = "send" => cur'[1] \in TPs /\ cur'[2] \in Offsets
    BY DEF ControlOK, Messages
  <1>4. pc' = "send" => Published(cur[1], cur[2])'
    BY <1>1, <1>2, <1>3 DEF Stays, Published
  <1>5. \A h \in handlers' : h.tp \in TPs /\ h.off \in Offsets
    BY DEF DataOK
  <1>6. \A h \in handlers' : Published(h.tp, h.off)'
    BY <1>1, <1>2, <1>5 DEF Stays
  <1> QED
    BY <1>4, <1>6, LogStep DEF LogOK

-----------------------------------------------------------------------------
(***************************************************************************)
(* The transactions                                                        *)
(***************************************************************************)
LEMMA StepFacts ==
  ASSUME NEW t \in Transactions, NEW r \in Results
  PROVE  /\ [t EXCEPT !.res = r] \in Transactions
         /\ [t EXCEPT !.res = r].tp = t.tp /\ [t EXCEPT !.res = r].off = t.off
         /\ [t EXCEPT !.res = r].res = r
         /\ Order([t EXCEPT !.res = r]) = Order(t)
  BY DEF Transactions, Order

\* A transaction's message does not change.
LEMMA OrderStays ==
  ASSUME NEW t \in Transactions, Published(t.tp, t.off), Stays(t.tp, t.off)
  PROVE  Published(t.tp, t.off)' /\ Order(t)' = Order(t)
  BY DEF Stays, Order

\* One transaction is replaced, and the others stay sound.
LEMMA ReplaceTx ==
  ASSUME TxOK, log' = log, NEW v, tx' \subseteq tx \cup {v}, v \in Transactions, Sound(v)',
         \A u \in tx : u \in tx' => Sound(u)',
         v.res = "inserted" =>
           \A u \in tx : u \in tx' /\ u.res = "inserted" => Order(u) # Order(v)
  PROVE  TxOK'
  <1>1. \A u : Order(u)' = Order(u)
    BY DEF Order, Content
  <1>2. tx' \subseteq Transactions /\ \A u \in tx' : Sound(u)'
    BY DEF TxOK
  <1>3. ASSUME NEW t \in tx', NEW u \in tx', t.res = "inserted", u.res = "inserted",
               Order(t) = Order(u)
        PROVE  t = u
    BY <1>3 DEF TxOK
  <1> QED
    BY <1>1, <1>2, <1>3 DEF TxOK

LEMMA HandlerMsgTx ==
  ASSUME DataOK, LogOK, TxOK, NEW h \in handlers, HandlerMsg(h)
  PROVE  TxOK'
  <1>1. h.tp \in TPs /\ h.off \in Offsets /\ h.session \in Nat /\ Published(h.tp, h.off)
    BY DEF DataOK, LogOK
  <1>2. UNCHANGED <<log, inventory>>
    BY DEF HandlerMsg
  <1>3. PICK r \in {"begin", "ok", "error"} :
          /\ Enter(h, r)
          /\ r = "begin" => Order(h) \in Orders
          /\ r = "ok" => Order(h) \notin Orders
    BY DEF HandlerMsg, HandlePaymentCreated, GetEventType, DecodeMsg
  <1> DEFINE v == [tp |-> h.tp, off |-> h.off, session |-> h.session, res |-> r]
  <1>4. /\ v \in Transactions /\ v.tp = h.tp /\ v.off = h.off /\ v.res = r /\ Order(v) = Order(h)
        /\ tx' = tx \cup {v}
    BY <1>1, <1>3 DEF Transactions, Results, Open, Order, Enter
  <1> HIDE DEF v
  <1>5. \A u : Sound(u)' <=> Sound(u)
    BY <1>2 DEF Sound, Published, Order, Content
  <1>6. Sound(v)
    BY <1>1, <1>3, <1>4 DEF Sound, Open
  <1> QED
    BY <1>2, <1>3, <1>4, <1>5, <1>6, ReplaceTx DEF TxOK

LEMMA SaveTx ==
  ASSUME TxOK, NEW t \in tx, Save(t)
  PROVE  TxOK'
  <1>1. t \in Transactions /\ Sound(t) /\ t.res = "begin" /\ UNCHANGED <<log, inventory>>
    BY DEF TxOK, Save
  <1>2. PICK r \in {"error", "inserted", "aborted"} :
          /\ Step(t, r)
          /\ r = "inserted" => /\ Order(t) \notin inventory
                               /\ ~\E u \in tx : u.res = "inserted" /\ Order(u) = Order(t)
    BY DEF Save, InsertInventory
  <1> DEFINE v == [t EXCEPT !.res = r]
  <1>3. /\ v \in Transactions /\ v.tp = t.tp /\ v.off = t.off /\ v.res = r /\ Order(v) = Order(t)
    BY <1>1, StepFacts DEF Results, Open
  <1>4. tx' = (tx \ {t}) \cup {v}
    BY <1>2 DEF Step
  <1> HIDE DEF v
  <1>5. \A u : Sound(u)' <=> Sound(u)
    BY <1>1 DEF Sound, Published, Order, Content
  <1>6. Sound(v)
    BY <1>1, <1>2, <1>3 DEF Sound, Open
  <1> QED
    BY <1>1, <1>2, <1>3, <1>4, <1>5, <1>6, ReplaceTx DEF TxOK

\* The commit of a transaction that inserted its row leaves the others sound: no
\* other one has inserted a row of that order.
LEMMA TxClosureTx ==
  ASSUME TxOK, NEW t \in tx, TxClosure(t)
  PROVE  TxOK'
  <1>1. t \in Transactions /\ Sound(t) /\ t.res \in Open /\ log' = log
    BY DEF TxOK, TxClosure, Open
  <1>2. PICK r \in {"ok", "error"} :
          /\ Step(t, r)
          /\ r = "ok" => t.res = "inserted" /\ inventory' = inventory \cup {Order(t)}
          /\ r = "error" => inventory' = inventory
    BY DEF TxClosure
  <1> DEFINE v == [t EXCEPT !.res = r]
  <1>3. /\ v \in Transactions /\ v.tp = t.tp /\ v.off = t.off /\ v.res = r /\ Order(v) = Order(t)
    BY <1>1, StepFacts DEF Results, Open
  <1>4. tx' = (tx \ {t}) \cup {v}
    BY <1>2 DEF Step
  <1> HIDE DEF v
  <1>5. \A u : Order(u)' = Order(u) /\ (Published(u.tp, u.off)' <=> Published(u.tp, u.off))
    BY <1>1 DEF Published, Order, Content
  <1>6. Sound(v)'
    BY <1>1, <1>2, <1>3, <1>5 DEF Sound, Open
  <1>7. ASSUME NEW u \in tx, u # t PROVE Sound(u)'
    <2>1. Sound(u) /\ (t.res = "inserted" /\ u.res = "inserted" => Order(u) # Order(t))
      BY <1>7 DEF TxOK
    <2> QED
      BY <1>2, <1>5, <2>1 DEF Sound
  <1>8. \A u \in tx : u \in tx' => Sound(u)'
    BY <1>4, <1>6, <1>7
  <1> QED
    BY <1>1, <1>2, <1>3, <1>4, <1>6, <1>8, ReplaceTx

LEMMA NextTx ==
  ASSUME DataOK, LogOK, TxOK, CdcNext
  PROVE  TxOK'
  <1>1. ASSUME NEW h \in handlers, HandlerMsg(h) PROVE TxOK'
    BY <1>1, HandlerMsgTx
  <1>2. ASSUME NEW t \in tx, Save(t) \/ TxClosure(t) PROVE TxOK'
    BY <1>2, SaveTx, TxClosureTx
  <1>3. CASE tx' \subseteq tx /\ inventory' = inventory
    <2>1. \A u \in tx : /\ Published(u.tp, u.off)' /\ Order(u)' = Order(u)
                        /\ u.tp \in TPs /\ u.off \in Offsets
      <3>1. ASSUME NEW u \in tx PROVE Published(u.tp, u.off)' /\ Order(u)' = Order(u)
        <4>1. u \in Transactions /\ Published(u.tp, u.off)
          BY DEF TxOK, Sound
        <4>2. Stays(u.tp, u.off)
          BY <4>1, LogStep DEF Transactions
        <4> QED
          BY <4>1, <4>2, OrderStays
      <3> QED
        BY <3>1 DEF TxOK, Transactions
    <2>2. \A u \in tx : Sound(u)'
      BY <1>3, <2>1 DEF TxOK, Sound
    <2> QED
      BY <1>3, <2>1, <2>2 DEF TxOK
  <1>4. ASSUME NEW h \in handlers, Route(h) PROVE tx' \subseteq tx /\ inventory' = inventory
    BY <1>4, RouteEffect DEF Reports
  <1>5. CASE \/ RegisterConnector \/ CdcCrash \/ UNCHANGED cdcVars
             \/ \E n \in Orders : CreatePayment(n)
             \/ \E tp \in TPs, c \in Contents : Publish(tp, c)
    <2>1. tx' \subseteq tx /\ inventory' = inventory
      BY <1>5 DEF RegisterConnector, CdcCrash, CreatePayment, Publish, cdcVars
    <2> QED
      BY <1>3, <2>1
  <1> QED
    BY <1>1, <1>2, <1>3, <1>4, <1>5 DEF CdcNext, Contents

-----------------------------------------------------------------------------
(***************************************************************************)
(* The tables and the reports                                              *)
(***************************************************************************)
\* Only a commit writes the two tables.
LEMMA TablesFrame ==
  ASSUME CdcNext, \A t \in tx : ~TxClosure(t)
  PROVE  UNCHANGED <<inventory, inbox>> /\ payments \subseteq payments'
  BY RouteEffect DEF CdcNext, RegisterConnector, CreatePayment, Publish, HandlerMsg, Save,
     CdcCrash, cdcVars

LEMMA NextRows ==
  ASSUME LogOK, TxOK, RowsOK, CdcNext
  PROVE  RowsOK'
  <1>1. ASSUME NEW t \in tx, TxClosure(t) PROVE RowsOK'
    <2>1. t \in Transactions /\ Sound(t) /\ t.res \in Open /\ payments' = payments
      BY <1>1 DEF TxOK, TxClosure, Open
    <2>2. Order(t) \in Orders /\ (t.res = "inserted" => Order(t) \notin inventory)
      BY <2>1 DEF Sound
    <2>3. Order(t) \in payments
      <3>1. t.tp \in TPs /\ t.off \in Offsets /\ t.off < Len(log[t.tp]) /\ Len(log[t.tp]) \in Nat
        BY <2>1 DEF Transactions, Sound, Published, LogOK
      <3>2. t.off + 1 \in 1 .. Len(log[t.tp])
        BY <3>1 DEF Offsets
      <3> QED
        BY <2>2, <3>1, <3>2 DEF LogOK, Order, Content
    <2>4. CASE UNCHANGED <<inventory, inbox>>
      BY <2>1, <2>4 DEF RowsOK
    <2>5. CASE /\ t.res = "inserted" /\ inventory' = inventory \cup {Order(t)}
               /\ inbox' = [inbox EXCEPT ![Order(t)] = @ + 1]
      <3> DEFINE n == Order(t)
      <3>1. n \in Orders /\ n \notin inventory /\ n \in payments /\ inventory' = inventory \cup {n}
        BY <2>2, <2>3, <2>5
      <3>2. inbox' = [inbox EXCEPT ![n] = inbox[n] + 1]
        BY <2>5
      <3> HIDE DEF n
      <3>3. inbox \in [Orders -> Nat] /\ inbox[n] = 0
        BY <3>1 DEF RowsOK
      <3> QED
        BY <2>1, <3>1, <3>2, <3>3 DEF RowsOK
    <2> QED
      BY <1>1, <2>4, <2>5 DEF TxClosure
  <1>2. CASE \A t \in tx : ~TxClosure(t)
    BY <1>2, TablesFrame DEF RowsOK
  <1> QED
    BY <1>1, <1>2

\* Reservations and errors are never taken back.
LEMMA TablesGrow ==
  ASSUME CdcNext
  PROVE  inventory \subseteq inventory' /\ failed \subseteq failed'
  <1>1. inventory \subseteq inventory'
    BY TablesFrame DEF TxClosure
  <1>2. ASSUME NEW h \in handlers, Route(h) PROVE failed \subseteq failed'
    BY <1>2, RouteEffect DEF Reports
  <1>3. failed \subseteq failed'
    BY <1>2 DEF CdcNext, RegisterConnector, CreatePayment, Publish, HandlerMsg, Save, TxClosure,
       CdcCrash, cdcVars
  <1> QED
    BY <1>1, <1>3

LEMMA NextReports ==
  ASSUME DataOK, ControlOK, LogOK, TxOK, ReportsOK, CdcNext
  PROVE  ReportsOK'
  <1>1. SUFFICES ASSUME NEW tp \in TPs, NEW o \in Offsets, <<tp, o>> \in reported'
                 PROVE  /\ Published(tp, o)'
                        /\ Content(tp, o)' \in Orders =>
                             Content(tp, o)' \in inventory' \/ <<tp, o>> \in failed'
    BY DEF ReportsOK
  <1>2. Stays(tp, o)
    BY LogStep
  <1>3. inventory \subseteq inventory' /\ failed \subseteq failed'
    BY TablesGrow
  <1>4. CASE <<tp, o>> \in reported
    <2>1. /\ Published(tp, o)
          /\ Content(tp, o) \in Orders => Content(tp, o) \in inventory \/ <<tp, o>> \in failed
      BY <1>4 DEF ReportsOK
    <2> QED
      BY <1>2, <1>3, <2>1 DEF Stays
  <1>5. ASSUME <<tp, o>> \notin reported, NEW h \in handlers, Route(h)
        PROVE  /\ Published(tp, o)
               /\ Content(tp, o) \in Orders => Content(tp, o) \in inventory \/ <<tp, o>> \in failed'
    <2>1. PICK t \in tx : Reports(h, t)
      BY <1>1, <1>5, RouteEffect
    <2>2. /\ h.tp = tp /\ h.off = o /\ t.tp = tp /\ t.off = o /\ t.res \in {"ok", "error"}
          /\ t.res = "error" => <<tp, o>> \in failed'
      BY <1>1, <1>5, <2>1 DEF Reports, TxOf
    <2>3. Published(tp, o) /\ (t.res = "ok" /\ Order(t) \in Orders => Order(t) \in inventory)
      BY <2>2 DEF TxOK, Sound
    <2> QED
      BY <2>2, <2>3 DEF Order
  <1>6. CASE \A h \in handlers : ~Route(h)
    <2>1. reported' = reported
      <3>1. CASE ConsumerStep
        BY <3>1, ConsumerStepEffect
      <3>2. CASE CdcCrash
        BY <3>2 DEF CdcCrash, Crash
      <3> QED
        BY <1>6, <3>1, <3>2, ServerStepFrame DEF CdcNext, ConsumerStep, Contents
    <2> QED
      BY <1>1, <1>4, <2>1
  <1> QED
    BY <1>2, <1>3, <1>4, <1>5, <1>6 DEF Stays

-----------------------------------------------------------------------------
(***************************************************************************)
(* The theorems                                                            *)
(***************************************************************************)
LEMMA CdcInitInv ==
  ASSUME CdcInit
  PROVE  CdcInv
  <1>1. LogOK
    <2>1. <<>> \in Seq(Contents) /\ Len(<<>>) = 0
      OBVIOUS
    <2> QED
      BY <2>1 DEF CdcInit, Init, LogOK
  <1>2. TxOK /\ RowsOK /\ ReportsOK
    BY DEF CdcInit, Init, TxOK, RowsOK, ReportsOK
  <1> QED
    BY <1>1, <1>2 DEF CdcInv

LEMMA CdcStutter ==
  ASSUME UNCHANGED <<vars, cdcVars>>
  PROVE  CdcInv' = CdcInv
  <1>1. UNCHANGED <<pc, cur, handlers, reported, payments, log, tx, inventory, inbox, failed>>
    BY DEF vars, loopVars, cdcVars
  <1> QED
    BY <1>1 DEF CdcInv, LogOK, TxOK, RowsOK, ReportsOK, Sound, Order, Content, Published

\* The server's invariant is inductive next to the consumer's: topic, handlers,
\* transactions, tables and reports agree.  (msg-router.go, inventory-service.go)
THEOREM CdcInvariant == CdcSpec => [](ConsumerInv /\ CdcInv)
  <1>1. CdcInit => CdcInv
    BY CdcInitInv
  <1>2. ConsumerInv /\ ConsumerInv' /\ CdcInv /\ [CdcNext]_<<vars, cdcVars>> => CdcInv'
    <2>1. ASSUME ConsumerInv, ConsumerInv', CdcInv, CdcNext PROVE CdcInv'
      BY <2>1, NextLog, NextTx, NextRows, NextReports DEF CdcInv, ConsumerInv
    <2> QED
      BY <2>1, CdcStutter
  <1>3. CdcSpec => []ConsumerInv
    BY ServerRunsConsumer, ConsumerInvariant, PTL
  <1> QED
    BY <1>1, <1>2, <1>3, PTL DEF CdcSpec

\* However often a message is delivered, an order has one inbox row for its
\* reservation and none without it, and a reservation has its payment, although
\* event_inbox has no unique column.  (InventoryService.Save, TxClosure)
THEOREM InboxFollowsInventory == CdcSpec => []InboxMatchesInventory
  <1>1. CdcInv => InboxMatchesInventory
    BY DEF CdcInv, RowsOK, InboxMatchesInventory
  <1> QED
    BY <1>1, CdcInvariant, PTL

\* No committed offset passes a payment that is not reserved, unless handling
\* that message ended in an error.  (consumeLoop, commitOffsetLoop, Save)
THEOREM CommittedReserved == CdcSpec => []CommittedIsReserved
  <1>1. \A tp \in TPs : Sole(tp)
    <2>1. \A tp, other \in TPs : Topic(tp) = Topic(other)
      BY CdcAssumption
    <2>2. \A tp \in TPs : tp = <<Topic(tp), Partition(tp)>>
      BY ConsumerAssumption DEF Topic, Partition
    <2> QED
      BY <2>1, <2>2 DEF Sole
  <1>2. CommitSafety /\ CdcInv => CommittedIsReserved
    BY <1>1 DEF CommitSafety, CdcInv, ReportsOK, CommittedIsReserved
  <1>3. CdcSpec => []CommitSafety
    BY ServerRunsConsumer, ConsumerCommitSafety, PTL
  <1> QED
    BY <1>2, <1>3, CdcInvariant, PTL

=============================================================================
