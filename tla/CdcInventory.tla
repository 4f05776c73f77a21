---------------------------- MODULE CdcInventory -----------------------------
(***************************************************************************)
(* kafka-cdc: the payment server inserts payments, Debezium turns the      *)
(* committed rows into messages, and the inventory server consumes them    *)
(* with the consumer of KafkaConsumer (kafka-cdc/pkg/kafka is the same     *)
(* program, with cooperative-sticky assignment and a send on MsgCH that    *)
(* waits for ever) and reserves the stock of each payment.                 *)
(*                                                                         *)
(* The only unique columns are payment.order_number and inventory.         *)
(* order_number: event_inbox has none.  InventoryService.Save inserts the  *)
(* inbox row first and ignores the result of the inventory insert, so a    *)
(* redelivered message is refused by the aborted transaction's commit.     *)
(***************************************************************************)
EXTENDS KafkaConsumer

CONSTANTS Orders,    \* order numbers
          Ignored,   \* a message for an update, a delete or a truncate
          Garbled    \* a message that cannot be decoded

\* NewServer subscribes to one topic.
ASSUME CdcAssumption ==
  /\ Ignored \notin Orders /\ Garbled \notin Orders
  /\ \A tp, other \in TPs : Topic(tp) = Topic(other)

VARIABLES
  connector, \* the connector is registered, and the payment server runs
  payments,  \* committed rows of payment: order numbers
  log,       \* the change topic: topic-partition -> sequence of contents
  tx,        \* messages in handlerMsg: records [tp, off, session, res]
  inventory, \* committed rows of inventory: order numbers
  inbox,     \* committed rows of event_inbox per order number
  failed     \* history: messages whose handling ended in an error

cdcVars == <<connector, payments, log, tx, inventory, inbox, failed>>
Content(tp, o) == log[tp][o + 1]

CdcInit ==
  /\ Init
  /\ connector = FALSE
  /\ payments = {} /\ log = [tp \in TPs |-> <<>>] /\ tx = {}
  /\ inventory = {} /\ inbox = [n \in Orders |-> 0] /\ failed = {}

(***************************************************************************)
(* The payment server and the connector it registers                       *)
(***************************************************************************)
\* NewServer waits for Kafka Connect and registers, or finds, the connector; an
\* error is a panic, and the server is started again.
RegisterConnector ==
  /\ ~connector /\ connector' = TRUE
  /\ UNCHANGED <<vars, payments, log, tx, inventory, inbox, failed>>

\* createPayment and PaymentService.Save: one insert in one transaction, refused
\* for an order number that exists.
CreatePayment(n) ==
  /\ connector /\ n \notin payments
  /\ payments' = payments \cup {n}
  /\ UNCHANGED <<vars, connector, log, tx, inventory, inbox, failed>>

\* Debezium publishes a payment at least once; other rows and other writers of
\* the topic are there too.
Publish(tp, c) ==
  /\ connector /\ c \in payments \cup {Ignored, Garbled}
  /\ Len(log[tp]) < LogSize
  /\ log' = [log EXCEPT ![tp] = Append(@, c)]
  /\ UNCHANGED <<vars, connector, payments, tx, inventory, inbox, failed>>

(***************************************************************************)
(* The inventory server: a goroutine of MsgRouter.consumeLoop per message  *)
(***************************************************************************)
TxOf(h) == {t \in tx : t.tp = h.tp /\ t.off = h.off /\ t.session = h.session}
Msg(r) == <<r.tp, r.off>>
Order(r) == Content(r.tp, r.off)
Enter(h, res) == tx' = tx \cup {[tp |-> h.tp, off |-> h.off, session |-> h.session, res |-> res]}

\* decodeMsg, and the amount that getPaymentCreatedEvent parses.
DecodeMsg(c) == c # Garbled
GetEventType(c) == IF c \in Orders THEN "payment_created" ELSE "other"

\* handlePaymentCreated: the transaction of InventoryService.Save begins.
HandlePaymentCreated(h) == Enter(h, "begin")

\* Only a created (or snapshot) row is handled, other changes are a success.
HandlerMsg(h) ==
  /\ h \in handlers /\ TxOf(h) = {}
  /\ \/ ~DecodeMsg(Order(h)) /\ Enter(h, "error")
     \/ /\ DecodeMsg(Order(h))
        /\ IF GetEventType(Order(h)) = "payment_created"
           THEN HandlePaymentCreated(h) ELSE Enter(h, "ok")
  /\ UNCHANGED <<vars, connector, payments, log, inventory, inbox, failed>>

Step(t, res) == tx' = (tx \ {t}) \cup {[t EXCEPT !.res = res]}

\* What becomes of the transaction: inventory.order_number is unique.
InsertInventory(n) == IF n \in inventory THEN "aborted" ELSE "inserted"

\* InventoryService.Save: the inbox insert cannot collide; the inventory insert
\* waits for an open one of the same order and fails, unnoticed, on a row.
Save(t) ==
  /\ t \in tx /\ t.res = "begin"
  /\ \/ Step(t, "error")
     \/ /\ ~\E u \in tx : u.res = "inserted" /\ Order(u) = Order(t)
        /\ Step(t, InsertInventory(Order(t)))
  /\ UNCHANGED <<vars, connector, payments, log, inventory, inbox, failed>>

\* Mutant: the inbox row is committed whatever becomes of the inventory row.
TxClosureInboxKept(t) ==
  /\ t \in tx /\ t.res \in {"inserted", "aborted"}
  /\ inventory' = inventory \cup {Order(t)}
  /\ inbox' = [inbox EXCEPT ![Order(t)] = @ + 1]
  /\ Step(t, "ok")
  /\ UNCHANGED <<vars, connector, payments, log, failed>>

\* TxClosure's commit, whose error is returned: an aborted transaction cannot
\* commit, and its error is not a duplicate key.
TxClosure(t) ==
  /\ t \in tx /\ t.res \in {"inserted", "aborted"}
  /\ \/ /\ t.res = "inserted"
        /\ inventory' = inventory \cup {Order(t)}
        /\ inbox' = [inbox EXCEPT ![Order(t)] = @ + 1]
        /\ Step(t, "ok")
     \/ Step(t, "error") /\ UNCHANGED <<inventory, inbox>>
  /\ UNCHANGED <<vars, connector, payments, log, failed>>

\* UpdateState after its look-up.
UpdateState(h, s) == LookupMissing(h) \/ WriteState(h, s)

\* Mutant: the router reports without waiting for handlerMsg.
RouteEarly(h) ==
  \E t \in TxOf(h) :
    /\ \/ Lookup(h) /\ UNCHANGED <<tx, failed>>
       \/ /\ UpdateState(h, IF t.res = "error" THEN Error ELSE Success)
          /\ failed' = IF t.res = "error" THEN failed \cup {Msg(t)} ELSE failed
          /\ UNCHANGED tx
    /\ UNCHANGED <<connector, payments, log, inventory, inbox>>

\* The error or its absence goes to UpdateState.
Route(h) ==
  \E t \in TxOf(h) :
    /\ t.res \in {"ok", "error"}
    /\ \/ Lookup(h) /\ UNCHANGED <<tx, failed>>
       \/ /\ UpdateState(h, IF t.res = "error" THEN Error ELSE Success)
          /\ failed' = IF t.res = "error" THEN failed \cup {Msg(t)} ELSE failed
          /\ tx' = tx \ {t}
    /\ UNCHANGED <<connector, payments, log, inventory, inbox>>

CdcCrash == Crash /\ tx' = {} /\ UNCHANGED <<connector, payments, log, inventory, inbox, failed>>

(***************************************************************************)
(* The consumer                                                            *)
(***************************************************************************)
StartConsumer == Startup
ConsumeLoop == (\E tp \in TPs : position[tp] < Len(log[tp]) /\ Receive(tp)) \/ Enqueue
CommitOffsetLoop == \E id \in DOMAIN ps : CommitLoop(id)
RebalanceEvent == \E S \in SUBSET TPs : AssignEvent(S) \/ RevokeEvent(S)
AssignPrntCB == AssignLock \/ AssignState \/ AssignDone \/ \E tp \in TPs : AssignNext(tp)
RevokePrtnCB ==
  \/ RevokeFind \/ RevokeDelete \/ RevokeDone
  \/ \E tp \in TPs : RevokeMissing(tp) \/ RevokeCancel(tp)

CdcNext ==
  \/ RegisterConnector
  \/ \E n \in Orders : CreatePayment(n)
  \/ \E tp \in TPs, c \in Orders \cup {Ignored, Garbled} : Publish(tp, c)
  \/ \E h \in handlers : HandlerMsg(h) \/ Route(h)
  \/ \E t \in tx : Save(t) \/ TxClosure(t)
  \/ CdcCrash
  \/ /\ \/ StartConsumer \/ ConsumeLoop \/ CommitOffsetLoop
        \/ RebalanceEvent \/ AssignPrntCB \/ RevokePrtnCB
     /\ UNCHANGED cdcVars

CdcSpec == CdcInit /\ [][CdcNext]_<<vars, cdcVars>>
-----------------------------------------------------------------------------
\* A payment whose message is below the committed offset has its reservation,
\* unless the handling of that message ended in an error: Error counts as
\* finished, so the consumer never asks for it again.  (consumeLoop, Save)
CommittedIsReserved ==
  \A tp \in TPs, o \in Offsets :
    o < committed[tp] /\ Content(tp, o) \in Orders =>
      Content(tp, o) \in inventory \/ <<tp, o>> \in failed

\* However often a message is delivered, an order has as many inbox rows as
\* reservations, and its payment exists: the inbox has no unique column, so
\* this rests on the aborted transaction.  (InventoryService.Save, TxClosure)
InboxMatchesInventory ==
  \A n \in Orders : /\ inbox[n] = IF n \in inventory THEN 1 ELSE 0
                    /\ n \in inventory => n \in payments

=============================================================================
