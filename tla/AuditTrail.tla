----------------------------- MODULE AuditTrail -----------------------------
(***************************************************************************)
(* What the outbox and the inbox promise together: payments are made, and  *)
(* a payment that has been made is entered in the audit table, once.       *)
(***************************************************************************)
EXTENDS Integers

CONSTANT Orders

VARIABLES payments,    \* orders paid
          audit        \* order -> number of audit rows

Init == payments = {} /\ audit = [o \in Orders |-> 0]

Pay(o) ==
  /\ o \notin payments
  /\ payments' = payments \cup {o}
  /\ UNCHANGED audit

Enter(o) ==
  /\ o \in payments /\ audit[o] = 0
  /\ audit' = [audit EXCEPT ![o] = 1]
  /\ UNCHANGED payments

Next == \E o \in Orders : Pay(o) \/ Enter(o)

Spec == Init /\ [][Next]_<<payments, audit>>

=============================================================================
