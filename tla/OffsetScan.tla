----------------------------- MODULE OffsetScan -----------------------------
(***************************************************************************)
(* What FindLatestToCommit computes, as a relation between the map of      *)
(* message states, the two ends of the scan, and the offset to commit.     *)
(*                                                                         *)
(* The code visits the offsets from LastCommited (lc) to MaxReceived (mr)  *)
(* upwards, deletes the finished ones, and stops at the first pending one  *)
(* or when the map has become empty.  FindLatestLoop has that loop one     *)
(* iteration at a time and Programs_proofs shows that it ends with the     *)
(* result described here.                                                  *)
(***************************************************************************)
EXTENDS Integers

\* MsgState of consumer.go
Pending == "Pending"
Success == "Success"
Error   == "Error"
MsgState == {Pending, Success, Error}

Scanned(st, lc, mr) == {o \in DOMAIN st : lc <= o /\ o <= mr}

PendingIn(st, lc, mr) == {o \in Scanned(st, lc, mr) : st[o] = Pending}

\* Mutant: a map that has been emptied no longer ends the scan one past its
\* last key but one past MaxReceived.
IsLatestPastMax(st, lc, mr, l) ==
  LET pend == PendingIn(st, lc, mr)
  IN  \/ l \in pend /\ \A p \in pend : l <= p
      \/ pend = {} /\ l = mr + 1

\* l is the offset the scan returns: the first pending one, else one past the
\* last key if nothing but finished keys was found, else MaxReceived.
IsLatestToCommit(st, lc, mr, l) ==
  LET pend == PendingIn(st, lc, mr)
      scan == Scanned(st, lc, mr)
  IN  \/ /\ l \in pend
         /\ \A p \in pend : l <= p
      \/ /\ pend = {} /\ scan # {} /\ scan = DOMAIN st
         /\ l - 1 \in scan
         /\ \A p \in scan : p <= l - 1
      \/ /\ pend = {} /\ (scan = {} \/ scan # DOMAIN st)
         /\ l = mr

\* The keys the scan deletes before it stops at l.
Finished(st, lc, mr, l) ==
  {o \in Scanned(st, lc, mr) :
     st[o] # Pending /\ (PendingIn(st, lc, mr) # {} => o < l)}

\* The map the scan leaves.
Pruned(st, lc, mr, l) ==
  [o \in DOMAIN st \ Finished(st, lc, mr, l) |-> st[o]]

=============================================================================
