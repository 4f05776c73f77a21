---------------------------- MODULE AtLeastOnce -----------------------------
(***************************************************************************)
(* What a consumer promises about one partition, without its bookkeeping:  *)
(* messages are reported in any order, and the committed offset moves,     *)
(* forwards or back, only to where every earlier message is reported.      *)
(***************************************************************************)
EXTENDS Integers

CONSTANT Log              \* the offsets of the partition that hold a message

VARIABLES reported,       \* offsets reported so far
          committed       \* the group's committed offset, negative if none

CoveredBy(c, S) == \A o \in Log : o < c => o \in S

Init == CoveredBy(committed, reported)

ReportOne ==
  /\ \E o \in Log : reported' = reported \cup {o}
  /\ UNCHANGED committed

Commit ==
  /\ committed' \in Nat /\ CoveredBy(committed', reported)
  /\ UNCHANGED reported

\* A member that took the partition over reports and commits a prefix.
TakenOver ==
  /\ committed' \in Nat /\ committed < committed'
  /\ reported' = reported \cup {p \in Log : p < committed'}

Next == ReportOne \/ Commit \/ TakenOver

Spec == Init /\ [][Next]_<<reported, committed>>

=============================================================================
