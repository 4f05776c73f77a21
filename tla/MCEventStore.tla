---------------------------- MODULE MCEventStore -----------------------------
(* One of two programs runs on the same consumer: kafka-outbox's, with       *)
(* handlers that report what they like and another member in the group, or   *)
(* the server of kafka/, whose handlers store events.                        *)
EXTENDS EventStore

CONSTANT StoreMessages     \* bound on messages of the second program

VARIABLE program
mcVars == <<program, vars, storeVars>>

AllTPs == Topics \X Partitions

\* The last message of every partition is not the expected JSON.
LastUndecodable == {<<tp, LogSize - 1>> : tp \in AllTPs}

MCInit == program \in {"outbox", "store"} /\ StoreInit

MCNext ==
  /\ UNCHANGED program
  /\ \/ program = "outbox" /\ Next /\ UNCHANGED storeVars
     \/ program = "store" /\ StoreNext /\ \A tp \in TPs : position'[tp] <= StoreMessages

MCSpec == MCInit /\ [][MCNext]_mcVars
-----------------------------------------------------------------------------
\* CommittedIsStored of the program that stores events: a message of kafka/
\* below the committed offset is a row, or a failure excuses it.  (saveToDB)
StoreCommittedIsStored == program = "store" => CommittedIsStored

=============================================================================
