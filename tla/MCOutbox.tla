------------------------------ MODULE MCOutbox ------------------------------
(* Two topics, as config.NewKafkaConfig has. *)
EXTENDS Outbox, TLC

CONSTANTS t1, t2

TwoTopics == <<t1, t2>>

\* Servers and orders are interchangeable.
Symmetric == Permutations(Servers) \cup Permutations(Orders)

=============================================================================
