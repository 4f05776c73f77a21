-------------------------- MODULE MCKafkaConsumer ---------------------------
(* Every topic has every partition. *)
EXTENDS KafkaConsumer

AllTPs == Topics \X Partitions

\* The first message of one partition is not the expected JSON.
OneUndecodable == {<<CHOOSE tp \in AllTPs : TRUE, 0>>}

=============================================================================
