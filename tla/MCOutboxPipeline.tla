-------------------------- MODULE MCOutboxPipeline --------------------------
(* Two topics, as config.NewKafkaConfig has. *)
EXTENDS OutboxPipeline, TLC

CONSTANTS t1, t2

TwoTopics == <<t1, t2>>

\* Handlers are interchangeable.
Symmetric == Permutations(Handlers)

=============================================================================
