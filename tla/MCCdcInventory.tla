--------------------------- MODULE MCCdcInventory ----------------------------
(* One of two programs runs on the cooperative consumer: the inventory server  *)
(* with its source of messages, on one partition, or a consumer of two         *)
(* partitions whose handlers report what they like.                            *)
EXTENDS CdcInventory

CONSTANTS FirstOrder,      \* orders are interchangeable: the first one in the log
          Only,            \* the partition of the inventory server
          RebalanceLog     \* bound on messages per partition of the other program

VARIABLE program
mcVars == <<program, vars, cdcVars>>

AllTPs == Topics \X Partitions

\* The consumer passes every message on.
NoneUndecodable == {}

MCInit ==
  \/ program = "inventory" /\ CdcInit
  \/ /\ program = "rebalance" /\ Init
     /\ log = [tp \in TPs |-> [i \in 1 .. RebalanceLog |-> Ignored]]
     /\ connector = FALSE /\ payments = {} /\ tx = {}
     /\ inventory = {} /\ inbox = [n \in Orders |-> 0] /\ failed = {}

MCNext ==
  /\ UNCHANGED program
  /\ \/ /\ program = "inventory" /\ CdcNext
        /\ pc' = "assignLock" => Len(ps) + Cardinality(event') <= 1
        /\ \A tp \in event' : Partition(tp) = Only
        /\ \A tp \in TPs : Partition(tp) # Only => log'[tp] = <<>>
        /\ \A tp \in TPs : log'[tp] # <<>> => Head(log'[tp]) \notin Orders \ {FirstOrder}
     \/ /\ program = "rebalance" /\ Next /\ UNCHANGED cdcVars
        /\ crashes' = 0
        /\ \A tp \in TPs : position'[tp] <= RebalanceLog

MCSpec == MCInit /\ [][MCNext]_mcVars

\* Fairness of the callbacks and commit loops, as in LiveSpec.
MCLiveSpec ==
  /\ MCSpec
  /\ WF_vars(Rebalance)
  /\ \A id \in Ids : WF_vars(id \in DOMAIN ps /\ ps[id].ctxDone /\ CommitLoop(id))

=============================================================================
