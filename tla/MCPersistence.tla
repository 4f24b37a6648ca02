---------------------------- MODULE MCPersistence ----------------------------
(* Instances of the broker with its persistence thread for TLC. *)
EXTENDS PersistenceProperties, TLC

CONSTANTS order, c1, c2

MessagesPersistence == {[num |-> 0, priority |-> 0, topic |-> order, type |-> "ONE_WAY"]}

(* Two queues per request, which come one by one while a save is copying. *)
RequestsSave == {[name |-> order, queueNum |-> 2, consumers |-> {c1}]}

(* Two consumers, each of which has to register first. *)
RequestsSubscribe == {[name |-> order, queueNum |-> 1, consumers |-> {c1, c2}]}
ConsumerSymmetry == Permutations(IpNodes)

(* One queue, which may be there already when it is created. *)
RequestsRecover == {[name |-> order, queueNum |-> 1, consumers |-> {c1}]}
==============================================================================
