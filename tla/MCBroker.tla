------------------------------ MODULE MCBroker ------------------------------
(* Instances of the broker for TLC. *)
EXTENDS BrokerProperties

CONSTANTS order, delivery, c1

M(n, p, t, k) == [num |-> n, priority |-> p, topic |-> t, type |-> k]
TopicReq(t, n, cs) == [name |-> t, queueNum |-> n, consumers |-> cs]

(* Two topics whose requests and messages come in any order, so that a     *)
(* message can precede its topic's queues; order gets two queues at a time *)
(* and a consumer that may come, go and come back.                         *)
MessagesQueues == {M(0, 0, order, "REPLY_EXPECTED"), M(1, 0, delivery, "ONE_WAY")}
RequestsQueues == {TopicReq(order, 2, {c1}), TopicReq(delivery, 1, {})}

(* One topic that asks for queues twice, so that the table grows while a    *)
(* round walks it; equal numbers and an urgent message.                     *)
MessagesLiveness == {M(0, 0, order, "REPLY_EXPECTED"), M(0, 1, order, "ONE_WAY")}
RequestsLiveness == {TopicReq(order, 1, {c1})}
=============================================================================
