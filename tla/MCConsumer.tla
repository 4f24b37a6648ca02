----------------------------- MODULE MCConsumer -----------------------------
(* Instances of the consumer for TLC. *)
EXTENDS Consumer

C(n, p, s) == [num |-> n, priority |-> p, seq |-> s]

(* Every other number of the producer's sequence, of one topic, and messages *)
(* of another topic with its own priority, whose texts carry the same        *)
(* numbers.                                                                  *)
TwoTopics == {C(0, 0, 0), C(2, 0, 1), C(4, 0, 2), C(1, 0, 0), C(3, 1, 1), C(5, 0, 2)}
=============================================================================
