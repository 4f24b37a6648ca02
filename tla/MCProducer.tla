----------------------------- MODULE MCProducer -----------------------------
(* Instance of the producers and the topic register for TLC. *)
EXTENDS Producer

CONSTANTS p1, t1
=============================================================================
