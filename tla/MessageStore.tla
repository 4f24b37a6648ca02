---------------------------- MODULE MessageStore ----------------------------
(***************************************************************************)
(* What a broker promises to a producer whose message it has received:     *)
(* the message is kept until it is handed over, which happens once.  A     *)
(* broker that ends takes with it what it has kept.                        *)
(***************************************************************************)
EXTENDS Naturals

CONSTANT MaxArrivals

VARIABLES received,  (* how many messages have come; they are numbered *)
          held, done,
          ended      (* the broker has ended                           *)

storeVars == <<received, held, done, ended>>

Init == received = 0 /\ held = {} /\ done = {} /\ ended = FALSE

Receive ==
  /\ ~ended
  /\ received' = received + 1 /\ held' = held \cup {received + 1}
  /\ UNCHANGED <<done, ended>>

HandOver(n) ==
  /\ ~ended
  /\ n \in held
  /\ held' = held \ {n} /\ done' = done \cup {n}
  /\ UNCHANGED <<received, ended>>

(* Nothing else is ever dropped, and nothing happens after it. *)
End ==
  /\ ~ended /\ ended' = TRUE
  /\ held' = {} /\ UNCHANGED <<received, done>>

Next == Receive \/ End \/ \E n \in held : HandOver(n)

Safety == Init /\ [][Next]_storeVars

(* Nothing is kept for ever. *)
Fairness == \A n \in 1..MaxArrivals : WF_storeVars(HandOver(n))

Spec == Safety /\ Fairness
==============================================================================
