--------------------------- MODULE OrderedDelivery ---------------------------
(***************************************************************************)
(* What a consumer promises to whoever reads its output: messages come in  *)
(* in any order and any number of times, and go out in the order of their  *)
(* sequence numbers, each once, as soon as there is no gap before them.    *)
(***************************************************************************)
EXTENDS Naturals

CONSTANT Numbers   (* the sequence numbers the messages may have *)

VARIABLES seen,    (* numbers of the messages read               *)
          next     (* the number to go out next                  *)

Init == seen = {} /\ next = 0

Accept(n) == seen' = seen \cup {n} /\ UNCHANGED next

Deliver == next \in seen /\ next' = next + 1 /\ UNCHANGED seen

Next == Deliver \/ \E n \in Numbers : Accept(n)

Safety == Init /\ [][Next]_<<seen, next>>

(* Nothing deliverable is held back for ever. *)
Fairness == WF_<<seen, next>>(Deliver)

Spec == Safety /\ Fairness
==============================================================================
