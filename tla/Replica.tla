------------------------------- MODULE Replica -------------------------------
(***************************************************************************)
(* What a slave's copy of the broker promises: from its start on it only   *)
(* moves forward, and it is never ahead of the broker.                     *)
(***************************************************************************)
EXTENDS Naturals

CONSTANT Slaves

VARIABLES content,  (* how many changes were made to the broker *)
          copy,     (* how many of them a slave has             *)
          starts

replicaVars == <<content, copy, starts>>

Init ==
  /\ content = 0
  /\ copy = [s \in Slaves |-> 0] /\ starts = [s \in Slaves |-> 0]

Change == content' = content + 1 /\ UNCHANGED <<copy, starts>>

Update(s) ==
  /\ \E n \in copy[s]..content : copy' = [copy EXCEPT ![s] = n]
  /\ UNCHANGED <<content, starts>>

Start(s) ==
  /\ starts' = [starts EXCEPT ![s] = @ + 1] /\ copy' = [copy EXCEPT ![s] = 0]
  /\ UNCHANGED content

Next == Change \/ \E s \in Slaves : Update(s) \/ Start(s)

Safety == Init /\ [][Next]_replicaVars
==============================================================================
