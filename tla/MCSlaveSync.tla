----------------------------- MODULE MCSlaveSync -----------------------------
(* Instance of the slaves' synchronisation for TLC. *)
EXTENDS SlaveSync

CONSTANTS s1, s2
==============================================================================
