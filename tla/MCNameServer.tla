---------------------------- MODULE MCNameServer ----------------------------
(* Instance of the name server with its standbys for TLC. *)
EXTENDS NameServer

CONSTANTS s1, s2, p1
=============================================================================
