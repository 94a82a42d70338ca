---------------------------- MODULE ConnectionMC ----------------------------
(* Connection with the short queues that its configurations give it.          *)
EXTENDS Connection
=============================================================================
