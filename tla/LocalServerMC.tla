---------------------------- MODULE LocalServerMC ----------------------------
(* LocalServer for one or two connections.                                    *)
EXTENDS LocalServer, TLC

CONSTANTS c1, c2

McIds == Permutations({c1, c2})
=============================================================================
