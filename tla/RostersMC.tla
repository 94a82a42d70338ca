------------------------------ MODULE RostersMC ------------------------------
(* Rosters for three clients that can all be in a room at once.               *)
EXTENDS Rosters

CONSTANTS c1, c2, c3

McNicks == {"bob", "BOB", "amy", "cat"}
McFold == [n \in McNicks |-> IF n = "BOB" THEN "bob" ELSE n]
McIds == Permutations({c1, c2, c3})
McView == <<clientVars, chanVars, banned, session>>
=============================================================================
