------------------------------ MODULE Lifecycle ------------------------------
(* What a connection id may go through, as the server's state sees it: it is  *)
(* unknown, then here, then registered, then gone, and gone is for good.      *)
(* Network and LocalServer both implement this.                               *)
CONSTANT Ids
VARIABLE stage

Enter(i) == stage[i] = "new" /\ stage' = [stage EXCEPT ![i] = "here"]
Register(i) == stage[i] = "here" /\ stage' = [stage EXCEPT ![i] = "registered"]

\* Any number of ids may go at once: the server itself can be dropped.
Go == \E S \in SUBSET Ids :
        stage' = [i \in Ids |-> IF i \in S THEN "gone" ELSE stage[i]]

Init == stage = [i \in Ids |-> "new"]
Next == Go \/ \E i \in Ids : Enter(i) \/ Register(i)
Spec == Init /\ [][Next]_stage
=============================================================================
