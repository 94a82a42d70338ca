------------------------------- MODULE SaslMC -------------------------------
(* Sasl with room for two capability lines, against a server that may send    *)
(* anything and against one that keeps to the protocol.                       *)
EXTENDS Sasl

VARIABLE polite    \* which of the two the server is

McVars == <<vars, polite>>
McNext ==
    \/ ~polite /\ Next /\ UNCHANGED polite
    \/ polite /\ PoliteNext /\ UNCHANGED polite
McInit == Init /\ polite \in BOOLEAN
McSpec ==
    /\ McInit
    /\ [][McNext]_McVars
    /\ WF_vars(Abandon) /\ WF_vars(polite /\ Answer)

(* With a server that keeps to the protocol, somebody with a NickServ password *)
(* whom SASL has not logged in is identified to NickServ (on_registered).      *)
PoliteNickServ == polite => NickServIfNotSasl

(* With a server that keeps to the protocol registration completes, whenever   *)
(* the negotiation deadline strikes (connect_once).                            *)
RegistrationCompletes == polite ~> registered
=============================================================================
