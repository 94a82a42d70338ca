-------------------------------- MODULE Sasl --------------------------------
(***************************************************************************)
(* Registration as the IRC client drives it: the capability negotiator of  *)
(* conn/sasl.rs with the part of connect_once (conn/actor.rs) that feeds   *)
(* it, bounds it with a deadline and acts on the welcome.                  *)
(*                                                                         *)
(* Nothing is assumed of the server but that it welcomes once: any line    *)
(* may come at any time, in answer to anything or to nothing.  `pending`   *)
(* is what a server that keeps to the protocol would be answering; only    *)
(* PoliteSpec looks at it.                                                 *)
(***************************************************************************)
EXTENDS Integers, FiniteSets

CONSTANT MaxLsLines     \* capability lines that fit in MAX_CAPABILITY_BYTES

ASSUME MaxLsAssumption == MaxLsLines \in Nat

VARIABLES
    hasCreds,    \* a SASL account and password are configured
    nickserv,    \* a NickServ password is configured
    state,       \* SaslNegotiator.state
    creds,       \* SaslNegotiator.credentials is Some
    offered,     \* SaslNegotiator.offered
    lsLines,     \* lines accumulated in it
    reqSasl,     \* SaslNegotiator.requested_sasl
    without,     \* SaslNegotiator.without_sasl
    acked,       \* SaslNegotiator.acked
    ends,        \* CAP ENDs sent
    passwords,   \* times the password has been sent
    auth,        \* the AuthOutcome held by connect_once
    registered,  \* connect_once's registered
    identified,  \* NickServ IDENTIFY queued
    pending      \* the last command sent and not answered

config == <<hasCreds, nickserv>>
caps == <<offered, lsLines, reqSasl, without, acked>>
session == <<registered, identified>>
vars == <<config, state, creds, caps, ends, passwords, auth, session, pending>>

\* Tokens a server can list: sasl, one of EXTRA_CAPABILITIES, and -sasl, which
\* an ACK uses for a capability switched off.
Caps == {"sasl", "message-tags"}
AckTokens == Caps \cup {"-sasl"}

\* contains_capability, which strips a leading minus before it compares.
Contains(list, cap) == cap \in list \/ (cap = "sasl" /\ "-sasl" \in list)

\* Mutant of AuthOutcome: NickServ only for those who tried SASL.
AuthOutcomeSaslOnly(outcome) ==
    CASE outcome = "Authenticated" -> "Sasl"
      [] outcome = "NoCredentials" -> "Anonymous"
      [] outcome \in {"Unsupported", "Rejected"} -> "NickServFallback"

\* auth_outcome
AuthOutcome(outcome) ==
    CASE outcome = "Authenticated" -> "Sasl"
      [] outcome = "NoCredentials" -> IF nickserv THEN "NickServFallback" ELSE "Anonymous"
      [] outcome \in {"Unsupported", "Rejected"} -> "NickServFallback"

\* connect_once up to its loop, with CAP LS sent by start.
Init ==
    /\ hasCreds \in BOOLEAN /\ nickserv \in BOOLEAN
    /\ state = "AwaitingCapabilities"
    /\ creds = hasCreds
    /\ offered = {} /\ lsLines = 0
    /\ reqSasl = FALSE /\ without = "NoCredentials" /\ acked = {}
    /\ ends = 0 /\ passwords = 0
    /\ auth = "Anonymous"
    /\ registered = FALSE /\ identified = FALSE
    /\ pending = "LS"

\* SaslStep::finish, and what connect_once does with it.
Finish(outcome) ==
    /\ state' = "Finished"
    /\ ends' = ends + 1
    /\ auth' = AuthOutcome(outcome)
    /\ pending' = "END"

-----------------------------------------------------------------------------
(* advance, by the line that came.                                         *)

\* Mutant of Request: asks for sasl whenever it is offered.
RequestUnasked(list) ==
    /\ reqSasl' = Contains(list, "sasl")
    /\ without' = IF creds THEN "Unsupported" ELSE "NoCredentials"
    /\ state' = "AwaitingAck"
    /\ pending' = "REQ"
    /\ UNCHANGED <<ends, auth>>

\* request_sasl_or_finish
Request(list) ==
    LET want == creds /\ Contains(list, "sasl")
        reason == IF creds THEN "Unsupported" ELSE "NoCredentials"
    IN  /\ reqSasl' = want
        /\ without' = reason
        /\ IF ~want /\ "message-tags" \notin list
           THEN Finish(reason)
           ELSE /\ state' = "AwaitingAck"
                /\ pending' = "REQ"
                /\ UNCHANGED <<ends, auth>>

\* Mutant of CapLs: room for one line too many.
CapLsOneMore(list, more) ==
    /\ state = "AwaitingCapabilities"
    /\ IF lsLines > MaxLsLines
       THEN Finish("Rejected") /\ UNCHANGED caps
       ELSE /\ offered' = offered \cup list
            /\ lsLines' = lsLines + 1
            /\ UNCHANGED acked
            /\ IF more THEN UNCHANGED <<state, reqSasl, without, ends, auth, pending>>
                       ELSE Request(offered \cup list)
    /\ UNCHANGED <<config, creds, passwords, session>>

CapLs(list, more) ==
    /\ state = "AwaitingCapabilities"
    /\ IF lsLines >= MaxLsLines
       THEN Finish("Rejected") /\ UNCHANGED caps
       ELSE /\ offered' = offered \cup list
            /\ lsLines' = lsLines + 1
            /\ UNCHANGED acked
            /\ IF more THEN UNCHANGED <<state, reqSasl, without, ends, auth, pending>>
                       ELSE Request(offered \cup list)
    /\ UNCHANGED <<config, creds, passwords, session>>

CapAck(list) ==
    /\ state = "AwaitingAck"
    /\ acked' = acked \cup (list \ {"-sasl"})
    /\ IF ~reqSasl THEN Finish(without)
       ELSE IF ~Contains(list, "sasl") THEN Finish("Rejected")
       ELSE /\ state' = "AwaitingChallenge"
            /\ pending' = "PLAIN"
            /\ UNCHANGED <<ends, auth>>
    /\ UNCHANGED <<config, creds, offered, lsLines, reqSasl, without, passwords, session>>

CapNak ==
    /\ state = "AwaitingAck"
    /\ Finish(IF reqSasl THEN "Rejected" ELSE without)
    /\ UNCHANGED <<config, creds, caps, passwords, session>>

\* on_authenticate, for the + challenge
Challenge ==
    /\ state = "AwaitingChallenge"
    /\ IF creds
       THEN /\ state' = "AwaitingResult"
            /\ passwords' = passwords + 1
            /\ pending' = "PASSWORD"
            /\ UNCHANGED <<ends, auth>>
       ELSE Finish("NoCredentials") /\ UNCHANGED passwords
    /\ UNCHANGED <<config, creds, caps, session>>

\* on_response
SaslSuccess ==
    /\ state = "AwaitingResult"
    /\ creds' = FALSE
    /\ Finish("Authenticated")
    /\ UNCHANGED <<config, caps, passwords, session>>

\* Mutant of SaslFail: a late failure still changes the outcome.
SaslFailLate ==
    /\ state = "Finished"
    /\ auth' = "NickServFallback"
    /\ UNCHANGED <<config, state, creds, caps, ends, passwords, session, pending>>

SaslFail ==
    /\ state \in {"AwaitingResult", "AwaitingChallenge"}
    /\ creds' = FALSE
    /\ Finish("Rejected")
    /\ UNCHANGED <<config, caps, passwords, session>>

-----------------------------------------------------------------------------
\* Mutant of Abandon: the exchange is closed and its answers still followed.
AbandonHalf ==
    /\ state # "Finished" /\ ends < 2
    /\ ends' = ends + 1
    /\ auth' = "NickServFallback"
    /\ pending' = "END"
    /\ UNCHANGED <<config, state, creds, caps, passwords, session>>

\* Mutant of Abandon: a password that was never used is not reported.
AbandonSilently ==
    /\ state # "Finished"
    /\ creds' = FALSE
    /\ Finish(without)
    /\ UNCHANGED <<config, caps, passwords, session>>

\* Mutant of Abandon: armed only once the capability list is in.
AbandonAfterList ==
    /\ state \notin {"AwaitingCapabilities", "Finished"}
    /\ creds' = FALSE
    /\ Finish("Rejected")
    /\ UNCHANGED <<config, caps, passwords, session>>

\* The negotiation deadline of connect_once, and SaslNegotiator::abandon.
Abandon ==
    /\ state # "Finished"
    /\ creds' = FALSE
    /\ Finish(IF reqSasl \/ (state = "AwaitingCapabilities" /\ creds) THEN "Rejected" ELSE without)
    /\ UNCHANGED <<config, caps, passwords, session>>

\* Mutant of Welcome: a welcome after a refused login is not taken for one.
WelcomeUnlessRefused ==
    /\ ~registered /\ auth # "NickServFallback"
    /\ registered' = TRUE
    /\ identified' = (auth = "NickServFallback" /\ nickserv)
    /\ UNCHANGED <<config, state, creds, caps, ends, passwords, auth, pending>>

\* RPL_WELCOME and on_registered: NickServ if SASL is known not to have worked.
Welcome ==
    /\ ~registered
    /\ registered' = TRUE
    /\ identified' = (auth = "NickServFallback" /\ nickserv)
    /\ UNCHANGED <<config, state, creds, caps, ends, passwords, auth, pending>>

-----------------------------------------------------------------------------
Server ==
    \/ \E list \in SUBSET Caps, more \in BOOLEAN : CapLs(list, more)
    \/ \E list \in SUBSET AckTokens : CapAck(list)
    \/ CapNak \/ Challenge \/ SaslSuccess \/ SaslFail \/ Welcome

Next == Server \/ Abandon

Spec == Init /\ [][Next]_vars /\ WF_vars(Abandon)

\* A server that keeps to the protocol: each line answers the last command, an
\* ACK grants what was asked, and the welcome follows CAP END.
Answer ==
    \/ pending = "LS" /\ \E list \in SUBSET Caps, more \in BOOLEAN : CapLs(list, more)
    \/ pending = "REQ" /\ CapAck((IF reqSasl THEN {"sasl"} ELSE {}) \cup (offered \ {"sasl"}))
    \/ pending = "REQ" /\ CapNak
    \/ pending = "PLAIN" /\ (Challenge \/ SaslFail)
    \/ pending = "PASSWORD" /\ (SaslSuccess \/ SaslFail)
    \/ pending = "END" /\ Welcome

PoliteNext == Answer \/ Abandon

-----------------------------------------------------------------------------
Flags ==
    /\ hasCreds \in BOOLEAN /\ nickserv \in BOOLEAN /\ creds \in BOOLEAN /\ reqSasl \in BOOLEAN
    /\ registered \in BOOLEAN /\ identified \in BOOLEAN

TypeOK ==
    /\ Flags
    /\ state \in {"AwaitingCapabilities", "AwaitingAck", "AwaitingChallenge", "AwaitingResult",
                  "Finished"}
    /\ offered \subseteq Caps /\ acked \subseteq Caps /\ lsLines \in 0..MaxLsLines
    /\ without \in {"NoCredentials", "Unsupported"}
    /\ ends \in 0..1 /\ passwords \in 0..1
    /\ auth \in {"Anonymous", "Sasl", "NickServFallback"}
    /\ pending \in {"LS", "REQ", "PLAIN", "PASSWORD", "END"}

(* CAP END goes out exactly once, whichever of the many ways the exchange ends *)
(* and whatever the deadline races with: without it the server waits for ever, *)
(* and twice is a protocol error (SaslStep::finish).                           *)
EndsExactlyOnce == ends = IF state = "Finished" THEN 1 ELSE 0

(* The password goes out at most once, only when one is configured and the     *)
(* server offered sasl and was asked for it, and an unused one is never        *)
(* reported as an anonymous connection once the exchange is over: the user is  *)
(* told that the fallback is in use (abandon, "Reporting the outcome honestly  *)
(* is the whole difficulty").                                                  *)
HonestOutcome ==
    /\ passwords > 0 => hasCreds /\ reqSasl /\ "sasl" \in offered
    /\ auth = "Sasl" => passwords = 1 /\ state = "Finished"
    /\ state = "Finished" /\ hasCreds => auth # "Anonymous"

(* The other facts the induction needs: what each state of the negotiator says *)
(* about what has been sent.                                                   *)
StateFacts ==
    /\ state = "AwaitingCapabilities" => ~reqSasl /\ without = "NoCredentials"
    /\ state # "Finished" => creds = hasCreds /\ auth = "Anonymous"
    /\ state \in {"AwaitingChallenge", "AwaitingResult"} => reqSasl
    /\ reqSasl => hasCreds /\ "sasl" \in offered
    /\ state \notin {"AwaitingCapabilities", "Finished"} => (without = "Unsupported" <=> hasCreds)
    /\ state \in {"AwaitingCapabilities", "AwaitingAck", "AwaitingChallenge"} => passwords = 0
    /\ state = "AwaitingResult" => passwords = 1

SaslInv == TypeOK /\ EndsExactlyOnce /\ HonestOutcome /\ StateFacts

(* Once the exchange is over nothing a server sends, or replays, changes what  *)
(* was concluded or draws another command ("a server could replay a late 903   *)
(* and drive us back into an authenticating state", advance).                  *)
FinishedIsFinal ==
    [][state = "Finished" => UNCHANGED <<state, creds, caps, ends, passwords, auth>>]_vars

(* While the connection stands negotiation ends, whatever the server does or   *)
(* does not say: one that never answers CAP cannot hold the connection at      *)
(* Registering (the deadline).                                                 *)
NegotiationEnds == <>(state = "Finished")

(* Somebody with a NickServ password who is not logged in by SASL is           *)
(* identified to NickServ: "Finish registration: authenticate via NickServ if  *)
(* SASL did not" (on_registered).                                              *)
NickServIfNotSasl == registered /\ nickserv /\ auth # "Sasl" => identified

(* The password is sent only when the server has switched sasl on: "SASL was   *)
(* asked for and something else was granted ... the exchange about to start    *)
(* has not been agreed to" (on_cap).                                           *)
AgreedFirst == passwords > 0 => "sasl" \in acked
=============================================================================
