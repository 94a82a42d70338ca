----------------------------- MODULE Connection -----------------------------
(***************************************************************************)
(* The life of one IRC connection actor (conn/actor.rs): the reconnect     *)
(* loop of run, the event loop of connect_once with its outgoing queue,    *)
(* the commands the user interface queues, and the LIST being answered.    *)
(*                                                                         *)
(* The network may refuse, accept, welcome, part with words or close at    *)
(* any time.  What registration itself exchanges is module Sasl; what the  *)
(* lines do to the session is module Rosters.                              *)
(***************************************************************************)
EXTENDS Integers, Sequences, SequencesExt

CONSTANTS
    MaxAttempts,     \* MAX_ATTEMPTS_BEFORE_FIRST_SUCCESS
    AttemptCap,      \* where the failure count saturates
    CommandQueue,    \* capacity of the command channel
    MaxLines,        \* messages the user types
    MaxLists         \* LISTs a server is left to answer at once

ASSUME ConnectionAssumption ==
    /\ MaxAttempts \in Nat /\ AttemptCap \in Nat /\ MaxAttempts <= AttemptCap
    /\ CommandQueue \in Nat \ {0} /\ MaxLines \in Nat /\ MaxLists \in Nat

VARIABLES
    phase,       \* where run is: dialling, up, waiting, parked or gone
    attempt,     \* Backoff.attempt
    ever,        \* Actor.ever_registered
    registered,  \* connect_once's registered
    farewell,    \* connect_once's farewell: none, refusal or other
    commands,    \* the command channel
    handle,      \* the ConnectionHandle is held
    listener,    \* the event receiver is held
    typed,       \* messages typed so far
    outgoing,    \* connect_once's outgoing
    echoed,      \* lines shown as sent on this connection
    sent,        \* lines handed to the server on this connection
    listing,     \* Actor.listing is Some
    asked,       \* LISTs the server has to answer on this connection
    tries        \* dials since the start, or since the last retry by hand from parked,
                 \* counted up to one more than MaxAttempts

user == <<handle, listener, typed>>
conn == <<registered, farewell, outgoing, echoed, sent, asked>>
vars == <<phase, attempt, ever, conn, commands, user, listing, tries>>

Say(n) == [cmd |-> "say", line |-> n]
Other(c) == [cmd |-> c, line |-> 0]
Line(n) == [kind |-> "PRIVMSG", line |-> n]
Plain(k) == [kind |-> k, line |-> 0]
Lines(queue) == SelectSeq(queue, LAMBDA m : m.kind = "PRIVMSG")

Init ==
    /\ phase = "dialling" /\ attempt = 0 /\ ever = FALSE /\ tries = 1
    /\ registered = FALSE /\ farewell = "none"
    /\ outgoing = <<>> /\ echoed = <<>> /\ sent = <<>> /\ asked = 0
    /\ commands = <<>> /\ handle = TRUE /\ listener = TRUE /\ typed = 0
    /\ listing = FALSE

\* The locals of connect_once, fresh for the next connection.
Hangup ==
    /\ registered' = FALSE /\ farewell' = "none"
    /\ outgoing' = <<>> /\ echoed' = <<>> /\ sent' = <<>> /\ asked' = 0

-----------------------------------------------------------------------------
(* The reconnect loop.                                                     *)

Dial ==
    /\ phase' = "dialling"
    /\ tries' = IF tries <= MaxAttempts THEN tries + 1 ELSE tries

\* Mutant of AfterLoss: giving up returns instead of waiting to be asked.
AfterLossExits(refused) ==
    /\ Hangup
    /\ phase' = IF refused \/ (~ever /\ attempt >= MaxAttempts) THEN "gone" ELSE "waiting"
    /\ attempt' = IF attempt < AttemptCap THEN attempt + 1 ELSE attempt
    /\ UNCHANGED <<ever, commands, user, listing, tries>>

\* What run does once connect_once has returned Lost or Refused.
AfterLoss(refused) ==
    /\ Hangup
    /\ IF refused \/ (~ever /\ attempt >= MaxAttempts)
       THEN phase' = "parked" /\ UNCHANGED attempt
       ELSE phase' = "waiting" /\ attempt' = IF attempt < AttemptCap THEN attempt + 1 ELSE attempt
    /\ UNCHANGED <<ever, commands, user, listing, tries>>

DialFails ==
    /\ phase = "dialling"
    /\ AfterLoss(FALSE)

\* Mutant of DialSucceeds: the backoff is reset when the socket opens.
DialSucceedsResets ==
    /\ phase = "dialling"
    /\ phase' = "up"
    /\ attempt' = 0
    /\ UNCHANGED <<ever, conn, commands, user, listing, tries>>

DialSucceeds ==
    /\ phase = "dialling"
    /\ phase' = "up"
    /\ UNCHANGED <<attempt, ever, conn, commands, user, listing, tries>>

\* The backoff has been waited out.
Elapse ==
    /\ phase = "waiting"
    /\ Dial
    /\ UNCHANGED <<attempt, ever, conn, commands, user, listing>>

Gone ==
    /\ phase' = "gone"
    /\ Hangup
    /\ commands' = <<>>
    /\ UNCHANGED <<attempt, ever, user, listing, tries>>

\* Mutant of ReadOffline: a parked actor drops every command.
ReadOfflineDeaf ==
    /\ phase \in {"waiting", "parked"} /\ commands # <<>>
    /\ \/ Head(commands).cmd = "disconnect" /\ phase = "waiting" /\ Gone
       \/ /\ phase = "parked" \/ Head(commands).cmd # "disconnect"
          /\ commands' = Tail(commands)
          /\ UNCHANGED <<phase, attempt, ever, conn, user, listing, tries>>

\* Both waits read commands, and only Reconnect and Disconnect end them.
ReadOffline ==
    /\ phase \in {"waiting", "parked"} /\ commands # <<>>
    /\ \/ Head(commands).cmd = "disconnect" /\ Gone
       \/ /\ Head(commands).cmd = "reconnect" /\ phase = "waiting"
          /\ Dial
          /\ commands' = Tail(commands)
          /\ UNCHANGED <<attempt, ever, conn, user, listing>>
       \/ /\ Head(commands).cmd = "reconnect" /\ phase = "parked"
          /\ phase' = "dialling" /\ tries' = 1
          /\ attempt' = 0
          /\ commands' = Tail(commands)
          /\ UNCHANGED <<ever, conn, user, listing>>
       \/ /\ Head(commands).cmd \in {"say", "list"}
          /\ commands' = Tail(commands)
          /\ UNCHANGED <<phase, attempt, ever, conn, user, listing, tries>>

\* The handle was dropped and the channel is drained.
HandleGone ==
    /\ phase \in {"waiting", "parked", "up"} /\ commands = <<>> /\ ~handle
    /\ Gone

-----------------------------------------------------------------------------
(* The event loop of one connection.                                       *)

\* queue, for each kind of command; echo comes with the queueing.
Queue(c) ==
    \/ /\ c.cmd = "say"
       /\ echoed' = Append(echoed, c.line)
       /\ outgoing' = Append(outgoing, Line(c.line))
       /\ UNCHANGED listing
    \/ /\ c.cmd = "list" /\ ~listing
       /\ listing' = TRUE
       /\ outgoing' = Append(outgoing, Plain("LIST"))
       /\ UNCHANGED echoed
    \/ /\ c.cmd = "reconnect" \/ (c.cmd = "list" /\ listing)
       /\ UNCHANGED <<echoed, outgoing, listing>>

ReadOnline ==
    /\ phase = "up" /\ commands # <<>>
    /\ \/ Head(commands).cmd = "disconnect" /\ Gone
       \/ /\ Head(commands).cmd # "disconnect" /\ Queue(Head(commands))
          /\ commands' = Tail(commands)
          /\ UNCHANGED <<phase, attempt, ever, registered, farewell, sent, asked, user, tries>>

\* Mutant of Flush: the newest line goes first.
FlushNewest ==
    /\ phase = "up" /\ outgoing # <<>>
    /\ sent' = IF Last(outgoing).kind = "PRIVMSG" THEN Append(sent, Last(outgoing).line) ELSE sent
    /\ asked' = IF Last(outgoing).kind = "LIST" THEN asked + 1 ELSE asked
    /\ outgoing' = Front(outgoing)
    /\ UNCHANGED <<phase, attempt, ever, registered, farewell, echoed, commands, user, listing, tries>>

\* One queued line, when the send limiter allows.
Flush ==
    /\ phase = "up" /\ outgoing # <<>>
    /\ LET m == Head(outgoing) IN
       /\ sent' = IF m.kind = "PRIVMSG" THEN Append(sent, m.line) ELSE sent
       /\ asked' = IF m.kind = "LIST" THEN asked + 1 ELSE asked
    /\ outgoing' = Tail(outgoing)
    /\ UNCHANGED <<phase, attempt, ever, registered, farewell, echoed, commands, user, listing, tries>>

\* RPL_WELCOME: handle and on_registered.
Registered ==
    /\ phase = "up" /\ ~registered
    /\ registered' = TRUE
    /\ attempt' = 0
    /\ ever' = TRUE
    /\ outgoing' = Append(outgoing, Plain("JOIN"))
    /\ UNCHANGED <<phase, farewell, echoed, sent, asked, commands, user, listing, tries>>

\* The server's ERROR line, kept until the close that follows it.
ServerError(kind) ==
    /\ phase = "up"
    /\ farewell' = kind
    /\ UNCHANGED <<phase, attempt, ever, registered, outgoing, echoed, sent, asked, commands, user,
                   listing, tries>>

\* The stream ends or fails.
Close ==
    /\ phase = "up"
    /\ AfterLoss(farewell = "refusal")

\* RPL_LISTEND and finish_listing.
ListEnd ==
    /\ phase = "up" /\ asked > 0
    /\ asked' = asked - 1
    /\ listing' = FALSE
    /\ UNCHANGED <<phase, attempt, ever, registered, farewell, outgoing, echoed, sent, commands, user,
                   tries>>

\* RPL_LIST past MAX_LIST_REPLIES: on_list_reply stops waiting for the end.
ListTooLong ==
    /\ phase = "up" /\ asked > 0 /\ listing
    /\ asked + Len(SelectSeq(outgoing, LAMBDA m : m.kind = "LIST")) < MaxLists
    /\ listing' = FALSE
    /\ UNCHANGED <<phase, attempt, ever, conn, commands, user, tries>>

-----------------------------------------------------------------------------
(* The user interface.                                                     *)

\* ConnectionHandle::try_send, which a full channel answers with Busy.
Issue(c) ==
    /\ phase # "gone" /\ handle /\ Len(commands) < CommandQueue
    /\ commands' = Append(commands, c)
    /\ UNCHANGED <<phase, attempt, ever, conn, handle, listener, listing, tries>>

Type == typed < MaxLines /\ typed' = typed + 1 /\ Issue(Say(typed + 1))
Press(c) == UNCHANGED typed /\ Issue(Other(c))

DropHandle ==
    /\ handle
    /\ handle' = FALSE
    /\ UNCHANGED <<phase, attempt, ever, conn, commands, listener, typed, listing, tries>>

DropListener ==
    /\ listener
    /\ listener' = FALSE
    /\ UNCHANGED <<phase, attempt, ever, conn, commands, handle, typed, listing, tries>>

Ui ==
    \/ Type \/ DropHandle \/ DropListener
    \/ \E c \in {"list", "reconnect", "disconnect"} : Press(c)

World ==
    \/ DialFails \/ DialSucceeds \/ Registered \/ Close \/ ListEnd \/ ListTooLong
    \/ \E kind \in {"refusal", "other"} : ServerError(kind)

Read == ReadOnline \/ ReadOffline \/ HandleGone

Next == Ui \/ World \/ Read \/ Flush \/ Elapse

\* tokio polls the actor, so a line due goes out and a wait ends.  A command is ready
\* the moment it is polled for: the event loop takes it before the socket (biased), the
\* backoff wait long before its timer, so losing it to them for ever is not possible.
\* Nothing is owed by the network.
Fairness == SF_vars(Read) /\ WF_vars(Flush) /\ WF_vars(Elapse)

Spec == Init /\ [][Next]_vars /\ Fairness

-----------------------------------------------------------------------------
TypeOK ==
    /\ phase \in {"dialling", "up", "waiting", "parked", "gone"}
    /\ attempt \in 0..AttemptCap /\ typed \in 0..MaxLines /\ asked \in 0..MaxLists
    /\ tries \in 1..MaxAttempts + 1
    /\ ever \in BOOLEAN /\ registered \in BOOLEAN /\ listing \in BOOLEAN
    /\ handle \in BOOLEAN /\ listener \in BOOLEAN
    /\ farewell \in {"none", "refusal", "other"}
    /\ commands \in Seq([cmd : {"say", "list", "reconnect", "disconnect"}, line : 0..MaxLines])
    /\ Len(commands) <= CommandQueue
    /\ outgoing \in Seq([kind : {"PRIVMSG", "LIST", "JOIN"}, line : 0..MaxLines])
    /\ echoed \in Seq(1..MaxLines) /\ sent \in Seq(1..MaxLines)

(* Every line shown to the user as theirs on this connection has gone to the    *)
(* server or is on its way, in the order shown, and none has gone twice or      *)
(* unshown; a line shown on an earlier connection never turns up on this one    *)
(* (echo at queue time, and outgoing local to connect_once).                    *)
ShownIsSentInOrder ==
    echoed = sent \o [i \in 1..Len(Lines(outgoing)) |-> Lines(outgoing)[i].line]

(* A connection that has never worked stops trying unless somebody asks: a      *)
(* server that accepts and drops, or is not there, is not dialled for ever      *)
(* ("it must not keep trying once it has given up").                            *)
NoRetryQueued == \A i \in 1..Len(commands) : commands[i].cmd # "reconnect"
GivesUpUnasked == [](~ever) /\ <>[]NoRetryQueued => <>[](phase # "waiting")

(* Disconnect is obeyed wherever the actor is when it arrives, unless it is     *)
(* inside a dial that never returns (commands are not read during the dial).    *)
QuitQueued == \E i \in 1..Len(commands) : commands[i].cmd = "disconnect"
QuitObeyed == <>[](phase = "dialling") \/ (QuitQueued ~> phase = "gone")

(* "Try again" always starts another attempt: a Reconnect queued while the      *)
(* actor is parked leads to a dial, or to the end that was asked for before it  *)
(* ("Giving up must not take the way back with it").                            *)
RetryButtonWorks == (phase = "parked" /\ ~NoRetryQueued) ~> phase \in {"dialling", "gone"}

(* run returns only for a Disconnect or a dropped handle: no loss, refusal or   *)
(* full queue ends the actor and takes the command channel with it.             *)
EndsOnlyAsked ==
    [][phase # "gone" /\ phase' = "gone" =>
         IF commands = <<>> THEN ~handle ELSE Head(commands).cmd = "disconnect"]_vars

(* "How many times to try a connection that has never once worked":             *)
(* MAX_ATTEMPTS_BEFORE_FIRST_SUCCESS of them.                                   *)
TriesWithinLimit == ~ever => tries <= MaxAttempts

(* "`Some` from the moment the request goes out until the server says it has    *)
(* finished" (Actor.listing): while it is Some on a connection that is up, a    *)
(* LIST is queued or being answered there.                                      *)
ListingMeansAsked ==
    phase = "up" /\ listing => asked > 0 \/ \E i \in 1..Len(outgoing) : outgoing[i].kind = "LIST"

(* "The actor runs until the connection is explicitly closed or the event       *)
(* receiver is dropped" (spawn); a dial that never returns excepted.            *)
StopsUnheard == <>[](phase = "dialling") \/ (~listener ~> phase = "gone")
=============================================================================
