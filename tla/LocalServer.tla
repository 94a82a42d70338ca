----------------------------- MODULE LocalServer -----------------------------
(***************************************************************************)
(* The tasks of the local server: lib.rs (accept loop, state task, stop,   *)
(* drop) and session.rs (one serve task and one writer task a connection). *)
(* They share nothing but channels: every session sends events to the      *)
(* state task, and the state task holds the only sender of each writer's   *)
(* queue, so dropping a client is what closes its connection.              *)
(*                                                                         *)
(* What the state makes of a line is Network; here a line registers the    *)
(* client, quits, does neither, or does not parse.  A deadline may pass    *)
(* whenever nothing is waiting to be read.                                 *)
(***************************************************************************)
EXTENDS Integers, Sequences, SequencesExt

CONSTANTS
    Conns,       \* connection ids
    Responsive,  \* connections whose peer answers PING
    Stallers,    \* connections whose peer may stop reading
    Lines,       \* the kinds of line peers send, of those below
    MaxLines     \* bound: lines a peer sends, answers to PING aside

ASSUME ConnAssumption ==
    /\ Responsive \subseteq Conns /\ Stallers \subseteq Conns
    /\ Lines \subseteq {"register", "talk", "noise", "quit"} /\ MaxLines \in Nat

VARIABLES
    server,     \* "up", "stopping" and "stopped" (stop), "dropped" (Drop)
    accepting,  \* the accept task is running
    serving,    \* the state task is running
    events,     \* the queue into the state task
    known,      \* keys of Network.clients
    reg,        \* Client.registered
    sess,       \* where each serve task is
    writer,     \* where each writer task is
    outbox,     \* the queue into each writer; its head is being sent while "sending"
    flag,       \* the AtomicBool `registered`
    notified,   \* the permit held by the Notify `welcome`
    grace,      \* registered_by is Some
    probing,    \* Idle.probing
    wire,       \* lines the peer has sent and the server has not read
    peer,       \* "up", "stalled" (reads nothing), "closed"
    pinged,     \* the peer has an unanswered PING
    lines       \* lines each peer has still to send

serverVars == <<server, accepting, serving>>
stateVars == <<known, reg>>
readerVars == <<sess, grace, probing, notified>>
writerVars == <<writer, flag>>
peerVars == <<wire, peer, pinged, lines>>
vars == <<serverVars, events, stateVars, readerVars, writerVars, outbox, peerVars>>

Init ==
    /\ server = "up" /\ accepting = TRUE /\ serving = TRUE
    /\ events = <<>> /\ known = {} /\ reg = {}
    /\ sess = [c \in Conns |-> "none"]
    /\ writer = [c \in Conns |-> "none"]
    /\ outbox = [c \in Conns |-> <<>>]
    /\ flag = [c \in Conns |-> FALSE]
    /\ notified = [c \in Conns |-> FALSE]
    /\ grace = [c \in Conns |-> FALSE]
    /\ probing = [c \in Conns |-> FALSE]
    /\ wire = [c \in Conns |-> <<>>]
    /\ peer = [c \in Conns |-> "up"]
    /\ pinged = [c \in Conns |-> FALSE]
    /\ lines = [c \in Conns |-> MaxLines]

Event(kind, c) == <<kind, c>>

\* A sender of c's queue exists: in the client table, or on its way there.
QueueOpen(c) ==
    serving /\ (c \in known \/ Event("connected", c) \in Range(events))

\* events.send: lost once the state task is gone.
Send(kind, c) == events' = IF serving THEN Append(events, Event(kind, c)) ELSE events

-----------------------------------------------------------------------------
(* serve, up to its loop.                                                  *)

\* Shutdown wins a tie (biased), so nothing is accepted once it is signalled.
Accept(c) ==
    /\ accepting /\ server = "up"
    /\ sess[c] = "none"
    /\ sess' = [sess EXCEPT ![c] = "handshake"]
    /\ UNCHANGED <<serverVars, events, stateVars, grace, probing, notified, writerVars,
                   outbox, peerVars>>

\* The handshake fails or takes too long: nothing was ever said of it.
HandshakeFails(c) ==
    /\ sess[c] = "handshake"
    /\ sess' = [sess EXCEPT ![c] = "done"]
    /\ UNCHANGED <<serverVars, events, stateVars, grace, probing, notified, writerVars,
                   outbox, peerVars>>

HandshakeDone(c) ==
    /\ sess[c] = "handshake"
    /\ Send("connected", c)
    /\ sess' = [sess EXCEPT ![c] = IF serving THEN "top" ELSE "done"]
    /\ writer' = [writer EXCEPT ![c] = IF serving THEN "idle" ELSE "none"]
    /\ grace' = [grace EXCEPT ![c] = TRUE]
    /\ UNCHANGED <<serverVars, stateVars, probing, notified, flag, outbox, peerVars>>

-----------------------------------------------------------------------------
(* The writer task.                                                        *)

\* For the welcome the flag is set first, and the reader woken after.
WriterTakes(c) ==
    /\ writer[c] = "idle" /\ outbox[c] # <<>>
    /\ LET welcome == Head(outbox[c]) = "welcome"
       IN  /\ writer' = [writer EXCEPT ![c] = IF welcome THEN "waking" ELSE "sending"]
           /\ flag' = [flag EXCEPT ![c] = @ \/ welcome]
    /\ UNCHANGED <<serverVars, events, stateVars, readerVars, outbox, peerVars>>

WriterWakes(c) ==
    /\ writer[c] = "waking"
    /\ writer' = [writer EXCEPT ![c] = "sending"]
    /\ notified' = [notified EXCEPT ![c] = TRUE]
    /\ UNCHANGED <<serverVars, events, stateVars, sess, grace, probing, flag, outbox, peerVars>>

\* The send completes only while the peer reads.
WriterSends(c) ==
    /\ writer[c] = "sending" /\ peer[c] # "stalled"
    /\ writer' = [writer EXCEPT ![c] = "idle"]
    /\ outbox' = [outbox EXCEPT ![c] = Tail(@)]
    /\ pinged' = [pinged EXCEPT ![c] = @ \/ Head(outbox[c]) = "ping"]
    /\ UNCHANGED <<serverVars, events, stateVars, readerVars, flag, wire, peer, lines>>

\* A send to a peer that has closed may fail.
WriterFails(c) ==
    /\ writer[c] = "sending" /\ peer[c] = "closed"
    /\ writer' = [writer EXCEPT ![c] = "done"]
    /\ outbox' = [outbox EXCEPT ![c] = <<>>]
    /\ UNCHANGED <<serverVars, events, stateVars, readerVars, flag, peerVars>>

\* The queue has closed and is empty; closing the sink flushes it.
WriterEnds(c) ==
    /\ writer[c] = "idle" /\ outbox[c] = <<>> /\ ~QueueOpen(c)
    /\ peer[c] # "stalled"
    /\ writer' = [writer EXCEPT ![c] = "done"]
    /\ UNCHANGED <<serverVars, events, stateVars, readerVars, flag, outbox, peerVars>>

Writer(c) ==
    WriterTakes(c) \/ WriterWakes(c) \/ WriterSends(c) \/ WriterFails(c) \/ WriterEnds(c)

-----------------------------------------------------------------------------
(* The loop of serve: a look at the flag, then the biased select.          *)

\* Drop the registration deadline and count silence from now.
Settle(c) ==
    /\ grace' = [grace EXCEPT ![c] = FALSE]
    /\ probing' = [probing EXCEPT ![c] = FALSE]

LoopTop(c) ==
    /\ sess[c] = "top"
    /\ sess' = [sess EXCEPT ![c] = "select"]
    /\ IF grace[c] /\ flag[c] THEN Settle(c) ELSE UNCHANGED <<grace, probing>>
    /\ UNCHANGED <<serverVars, events, stateVars, notified, writerVars, outbox, peerVars>>

\* Mutant of EndSession: a client never welcomed is not reported.
EndSessionQuietly(c) ==
    /\ IF flag[c] THEN Send("disconnected", c) ELSE UNCHANGED events
    /\ sess' = [sess EXCEPT ![c] = "closing"]
    /\ wire' = [wire EXCEPT ![c] = <<>>]
    /\ grace' = [grace EXCEPT ![c] = FALSE]
    /\ probing' = [probing EXCEPT ![c] = FALSE]
    /\ notified' = [notified EXCEPT ![c] = FALSE]

\* Every way out of the loop: Disconnected is sent, the reader is dropped with
\* what it has not read, and then the writer is awaited.
EndSession(c) ==
    /\ Send("disconnected", c)
    /\ sess' = [sess EXCEPT ![c] = "closing"]
    /\ wire' = [wire EXCEPT ![c] = <<>>]
    /\ grace' = [grace EXCEPT ![c] = FALSE]
    /\ probing' = [probing EXCEPT ![c] = FALSE]
    /\ notified' = [notified EXCEPT ![c] = FALSE]

Again(c) == sess' = [sess EXCEPT ![c] = "top"]

WriterGone(c) ==
    /\ sess[c] = "select" /\ writer[c] = "done"
    /\ EndSession(c)
    /\ UNCHANGED <<serverVars, stateVars, writerVars, outbox, peer, pinged, lines>>

WelcomeSeen(c) ==
    /\ sess[c] = "select" /\ writer[c] # "done"
    /\ grace[c] /\ notified[c]
    /\ notified' = [notified EXCEPT ![c] = FALSE]
    /\ Again(c)
    /\ UNCHANGED <<serverVars, events, stateVars, grace, probing, writerVars, outbox, peerVars>>

\* The third branch is polled when neither of the first two is ready.
Polled(c) ==
    sess[c] = "select" /\ writer[c] # "done" /\ ~(grace[c] /\ notified[c])

\* Any line counts as being heard from; one that does not parse goes no further.
ReadLine(c) ==
    /\ Polled(c) /\ wire[c] # <<>>
    /\ IF Head(wire[c]) # "noise" /\ ~serving
       THEN EndSession(c)
       ELSE /\ wire' = [wire EXCEPT ![c] = Tail(@)]
            /\ probing' = [probing EXCEPT ![c] = FALSE]
            /\ IF Head(wire[c]) = "noise" THEN UNCHANGED events ELSE Send(Head(wire[c]), c)
            /\ Again(c)
            /\ UNCHANGED <<grace, notified>>
    /\ UNCHANGED <<serverVars, stateVars, writerVars, outbox, peer, pinged, lines>>

PeerGone(c) ==
    /\ Polled(c) /\ wire[c] = <<>> /\ peer[c] = "closed"
    /\ EndSession(c)
    /\ UNCHANGED <<serverVars, stateVars, writerVars, outbox, peer, pinged, lines>>

\* Mutant of GraceLapses: the flag is not looked at again.
GraceLapsesBlindly(c) ==
    /\ Polled(c) /\ wire[c] = <<>> /\ grace[c]
    /\ EndSession(c)
    /\ UNCHANGED <<serverVars, stateVars, writerVars, outbox, peer, pinged, lines>>

\* The registration deadline: one more look at the flag before giving up.
GraceLapses(c) ==
    /\ Polled(c) /\ wire[c] = <<>> /\ grace[c]
    /\ IF flag[c] THEN Settle(c) /\ Again(c) /\ UNCHANGED <<events, notified, wire>>
                  ELSE EndSession(c)
    /\ UNCHANGED <<serverVars, stateVars, writerVars, outbox, peer, pinged, lines>>

\* Mutant of IdleLapses: silence is asked about again and again.
IdleLapsesAsksAgain(c) ==
    /\ Polled(c) /\ wire[c] = <<>> /\ ~grace[c]
    /\ probing' = [probing EXCEPT ![c] = TRUE]
    /\ IF probing[c] THEN UNCHANGED events ELSE Send("quiet", c)
    /\ Again(c)
    /\ UNCHANGED <<grace, notified, wire>>
    /\ UNCHANGED <<serverVars, stateVars, writerVars, outbox, peer, pinged, lines>>

\* The keepalive deadline, Idle::lapsed: ask, then drop.
IdleLapses(c) ==
    /\ Polled(c) /\ wire[c] = <<>> /\ ~grace[c]
    /\ IF probing[c] \/ ~serving
       THEN EndSession(c)
       ELSE /\ probing' = [probing EXCEPT ![c] = TRUE]
            /\ Send("quiet", c)
            /\ Again(c)
            /\ UNCHANGED <<grace, notified, wire>>
    /\ UNCHANGED <<serverVars, stateVars, writerVars, outbox, peer, pinged, lines>>

Reader(c) ==
    \/ LoopTop(c) \/ WriterGone(c) \/ WelcomeSeen(c) \/ ReadLine(c) \/ PeerGone(c)
    \/ GraceLapses(c) \/ IdleLapses(c)

\* writer.await: only now does the serve task let go of its events sender, and
\* nothing is left of the connection.
SessionEnds(c) ==
    /\ sess[c] = "closing" /\ writer[c] = "done"
    /\ sess' = [sess EXCEPT ![c] = "done"]
    /\ flag' = [flag EXCEPT ![c] = FALSE]
    /\ peer' = [peer EXCEPT ![c] = "closed"]
    /\ pinged' = [pinged EXCEPT ![c] = FALSE]
    /\ lines' = [lines EXCEPT ![c] = 0]
    /\ UNCHANGED <<serverVars, events, stateVars, grace, probing, notified, writer, outbox, wire>>

-----------------------------------------------------------------------------
(* The state task: events in order, the operator's requests in between.    *)

Reply(c, m) ==
    outbox' = IF writer[c] = "done" THEN outbox ELSE [outbox EXCEPT ![c] = Append(@, m)]

\* Mutant of RemoveClient: registration outlives the client.
RemoveClientHalf(c) == known' = known \ {c} /\ UNCHANGED reg

\* The client leaves the table, and its queue closes behind what is in it.
RemoveClient(c) == known' = known \ {c} /\ reg' = reg \ {c}

HandleEvent ==
    /\ serving /\ events # <<>>
    /\ events' = Tail(events)
    /\ LET kind == Head(events)[1]
           c == Head(events)[2]
       IN  \/ /\ kind = "connected"
              /\ known' = known \cup {c}
              /\ UNCHANGED <<reg, outbox>>
           \/ /\ kind = "register" /\ c \in known \ reg
              /\ reg' = reg \cup {c}
              /\ Reply(c, "welcome")
              /\ UNCHANGED known
           \/ /\ kind = "quiet" /\ c \in reg
              /\ Reply(c, "ping")
              /\ UNCHANGED stateVars
           \/ /\ kind = "quit" /\ c \in known
              /\ Reply(c, "error")
              /\ RemoveClient(c)
           \/ /\ kind = "disconnected"
              /\ RemoveClient(c)
              /\ UNCHANGED outbox
           \/ /\ \/ kind = "talk"
                 \/ kind = "register" /\ c \notin known \ reg
                 \/ kind = "quiet" /\ c \notin reg
                 \/ kind = "quit" /\ c \notin known
              /\ UNCHANGED <<stateVars, outbox>>
    /\ UNCHANGED <<serverVars, readerVars, writerVars, peerVars>>

\* Mutant of AdminDrop: the client is left in the table, unregistered.
AdminDropLater(c) ==
    /\ serving /\ c \in known
    /\ Reply(c, "error")
    /\ reg' = reg \ {c}
    /\ UNCHANGED known
    /\ UNCHANGED <<serverVars, events, readerVars, writerVars, peerVars>>

\* Network::close for an operator's Disconnect or Ban.
AdminDrop(c) ==
    /\ serving /\ c \in known
    /\ Reply(c, "error")
    /\ RemoveClient(c)
    /\ UNCHANGED <<serverVars, events, readerVars, writerVars, peerVars>>

-----------------------------------------------------------------------------
(* stop and Drop.                                                          *)

Stop ==
    /\ server = "up"
    /\ server' = "stopping"
    /\ UNCHANGED <<accepting, serving, events, stateVars, readerVars, writerVars, outbox, peerVars>>

AcceptEnds ==
    /\ server = "stopping" /\ accepting
    /\ accepting' = FALSE
    /\ UNCHANGED <<server, serving, events, stateVars, readerVars, writerVars, outbox, peerVars>>

\* Mutant of StateEnds: a sender handed to a session is kept by another hand too.
StateEndsHeld ==
    /\ serving /\ ~accepting /\ events = <<>>
    /\ \A c \in Conns : sess[c] = "none"
    /\ serving' = FALSE
    /\ UNCHANGED <<server, accepting, events, stateVars, readerVars, writerVars, outbox, peerVars>>

\* recv returns None once every sender has gone: the accept task's and one a
\* session.
StateEnds ==
    /\ serving /\ ~accepting /\ events = <<>>
    /\ \A c \in Conns : sess[c] \in {"none", "done"}
    /\ serving' = FALSE
    /\ UNCHANGED <<server, accepting, events, stateVars, readerVars, writerVars, outbox, peerVars>>

StopReturns ==
    /\ server = "stopping" /\ ~accepting /\ ~serving
    /\ server' = "stopped"
    /\ UNCHANGED <<accepting, serving, events, stateVars, readerVars, writerVars, outbox, peerVars>>

\* Both tasks are aborted; the network, with every queue's sender, goes too.
\* The session tasks are nobody's and are left to find out.
DropServer ==
    /\ server = "up"
    /\ server' = "dropped" /\ accepting' = FALSE /\ serving' = FALSE
    /\ events' = <<>> /\ known' = {} /\ reg' = {}
    /\ UNCHANGED <<readerVars, writerVars, outbox, peerVars>>

-----------------------------------------------------------------------------
(* The peers.                                                              *)

Connected(c) == sess[c] \in {"top", "select"}

PeerSpeaks(c, line) ==
    /\ Connected(c) /\ peer[c] # "closed" /\ lines[c] > 0 /\ wire[c] = <<>>
    /\ wire' = [wire EXCEPT ![c] = Append(@, line)]
    /\ lines' = [lines EXCEPT ![c] = @ - 1]
    /\ UNCHANGED <<serverVars, events, stateVars, readerVars, writerVars, outbox, peer, pinged>>

PeerPongs(c) ==
    /\ c \in Responsive /\ Connected(c) /\ pinged[c] /\ peer[c] = "up" /\ wire[c] = <<>>
    /\ wire' = [wire EXCEPT ![c] = Append(@, "talk")]
    /\ pinged' = [pinged EXCEPT ![c] = FALSE]
    /\ UNCHANGED <<serverVars, events, stateVars, readerVars, writerVars, outbox, peer, lines>>

PeerHangsUp(c) ==
    /\ Connected(c) /\ peer[c] # "closed"
    /\ peer' = [peer EXCEPT ![c] = "closed"]
    /\ UNCHANGED <<serverVars, events, stateVars, readerVars, writerVars, outbox, wire, pinged, lines>>

PeerStalls(c) ==
    /\ Connected(c) /\ c \in Stallers /\ peer[c] = "up"
    /\ peer' = [peer EXCEPT ![c] = "stalled"]
    /\ UNCHANGED <<serverVars, events, stateVars, readerVars, writerVars, outbox, wire, pinged, lines>>

-----------------------------------------------------------------------------
Handshake(c) == HandshakeFails(c) \/ HandshakeDone(c)

Session(c) == Accept(c) \/ Handshake(c) \/ Writer(c) \/ Reader(c) \/ SessionEnds(c)

Peer(c) ==
    \/ PeerPongs(c) \/ PeerHangsUp(c) \/ PeerStalls(c)
    \/ \E line \in Lines : PeerSpeaks(c, line)

Server == HandleEvent \/ Stop \/ AcceptEnds \/ StateEnds \/ StopReturns \/ DropServer

Next == Server \/ \E c \in Conns : Session(c) \/ Peer(c) \/ AdminDrop(c)

\* Tasks that can run do run, deadlines pass, and a responsive peer answers.
Fairness ==
    /\ WF_vars(HandleEvent) /\ WF_vars(AcceptEnds) /\ WF_vars(StateEnds) /\ WF_vars(StopReturns)
    /\ \A c \in Conns : /\ WF_vars(Handshake(c)) /\ WF_vars(Writer(c)) /\ WF_vars(Reader(c))
                        /\ WF_vars(SessionEnds(c)) /\ WF_vars(PeerPongs(c))

Spec == Init /\ [][Next]_vars /\ Fairness

-----------------------------------------------------------------------------
TypeOK ==
    /\ server \in {"up", "stopping", "stopped", "dropped"}
    /\ accepting \in BOOLEAN /\ serving \in BOOLEAN
    /\ events \in Seq(({"connected", "quiet", "disconnected", "talk"} \cup Lines) \X Conns)
    /\ known \subseteq Conns /\ reg \subseteq known
    /\ sess \in [Conns -> {"none", "handshake", "top", "select", "closing", "done"}]
    /\ writer \in [Conns -> {"none", "idle", "waking", "sending", "done"}]
    /\ outbox \in [Conns -> Seq({"welcome", "ping", "error"})]
    /\ {flag, notified, grace, probing, pinged} \subseteq [Conns -> BOOLEAN]
    /\ wire \in [Conns -> Seq(Lines \cup {"talk"})]
    /\ peer \in [Conns -> {"up", "stalled", "closed"}]
    /\ lines \in [Conns -> 0..MaxLines]

(* Nobody is left in the state after their connection has ended: a client in   *)
(* the table has a session reading for it, or the Disconnected that will take  *)
(* it out is on its way and nothing of that session's comes after it ("there   *)
(* is no second path by which a connection can end", serve).                   *)
NobodyLeftBehind ==
    \A c \in Conns :
        LET gone == {i \in DOMAIN events : events[i] = Event("disconnected", c)}
        IN  /\ c \in known => Connected(c) \/ gone # {}
            /\ \A i \in gone : \A j \in DOMAIN events : j > i => events[j][2] # c

(* A client the server has welcomed is not thrown out for not registering, the *)
(* welcome landing anywhere in the reader's loop, the very moment of the       *)
(* deadline included (the second look at the flag in serve).                   *)
WelcomeBeatsGrace ==
    [][\A c \in Conns :
          Polled(c) /\ wire[c] = <<>> /\ peer[c] # "closed" /\ sess'[c] = "closing" /\ flag[c]
             => probing[c] \/ ~serving]_vars

(* A client that has said its last is dropped from the state in the end,       *)
(* registered or not, whether or not it reads what it is sent, and its nick    *)
(* with it: the registration grace, the keepalive and the state task between   *)
(* them leave no connection without a deadline (Keepalive, session.rs).  Only  *)
(* one that answers PING for ever stays for ever.                              *)
SilenceEnds ==
    \A c \in Conns : []<>(c \notin known) \/ []<><<PeerPongs(c)>>_vars

(* Dropping the server ends every session's reading, though nothing tells the  *)
(* sessions: each finds its queue closed or its events refused (Drop, lib.rs). *)
DropReachesAll == \A c \in Conns : (server = "dropped") ~> sess[c] \notin {"handshake", "top", "select"}

(* stop returns unless some peer answers every PING for ever or has stopped    *)
(* reading for ever: nobody who is merely silent or half registered holds it   *)
(* up (stop awaits the state task, which awaits every session).                *)
StopCompletes ==
    \/ (server = "stopping") ~> (server = "stopped")
    \/ \E c \in Conns : []<><<PeerPongs(c)>>_vars
    \/ \E c \in Conns : <>[](peer[c] = "stalled")

(* stop disconnects whoever is connected: "Anyone connected is disconnected,   *)
(* which is the honest reading of switching off a server".                     *)
StopDisconnects == \A c \in Conns : (server = "stopping") ~> (c \notin known)

(* A reader that has finished ends its writer: "Dropping the reader closes the *)
(* socket, which ends the writer even if the state task never gets to drop the *)
(* queue."                                                                     *)
ReaderEndsWriter == \A c \in Conns : sess[c] = "closing" ~> writer[c] = "done"

\* An id's stage, for Lifecycle.
Stage ==
    [c \in Conns |->
        IF c \in reg THEN "registered"
        ELSE IF c \in known THEN "here"
        ELSE IF serving /\ (sess[c] \in {"none", "handshake"} \/ Event("connected", c) \in Range(events))
        THEN "new"
        ELSE "gone"]

(* The events a session sends, in the order they are handled and with the      *)
(* operator's removals in between, take each id through its life once.         *)
Life == INSTANCE Lifecycle WITH Ids <- Conns, stage <- Stage
LivesOnce == Life!Spec
=============================================================================
