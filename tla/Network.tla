------------------------------- MODULE Network -------------------------------
(***************************************************************************)
(* The local IRC server's state, src/core/ddirc-server/src/state.rs with   *)
(* the operator's commands of state/admin.rs.  One task owns it, so every  *)
(* handler is one atomic step.                                             *)
(*                                                                         *)
(* A client id is handed out once (lib.rs counts up), so an id that has    *)
(* gone never comes back.  A nick is a spelling; Fold is the server's      *)
(* ASCII case folding from spellings to the keys of the nick index.  A     *)
(* channel is named by its folded key.  Texts are members of small sets;   *)
(* numerics that only report an error change no state and are left out.    *)
(***************************************************************************)
EXTENDS FiniteSets, Integers, Sequences

CONSTANTS
    Clients,    \* connection ids, each used at most once
    Nicks,      \* valid nicknames as typed
    Keys,       \* folded nicknames
    Fold,       \* the case folding, a function from Nicks to Keys
    Chans,      \* folded channel names
    Topics,     \* topic texts
    NoNick, NoClient, NoTopic

ASSUME FoldAssumption == Fold \in [Nicks -> Keys]
ASSUME NoneAssumption ==
    /\ NoNick \notin Nicks
    /\ NoClient \notin Clients
    /\ NoTopic \notin Topics

VARIABLES
    used,         \* ids the acceptor has handed out so far
    clients,      \* keys of Network.clients
    nick,         \* Client.nick
    user,         \* Client.user is set
    registered,   \* Client.registered
    negotiating,  \* Client.negotiating
    joined,       \* Client.channels
    nicks,        \* Network.nicks: folded nick to holder
    channels,     \* keys of Network.channels
    members,      \* Channel.members
    operators,    \* Channel.operators
    topic,        \* Channel.topic
    banned,       \* Network.banned
    out           \* what the last step queued on each client's tx, in order

clientVars == <<used, clients, nick, user, registered, negotiating, nicks>>
chanVars == <<joined, channels, members, operators, topic>>
vars == <<clientVars, chanVars, banned, out>>

-----------------------------------------------------------------------------
(* What the server says.                                                   *)

Tell(S, m) == [c \in Clients |-> IF c \in S THEN <<m>> ELSE <<>>]
Silence == [c \in Clients |-> <<>>]

Welcome(c) == [cmd |-> "WELCOME", who |-> nick'[c]]
ErrorMsg == [cmd |-> "ERROR"]
PingMsg == [cmd |-> "PING"]
JoinMsg(c, ch) == [cmd |-> "JOIN", who |-> nick[c], chan |-> ch]
PartMsg(c, ch) == [cmd |-> "PART", who |-> nick[c], chan |-> ch]
KickMsg(c, ch) == [cmd |-> "KICK", who |-> nick[c], chan |-> ch]
QuitMsg(c) == [cmd |-> "QUIT", who |-> nick[c]]
NickMsg(c, n) == [cmd |-> "NICK", who |-> nick[c], new |-> n]
ModeMsg(c, ch, give) == [cmd |-> "MODE", who |-> nick[c], chan |-> ch, op |-> give]
TopicMsg(ch, t) == [cmd |-> "TOPIC", chan |-> ch, text |-> t]
TextMsg(c, to) == [cmd |-> "PRIVMSG", who |-> nick[c], to |-> to]

\* RPL_NAMREPLY and RPL_ENDOFNAMES for the channel as the step leaves it.
Names(ch) ==
    <<[cmd |-> "NAMREPLY", chan |-> ch,
       names |-> {<<nick[m], m \in operators'[ch]>> : m \in members'[ch]}],
      [cmd |-> "ENDOFNAMES", chan |-> ch]>>

Peers(c) == UNION {members[ch] : ch \in joined[c]}

-----------------------------------------------------------------------------
Init ==
    /\ used = {}
    /\ clients = {}
    /\ nick = [c \in Clients |-> NoNick]
    /\ user = [c \in Clients |-> FALSE]
    /\ registered = [c \in Clients |-> FALSE]
    /\ negotiating = [c \in Clients |-> FALSE]
    /\ joined = [c \in Clients |-> {}]
    /\ nicks = [k \in Keys |-> NoClient]
    /\ channels = {}
    /\ members = [ch \in Chans |-> {}]
    /\ operators = [ch \in Chans |-> {}]
    /\ topic = [ch \in Chans |-> NoTopic]
    /\ banned = {}
    /\ out = Silence

\* Mutant of Connect: an id may come back once it has gone.
ConnectAgain(c) ==
    /\ c \notin clients
    /\ used' = used \cup {c}
    /\ clients' = clients \cup {c}
    /\ out' = Silence
    /\ UNCHANGED <<nick, user, registered, negotiating, nicks, chanVars, banned>>

\* Network::connect, with the id the accept loop hands out.
Connect(c) ==
    /\ c \notin used
    /\ used' = used \cup {c}
    /\ clients' = clients \cup {c}
    /\ out' = Silence
    /\ UNCHANGED <<nick, user, registered, negotiating, nicks, chanVars, banned>>

\* Network::disconnect: the client and its nick go, it leaves every channel in
\* its own list, empty channels go, and everyone who shared one hears once.
Forget(c, lastWords) ==
    /\ clients' = clients \ {c}
    /\ nick' = [nick EXCEPT ![c] = NoNick]
    /\ user' = [user EXCEPT ![c] = FALSE]
    /\ registered' = [registered EXCEPT ![c] = FALSE]
    /\ negotiating' = [negotiating EXCEPT ![c] = FALSE]
    /\ joined' = [joined EXCEPT ![c] = {}]
    /\ nicks' = IF nick[c] = NoNick THEN nicks
                ELSE [nicks EXCEPT ![Fold[nick[c]]] = NoClient]
    /\ members' = [ch \in Chans |-> IF ch \in joined[c] THEN members[ch] \ {c}
                                                        ELSE members[ch]]
    /\ operators' = [ch \in Chans |-> IF ch \in joined[c] THEN operators[ch] \ {c}
                                                          ELSE operators[ch]]
    /\ channels' = {ch \in channels : members'[ch] # {}}
    /\ topic' = [ch \in Chans |-> IF ch \in channels' THEN topic[ch] ELSE NoTopic]
    /\ out' = [d \in Clients |->
                 IF d = c THEN lastWords
                 ELSE IF d \in Peers(c) /\ d \in clients THEN <<QuitMsg(c)>> ELSE <<>>]
    /\ UNCHANGED used

\* The session task reports the socket gone.  For an id the state has already
\* dropped nothing happens.
Disconnect(c) ==
    /\ c \in clients
    /\ Forget(c, <<>>)
    /\ UNCHANGED banned

\* QUIT: Network::close tells the client and drops it there and then.
Quit(c) ==
    /\ c \in clients
    /\ Forget(c, <<ErrorMsg>>)
    /\ UNCHANGED banned

-----------------------------------------------------------------------------
(* Registration.                                                           *)

\* Mutant of TryRegister: USER is not waited for.
TryRegisterEarly(c) ==
    IF ~registered[c] /\ ~negotiating'[c] /\ nick'[c] # NoNick
    THEN /\ registered' = [registered EXCEPT ![c] = TRUE]
         /\ out' = Tell({c}, Welcome(c))
    ELSE /\ UNCHANGED registered
         /\ out' = Silence

\* Network::try_register, the last step of CAP END, NICK and USER.
TryRegister(c) ==
    IF ~registered[c] /\ ~negotiating'[c] /\ nick'[c] # NoNick /\ user'[c]
    THEN /\ registered' = [registered EXCEPT ![c] = TRUE]
         /\ out' = Tell({c}, Welcome(c))
    ELSE /\ UNCHANGED registered
         /\ out' = Silence

\* CAP LS and CAP LIST hold registration back until CAP END.
CapLs(c) ==
    /\ c \in clients
    /\ negotiating' = [negotiating EXCEPT ![c] = TRUE]
    /\ out' = Silence
    /\ UNCHANGED <<used, clients, nick, user, registered, nicks, chanVars, banned>>

CapEnd(c) ==
    /\ c \in clients
    /\ negotiating' = [negotiating EXCEPT ![c] = FALSE]
    /\ UNCHANGED <<used, clients, nick, user, nicks, chanVars, banned>>
    /\ TryRegister(c)

\* on_user: refused once registered.
User(c) ==
    /\ c \in clients
    /\ ~registered[c]
    /\ user' = [user EXCEPT ![c] = TRUE]
    /\ UNCHANGED <<used, clients, nick, negotiating, nicks, chanVars, banned>>
    /\ TryRegister(c)

\* Mutant of ClaimNick: the nick held before is not released.
ClaimNickKeepsOld(c, n) ==
    /\ nicks' = [nicks EXCEPT ![Fold[n]] = c]
    /\ nick' = [nick EXCEPT ![c] = n]

\* claim_nick: release the nick held before, then take the new one.
ClaimNick(c, n) ==
    LET released == IF nick[c] = NoNick THEN nicks
                    ELSE [nicks EXCEPT ![Fold[nick[c]]] = NoClient]
    IN  /\ nicks' = [released EXCEPT ![Fold[n]] = c]
        /\ nick' = [nick EXCEPT ![c] = n]

\* on_nick: refused when the folded nick is banned or somebody else's.  A
\* rename is told to the client itself and to everyone sharing a channel.
Nick(c, n) ==
    /\ c \in clients
    /\ Fold[n] \notin banned
    /\ nicks[Fold[n]] \in {NoClient, c}
    /\ ClaimNick(c, n)
    /\ UNCHANGED <<used, clients, user, negotiating, chanVars, banned>>
    /\ IF registered[c]
       THEN /\ out' = IF nick[c] # n THEN Tell({c} \cup Peers(c), NickMsg(c, n))
                                     ELSE Silence
            /\ UNCHANGED registered
       ELSE TryRegister(c)

-----------------------------------------------------------------------------
(* Channels.                                                               *)

\* Mutant of Join: everyone who joins is an operator, and everyone is told.
JoinAsOperator(c, ch) ==
    /\ c \in clients /\ registered[c]
    /\ c \notin members[ch]
    /\ channels' = channels \cup {ch} /\ topic[ch] = NoTopic
    /\ members' = [members EXCEPT ![ch] = @ \cup {c}]
    /\ operators' = [operators EXCEPT ![ch] = @ \cup {c}]
    /\ joined' = [joined EXCEPT ![c] = @ \cup {ch}]
    /\ out' = [d \in Clients |->
                 IF d = c THEN <<JoinMsg(c, ch)>> \o Names(ch)
                 ELSE IF d \in members[ch] THEN <<JoinMsg(c, ch), ModeMsg(c, ch, TRUE)>> ELSE <<>>]
    /\ UNCHANGED <<clientVars, topic, banned>>

\* on_join: whoever creates a channel is its operator.  The joiner hears its
\* own JOIN first, then the topic if there is one, then the names.
Join(c, ch) ==
    /\ c \in clients /\ registered[c]
    /\ c \notin members[ch]
    /\ channels' = channels \cup {ch}
    /\ members' = [members EXCEPT ![ch] = @ \cup {c}]
    /\ operators' = [operators EXCEPT ![ch] = IF ch \in channels THEN @ ELSE @ \cup {c}]
    /\ joined' = [joined EXCEPT ![c] = @ \cup {ch}]
    /\ out' = [d \in Clients |->
                 IF d = c
                 THEN <<JoinMsg(c, ch)>>
                      \o (IF topic[ch] = NoTopic THEN <<>> ELSE <<TopicMsg(ch, topic[ch])>>)
                      \o Names(ch)
                 ELSE IF d \in members[ch] THEN <<JoinMsg(c, ch)>> ELSE <<>>]
    /\ UNCHANGED <<clientVars, topic, banned>>

\* Mutant of Leave: whoever leaves stays an operator.
LeaveKeepsOps(c, ch) ==
    /\ members' = [members EXCEPT ![ch] = @ \ {c}]
    /\ channels' = IF members'[ch] = {} THEN channels \ {ch} ELSE channels
    /\ topic' = IF members'[ch] = {} THEN [topic EXCEPT ![ch] = NoTopic] ELSE topic
    /\ joined' = [joined EXCEPT ![c] = @ \ {ch}]
    /\ UNCHANGED <<clientVars, operators, banned>>

\* The tail of on_part and kick_member: out of the channel on both sides, and
\* the channel goes with its last member.
Leave(c, ch) ==
    /\ members' = [members EXCEPT ![ch] = @ \ {c}]
    /\ operators' = [operators EXCEPT ![ch] = @ \ {c}]
    /\ channels' = IF members'[ch] = {} THEN channels \ {ch} ELSE channels
    /\ topic' = IF members'[ch] = {} THEN [topic EXCEPT ![ch] = NoTopic] ELSE topic
    /\ joined' = [joined EXCEPT ![c] = @ \ {ch}]
    /\ UNCHANGED <<clientVars, banned>>

\* on_part: said while still a member, so the leaver hears it too.
Part(c, ch) ==
    /\ c \in clients /\ registered[c]
    /\ c \in members[ch]
    /\ out' = Tell(members[ch], PartMsg(c, ch))
    /\ Leave(c, ch)

\* kick_member: the victim is told with everyone else.
KickMember(v, ch) ==
    /\ out' = Tell(members[ch], KickMsg(v, ch))
    /\ Leave(v, ch)

\* on_kick: by a channel operator, of whoever in the channel holds the nick.
Kick(c, ch, n) ==
    /\ c \in clients /\ registered[c]
    /\ c \in members[ch] /\ c \in operators[ch]
    /\ nicks[Fold[n]] \in members[ch]
    /\ KickMember(nicks[Fold[n]], ch)

\* Mutant of SetTopic: everyone on the server is told.
SetTopicTellsAll(c, ch, t) ==
    /\ c \in clients /\ registered[c]
    /\ c \in members[ch]
    /\ topic' = [topic EXCEPT ![ch] = t]
    /\ out' = Tell(clients, TopicMsg(ch, t))
    /\ UNCHANGED <<clientVars, joined, channels, members, operators, banned>>

\* on_topic with a text, which only a member may set; NoTopic is the empty text.
SetTopic(c, ch, t) ==
    /\ c \in clients /\ registered[c]
    /\ c \in members[ch]
    /\ topic' = [topic EXCEPT ![ch] = t]
    /\ out' = Tell(members[ch], TopicMsg(ch, t))
    /\ UNCHANGED <<clientVars, joined, channels, members, operators, banned>>

\* on_message to a channel, for its members and not echoed to the sender.
Say(c, ch) ==
    /\ c \in clients /\ registered[c]
    /\ c \in members[ch]
    /\ out' = Tell(members[ch] \ {c}, TextMsg(c, ch))
    /\ UNCHANGED <<clientVars, chanVars, banned>>

\* on_message to a nick, whoever holds it.
Whisper(c, n) ==
    /\ c \in clients /\ registered[c]
    /\ nicks[Fold[n]] # NoClient
    /\ out' = Tell({nicks[Fold[n]]}, TextMsg(c, n))
    /\ UNCHANGED <<clientVars, chanVars, banned>>

\* Network::ping, for a connection its session found quiet.
Ping(c) ==
    /\ c \in clients /\ registered[c]
    /\ out' = Tell({c}, PingMsg)
    /\ UNCHANGED <<clientVars, chanVars, banned>>

-----------------------------------------------------------------------------
(* The operator's commands, run on the same task.                          *)

\* AdminCommand::Disconnect, of a registered client.
AdminDisconnect(n) ==
    LET id == nicks[Fold[n]] IN
    /\ id # NoClient /\ registered[id]
    /\ Forget(id, <<ErrorMsg>>)
    /\ UNCHANGED banned

\* Mutants of Ban: only a registered holder is dropped; the spelling is banned.
BanRegisteredOnly(n) ==
    LET id == nicks[Fold[n]] IN
    /\ Fold[n] \notin banned
    /\ banned' = banned \cup {Fold[n]}
    /\ IF id # NoClient /\ registered[id]
       THEN Forget(id, <<ErrorMsg>>)
       ELSE out' = Silence /\ UNCHANGED <<clientVars, chanVars>>
BanSpelling(n) ==
    /\ n \notin banned
    /\ banned' = banned \cup {n}
    /\ out' = Silence /\ UNCHANGED <<clientVars, chanVars>>

\* AdminCommand::Ban: the name first, then whoever wears it, registered or not.
Ban(n) ==
    LET id == nicks[Fold[n]] IN
    /\ Fold[n] \notin banned
    /\ banned' = banned \cup {Fold[n]}
    /\ IF id # NoClient
       THEN Forget(id, <<ErrorMsg>>)
       ELSE out' = Silence /\ UNCHANGED <<clientVars, chanVars>>

Unban(n) ==
    /\ Fold[n] \in banned
    /\ banned' = banned \ {Fold[n]}
    /\ out' = Silence
    /\ UNCHANGED <<clientVars, chanVars>>

\* Network::member: a channel and the registered holder of n in it.
IsMember(ch, n) ==
    LET id == nicks[Fold[n]] IN
    ch \in channels /\ id # NoClient /\ registered[id] /\ id \in members[ch]

AdminKick(ch, n) ==
    /\ IsMember(ch, n)
    /\ KickMember(nicks[Fold[n]], ch)

\* set_op, which refuses a change that changes nothing.
SetOp(ch, n, give) ==
    LET id == nicks[Fold[n]] IN
    /\ IsMember(ch, n)
    /\ (id \in operators[ch]) # give
    /\ operators' = [operators EXCEPT ![ch] = IF give THEN @ \cup {id} ELSE @ \ {id}]
    /\ out' = Tell(members[ch], ModeMsg(id, ch, give))
    /\ UNCHANGED <<clientVars, joined, channels, members, topic, banned>>

AdminTopic(ch, t) ==
    /\ ch \in channels
    /\ topic' = [topic EXCEPT ![ch] = t]
    /\ out' = Tell(members[ch], TopicMsg(ch, t))
    /\ UNCHANGED <<clientVars, joined, channels, members, operators, banned>>

\* AdminCommand::CloseChannel: kick_member for every member in the order of
\* their ids.  Each hears the kicks up to its own; order is a listing of the
\* members, any listing standing for the order of the ids.
CloseChannel(ch) ==
    \E order \in [1..Cardinality(members[ch]) -> members[ch]] :
    /\ ch \in channels
    /\ \A i, j \in DOMAIN order : order[i] = order[j] => i = j
    /\ members' = [members EXCEPT ![ch] = {}]
    /\ operators' = [operators EXCEPT ![ch] = {}]
    /\ channels' = channels \ {ch}
    /\ topic' = [topic EXCEPT ![ch] = NoTopic]
    /\ joined' = [c \in Clients |-> IF c \in members[ch] THEN joined[c] \ {ch}
                                                          ELSE joined[c]]
    /\ out' = [d \in Clients |->
                 IF d \in members[ch]
                 THEN [i \in 1..(CHOOSE i \in DOMAIN order : order[i] = d)
                         |-> KickMsg(order[i], ch)]
                 ELSE <<>>]
    /\ UNCHANGED <<clientVars, banned>>

-----------------------------------------------------------------------------
ClientStep(c) ==
    \/ Connect(c) \/ Disconnect(c) \/ Quit(c)
    \/ CapLs(c) \/ CapEnd(c) \/ User(c) \/ Ping(c)
    \/ \E n \in Nicks : Nick(c, n) \/ Whisper(c, n)
    \/ \E ch \in Chans : Join(c, ch) \/ Part(c, ch) \/ Say(c, ch)
    \/ \E ch \in Chans, t \in Topics \cup {NoTopic} : SetTopic(c, ch, t)
    \/ \E ch \in Chans, n \in Nicks : Kick(c, ch, n)

AdminStep ==
    \/ \E n \in Nicks : AdminDisconnect(n) \/ Ban(n) \/ Unban(n)
    \/ \E ch \in Chans : CloseChannel(ch)
    \/ \E ch \in Chans, t \in Topics \cup {NoTopic} : AdminTopic(ch, t)
    \/ \E ch \in Chans, n \in Nicks : AdminKick(ch, n)
    \/ \E ch \in Chans, n \in Nicks, give \in BOOLEAN : SetOp(ch, n, give)

Next == AdminStep \/ \E c \in Clients : ClientStep(c)

Spec == Init /\ [][Next]_vars

-----------------------------------------------------------------------------
TypeOK ==
    /\ clients \subseteq used /\ used \subseteq Clients
    /\ nick \in [Clients -> Nicks \cup {NoNick}]
    /\ user \in [Clients -> BOOLEAN]
    /\ registered \in [Clients -> BOOLEAN]
    /\ negotiating \in [Clients -> BOOLEAN]
    /\ joined \in [Clients -> SUBSET Chans]
    /\ nicks \in [Keys -> Clients \cup {NoClient}]
    /\ channels \subseteq Chans
    /\ members \in [Chans -> SUBSET Clients]
    /\ operators \in [Chans -> SUBSET Clients]
    /\ topic \in [Chans -> Topics \cup {NoTopic}]
    /\ banned \subseteq Keys

(* The nick index and the clients say the same thing: a key maps to a client   *)
(* exactly when that client is connected and holds a nick folding to it.       *)
(* state.rs promises it of claim_nick ("cannot drift") and disconnect.         *)
NickIndexExact ==
    \A k \in Keys, c \in Clients :
        nicks[k] = c <=> c \in clients /\ nick[c] # NoNick /\ Fold[nick[c]] = k

(* Who is in a channel is recorded twice, in Channel.members and in            *)
(* Client.channels.  The two agree, only registered clients are in a channel,  *)
(* operators are members, and a channel exists exactly while it has members.   *)
MembershipExact ==
    \A ch \in Chans :
        /\ \A c \in Clients : c \in members[ch] <=> ch \in joined[c]
        /\ \A c \in members[ch] : c \in clients /\ registered[c]
        /\ operators[ch] \subseteq members[ch]
        /\ ch \in channels <=> members[ch] # {}

(* A banned name is nobody's: banning drops whoever wears it, registered or    *)
(* not, and on_nick refuses it in every spelling until the ban is lifted.      *)
BanHolds == \A k \in banned : nicks[k] = NoClient

(* Nothing is left of a client that has gone, so a new id starts blank, and    *)
(* whoever is registered has given both a nick and a user name.  The rest of   *)
(* the inductive invariant; try_register and disconnect are what it is about.  *)
StandingExact ==
    \A c \in Clients :
        /\ c \notin clients => nick[c] = NoNick /\ ~registered[c] /\ ~user[c] /\ ~negotiating[c]
        /\ registered[c] => nick[c] # NoNick /\ user[c]

NetworkInv ==
    TypeOK /\ NickIndexExact /\ MembershipExact /\ BanHolds /\ StandingExact

(* A client becomes an operator of a channel that stands only when the server's *)
(* operator says so; joining makes one only of a channel nobody is in.          *)
OperatorsGranted ==
    [][\A ch \in Chans : \A c \in operators'[ch] \ operators[ch] :
          \/ ch \notin channels /\ members'[ch] = {c}
          \/ \E n \in Nicks : SetOp(ch, n, TRUE)]_vars

\* An id's stage, for Lifecycle.
Stage ==
    [c \in Clients |->
        IF c \notin used THEN "new"
        ELSE IF c \notin clients THEN "gone"
        ELSE IF registered[c] THEN "registered" ELSE "here"]

(* Whatever the handlers do, an id is registered at most once, never goes back *)
(* to being unregistered, and once removed, by whichever path, is never heard  *)
(* of again: the state implements Lifecycle.                                   *)
Life == INSTANCE Lifecycle WITH Ids <- Clients, stage <- Stage
LivesOnce == Life!Spec

=============================================================================
