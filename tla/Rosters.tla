------------------------------- MODULE Rosters -------------------------------
(***************************************************************************)
(* The client's picture of the rooms it is in, state/mod.rs of ddirc-core, *)
(* kept by nothing but the lines the server sends it.  Composed with the   *)
(* local server: both ends of the protocol are this repository's own.      *)
(*                                                                         *)
(* A client's queue is reliable, in order and unbounded, and its session   *)
(* is a function of the lines it has read, so a line is applied in the     *)
(* step that queues it: the picture is the one the client holds once it    *)
(* has read everything sent so far.                                        *)
(***************************************************************************)
EXTENDS Network, SequencesExt

CONSTANT NoMember
ASSUME NoMemberAssumption == NoMember \notin Nicks \X BOOLEAN

VARIABLE session    \* each client's Session

rosterVars == <<vars, session>>

Nobody == [k \in Keys |-> NoMember]

\* Session::new, before the welcome says what we are called.
Fresh ==
    [nick |-> NoNick,
     rooms |-> {},                                     \* keys of Session.channels
     who |-> [ch \in Chans |-> Nobody],                \* Channel.members
     topic |-> [ch \in Chans |-> NoTopic],
     burst |-> [ch \in Chans |-> FALSE]]               \* names_in_progress

IsSelf(s, n) == s.nick # NoNick /\ Fold[s.nick] = Fold[n]

\* A channel created (Channel::new) and a channel forgotten hold nothing.
Enter(s, ch) ==
    IF ch \in s.rooms THEN s ELSE [s EXCEPT !.rooms = @ \cup {ch}]
Drop(s, ch) ==
    [s EXCEPT !.rooms = @ \ {ch}, !.who[ch] = Nobody,
              !.topic[ch] = NoTopic, !.burst[ch] = FALSE]

OnWelcome(s, m) == [s EXCEPT !.nick = m.who]

\* on_join: only our own join makes a channel, and whoever joins starts plain.
OnJoin(s, m) ==
    IF m.chan \in s.rooms \/ IsSelf(s, m.who)
    THEN [Enter(s, m.chan) EXCEPT !.who[m.chan][Fold[m.who]] = <<m.who, FALSE>>]
    ELSE s

\* on_part, which a KICK uses too: our own leaving forgets the channel.
OnPart(s, m) ==
    IF IsSelf(s, m.who) THEN Drop(s, m.chan)
    ELSE IF m.chan \in s.rooms THEN [s EXCEPT !.who[m.chan][Fold[m.who]] = NoMember]
    ELSE s

\* on_quit
OnQuit(s, m) ==
    IF IsSelf(s, m.who) THEN [Fresh EXCEPT !.nick = s.nick]
    ELSE [s EXCEPT !.who = [ch \in Chans |-> [s.who[ch] EXCEPT ![Fold[m.who]] = NoMember]]]

\* Mutant of OnNickChange: the member starts plain again under the new nick.
OnNickChangePlain(s, m) ==
    LET moved(roster) ==
          IF roster[Fold[m.who]] = NoMember THEN roster
          ELSE [[roster EXCEPT ![Fold[m.who]] = NoMember] EXCEPT ![Fold[m.new]] = <<m.new, FALSE>>]
    IN  [s EXCEPT !.nick = IF IsSelf(s, m.who) THEN m.new ELSE @,
                  !.who = [ch \in Chans |-> moved(s.who[ch])]]

\* on_nick_change: the entry moves to the new key and keeps its privileges.
OnNickChange(s, m) ==
    LET moved(roster) ==
          IF roster[Fold[m.who]] = NoMember THEN roster
          ELSE [[roster EXCEPT ![Fold[m.who]] = NoMember]
                  EXCEPT ![Fold[m.new]] = <<m.new, roster[Fold[m.who]][2]>>]
    IN  [s EXCEPT !.nick = IF IsSelf(s, m.who) THEN m.new ELSE @,
                  !.who = [ch \in Chans |-> moved(s.who[ch])]]

\* on_names_reply: the first line of a burst clears the roster.
OnNamesReply(s, m) ==
    LET e == Enter(s, m.chan)
        base == IF e.burst[m.chan] THEN e.who[m.chan] ELSE Nobody
        named(k) == {p \in m.names : Fold[p[1]] = k}
    IN  [e EXCEPT !.burst[m.chan] = TRUE,
                  !.who[m.chan] =
                     [k \in Keys |->
                        IF named(k) = {} THEN base[k]
                        ELSE LET p == CHOOSE p \in named(k) : TRUE
                             IN  IF base[k] = NoMember THEN p
                                 ELSE <<base[k][1], base[k][2] \/ p[2]>>]]

OnEndOfNames(s, m) ==
    IF m.chan \in s.rooms THEN [s EXCEPT !.burst[m.chan] = FALSE] ELSE s

OnTopic(s, m) ==
    IF m.chan \in s.rooms THEN [s EXCEPT !.topic[m.chan] = m.text] ELSE s

\* on_mode for the one mode the server sends, +o or -o with a nick.
OnMode(s, m) ==
    IF m.chan \in s.rooms /\ s.who[m.chan][Fold[m.who]] # NoMember
    THEN [s EXCEPT !.who[m.chan][Fold[m.who]][2] = m.op]
    ELSE s

\* The arms of Actor::handle that touch the session.
Receive(s, m) ==
    CASE m.cmd = "WELCOME" -> OnWelcome(s, m)
      [] m.cmd = "JOIN" -> OnJoin(s, m)
      [] m.cmd \in {"PART", "KICK"} -> OnPart(s, m)
      [] m.cmd = "QUIT" -> OnQuit(s, m)
      [] m.cmd = "NICK" -> OnNickChange(s, m)
      [] m.cmd = "NAMREPLY" -> OnNamesReply(s, m)
      [] m.cmd = "ENDOFNAMES" -> OnEndOfNames(s, m)
      [] m.cmd = "TOPIC" -> OnTopic(s, m)
      [] m.cmd = "MODE" -> OnMode(s, m)
      [] OTHER -> s

\* A connection that has ended takes its session with it (Actor::run).
Read(c) ==
    IF c \in clients' THEN FoldLeft(Receive, session[c], out'[c]) ELSE Fresh

RosterInit == Init /\ session = [c \in Clients |-> Fresh]
RosterNext == Next /\ session' = [c \in Clients |-> Read(c)]
RosterSpec == RosterInit /\ [][RosterNext]_rosterVars

-----------------------------------------------------------------------------
(* Every client knows its own name, exactly the rooms it is in, and in each    *)
(* room exactly who is there under the name they go by now, who is an          *)
(* operator, and the topic: the lines Network sends and the way Session reads  *)
(* them agree, whatever else happens in between ("or their member lists        *)
(* silently go stale", on_nick).                                               *)
RostersAgree ==
    \A c \in Clients : registered[c] =>
        /\ session[c].nick = nick[c]
        /\ session[c].rooms = joined[c]
        /\ \A ch \in joined[c] :
             /\ session[c].who[ch] =
                  [k \in Keys |->
                     IF nicks[k] \in members[ch]
                     THEN <<nick[nicks[k]], nicks[k] \in operators[ch]>>
                     ELSE NoMember]
             /\ session[c].topic[ch] = topic[ch]
             /\ ~session[c].burst[ch]

(* A line about a room is never read by a client that does not know the room:  *)
(* the server's broadcasts reach members only, so on_names_reply never makes a *)
(* room up and nothing is said of people the client has not been told of.      *)
NoLineOutOfPlace ==
    [][\A c \in clients \cap clients' : \A i \in DOMAIN out'[c] :
          LET m == out'[c][i]
              s == FoldLeft(Receive, session[c], SubSeq(out'[c], 1, i - 1))
          IN  /\ m.cmd \in {"NAMREPLY", "TOPIC", "MODE", "PART", "KICK"} => m.chan \in s.rooms
              /\ m.cmd \in {"PART", "KICK", "MODE"} => s.who[m.chan][Fold[m.who]] # NoMember
              /\ m.cmd = "JOIN" /\ ~IsSelf(s, m.who)
                    => m.chan \in s.rooms /\ s.who[m.chan][Fold[m.who]] = NoMember]_rosterVars

=============================================================================
