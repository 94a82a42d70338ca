---------------------------- MODULE NetworkProofs ----------------------------
(* The invariants of the local server's state, for any set of connections,    *)
(* nicknames, channels and topics and any case folding.                       *)
EXTENDS Network, TLAPS

USE FoldAssumption, NoneAssumption

(* A departure, however it comes about: Network::disconnect leaves the nick    *)
(* index, the membership records and the ban list in agreement.                *)
LEMMA ForgetStep ==
    ASSUME NetworkInv, NEW c \in Clients, c \in clients, NEW w, Forget(c, w),
           banned' \subseteq Keys,
           \A k \in banned' : k \in banned \/ nicks[k] = c \/ nicks[k] = NoClient
    PROVE  NetworkInv'
<1> USE DEF NetworkInv
<1>1. TypeOK'
  BY DEF TypeOK, Forget
<1>2. NickIndexExact'
  BY DEF TypeOK, NickIndexExact, StandingExact, Forget
<1>3. MembershipExact'
  BY DEF TypeOK, MembershipExact, Forget
<1>4. BanHolds'
  BY <1>2 DEF TypeOK, BanHolds, NickIndexExact, Forget
<1>5. StandingExact'
  BY DEF TypeOK, StandingExact, Forget
<1> QED BY <1>1, <1>2, <1>3, <1>4, <1>5

(* claim_nick with the checks of on_nick around it: the index stays exact.      *)
LEMMA NickStep ==
    ASSUME NetworkInv, NEW c \in Clients, NEW n \in Nicks, Nick(c, n)
    PROVE  NetworkInv'
<1> USE DEF NetworkInv
<1>1. TypeOK'
  BY DEF TypeOK, Nick, ClaimNick, TryRegister, clientVars, chanVars
<1>2. NickIndexExact'
  BY DEF TypeOK, NickIndexExact, Nick, ClaimNick
<1>3. MembershipExact'
  BY DEF TypeOK, MembershipExact, Nick, TryRegister, chanVars
<1>4. BanHolds'
  BY DEF TypeOK, BanHolds, Nick, ClaimNick
<1>5. StandingExact'
  BY DEF TypeOK, StandingExact, Nick, ClaimNick, TryRegister
<1> QED BY <1>1, <1>2, <1>3, <1>4, <1>5

(* PART and every kick: one client leaves one channel it is in.                 *)
LEMMA LeaveStep ==
    ASSUME NetworkInv, NEW c \in Clients, NEW ch \in Chans, c \in members[ch],
           Leave(c, ch)
    PROVE  NetworkInv'
<1> USE DEF NetworkInv
<1>1. TypeOK'
  BY DEF TypeOK, Leave, clientVars
<1>2. NickIndexExact' /\ BanHolds' /\ StandingExact'
  BY DEF TypeOK, NickIndexExact, BanHolds, StandingExact, Leave, clientVars
<1>3. MembershipExact'
  BY DEF TypeOK, MembershipExact, Leave, clientVars
<1> QED BY <1>1, <1>2, <1>3

(* A step that touches neither who is who nor who is where.                     *)
LEMMA QuietStep ==
    ASSUME NetworkInv, UNCHANGED <<clientVars, joined, channels, members>>,
           operators' \in [Chans -> SUBSET Clients],
           \A ch \in Chans : operators'[ch] \subseteq members[ch],
           topic' \in [Chans -> Topics \cup {NoTopic}],
           banned' \subseteq banned
    PROVE  NetworkInv'
  BY DEF NetworkInv, TypeOK, NickIndexExact, MembershipExact, BanHolds,
         StandingExact, clientVars

(* The steps of registration, which leave the nick index and channels alone.    *)
LEMMA RegistrationStep ==
    ASSUME NetworkInv, NEW c \in Clients,
           Connect(c) \/ CapLs(c) \/ CapEnd(c) \/ User(c)
    PROVE  NetworkInv'
<1> USE DEF NetworkInv
<1>1. CASE Connect(c)
  BY <1>1 DEF Connect, TypeOK, NickIndexExact, MembershipExact, BanHolds,
              StandingExact, chanVars
<1>2. CASE CapLs(c)
  BY <1>2 DEF CapLs, TypeOK, NickIndexExact, MembershipExact, BanHolds,
              StandingExact, chanVars
<1>3. CASE CapEnd(c)
  <2> USE <1>3 DEF CapEnd, TryRegister, chanVars
  <2>1. TypeOK' /\ StandingExact'
    BY DEF TypeOK, StandingExact
  <2>2. NickIndexExact' /\ BanHolds'
    BY DEF TypeOK, NickIndexExact, BanHolds
  <2>3. MembershipExact'
    BY DEF TypeOK, MembershipExact
  <2> QED BY <2>1, <2>2, <2>3
<1>4. CASE User(c)
  <2> USE <1>4 DEF User, TryRegister, chanVars
  <2>1. TypeOK' /\ StandingExact'
    BY DEF TypeOK, StandingExact
  <2>2. NickIndexExact' /\ BanHolds'
    BY DEF TypeOK, NickIndexExact, BanHolds
  <2>3. MembershipExact'
    BY DEF TypeOK, MembershipExact
  <2> QED BY <2>1, <2>2, <2>3
<1> QED BY <1>1, <1>2, <1>3, <1>4

(* on_join, into a channel that exists or one it creates: both records grow.   *)
LEMMA JoinStep ==
    ASSUME NetworkInv, NEW c \in Clients, NEW ch \in Chans, Join(c, ch)
    PROVE  NetworkInv'
<1> USE DEF NetworkInv
<1>1. TypeOK'
  BY DEF TypeOK, Join, clientVars
<1>2. NickIndexExact' /\ BanHolds' /\ StandingExact'
  BY DEF TypeOK, NickIndexExact, BanHolds, StandingExact, Join, clientVars
<1>3. MembershipExact'
  BY DEF TypeOK, MembershipExact, Join, clientVars
<1> QED BY <1>1, <1>2, <1>3

(* CloseChannel: everyone in the room leaves it and the room goes.             *)
LEMMA CloseChannelStep ==
    ASSUME NetworkInv, NEW ch \in Chans, CloseChannel(ch)
    PROVE  NetworkInv'
<1> USE DEF NetworkInv
<1>1. /\ members' = [members EXCEPT ![ch] = {}]
      /\ operators' = [operators EXCEPT ![ch] = {}]
      /\ channels' = channels \ {ch}
      /\ topic' = [topic EXCEPT ![ch] = NoTopic]
      /\ joined' = [c \in Clients |-> IF c \in members[ch] THEN joined[c] \ {ch}
                                                            ELSE joined[c]]
      /\ UNCHANGED <<clientVars, banned>>
  BY DEF CloseChannel
<1>2. TypeOK'
  BY <1>1 DEF TypeOK, clientVars
<1>3. NickIndexExact' /\ BanHolds' /\ StandingExact'
  BY <1>1 DEF TypeOK, NickIndexExact, BanHolds, StandingExact, clientVars
<1>4. MembershipExact'
  BY <1>1 DEF TypeOK, MembershipExact, clientVars
<1> QED BY <1>2, <1>3, <1>4

(* Every handler of a client's line preserves the inductive invariant.         *)
LEMMA ClientStepInv ==
    ASSUME NetworkInv, NEW c \in Clients, ClientStep(c)
    PROVE  NetworkInv'
<1> USE DEF NetworkInv
<1>1. CASE Connect(c) \/ CapLs(c) \/ CapEnd(c) \/ User(c)
  BY <1>1, RegistrationStep
<1>2. CASE Disconnect(c) \/ Quit(c)
  BY <1>2, ForgetStep DEF Disconnect, Quit, TypeOK
<1>3. CASE Ping(c)
  BY <1>3, QuietStep DEF Ping, TypeOK, MembershipExact, chanVars
<1>4. ASSUME NEW n \in Nicks, Nick(c, n) PROVE NetworkInv'
  BY <1>4, NickStep
<1>5. ASSUME NEW n \in Nicks, Whisper(c, n) PROVE NetworkInv'
  BY <1>5, QuietStep DEF Whisper, TypeOK, MembershipExact, chanVars
<1>6. ASSUME NEW ch \in Chans, Join(c, ch) PROVE NetworkInv'
  BY <1>6, JoinStep
<1>7. ASSUME NEW ch \in Chans, Part(c, ch) PROVE NetworkInv'
  BY <1>7, LeaveStep DEF Part
<1>8. ASSUME NEW ch \in Chans, Say(c, ch) PROVE NetworkInv'
  BY <1>8, QuietStep DEF Say, TypeOK, MembershipExact, chanVars
<1>9. ASSUME NEW ch \in Chans, NEW t \in Topics \cup {NoTopic}, SetTopic(c, ch, t)
      PROVE NetworkInv'
  BY <1>9, QuietStep DEF SetTopic, TypeOK, MembershipExact
<1>10. ASSUME NEW ch \in Chans, NEW n \in Nicks, Kick(c, ch, n) PROVE NetworkInv'
  BY <1>10, LeaveStep DEF Kick, KickMember, TypeOK
<1> QED BY <1>1, <1>2, <1>3, <1>4, <1>5, <1>6, <1>7, <1>8, <1>9, <1>10 DEF ClientStep

(* Whoever a nick resolves to is a connected client.                            *)
LEMMA HolderIsConnected ==
    ASSUME NetworkInv, NEW n \in Nicks, nicks[Fold[n]] # NoClient
    PROVE  nicks[Fold[n]] \in Clients /\ nicks[Fold[n]] \in clients
<1>1. Fold[n] \in Keys /\ nicks \in [Keys -> Clients \cup {NoClient}]
  BY FoldAssumption DEF NetworkInv, TypeOK
<1> QED BY <1>1 DEF NetworkInv, NickIndexExact

(* Every command of the server's operator preserves the inductive invariant.   *)
LEMMA AdminStepInv ==
    ASSUME NetworkInv, AdminStep
    PROVE  NetworkInv'
<1> USE DEF NetworkInv
<1>1. ASSUME NEW n \in Nicks, AdminDisconnect(n) PROVE NetworkInv'
  <2>1. nicks[Fold[n]] \in Clients /\ nicks[Fold[n]] \in clients
    BY <1>1, HolderIsConnected DEF AdminDisconnect
  <2> QED BY <1>1, <2>1, ForgetStep DEF AdminDisconnect, TypeOK
<1>2. ASSUME NEW n \in Nicks, Ban(n) PROVE NetworkInv'
  <2>1. CASE nicks[Fold[n]] = NoClient
    BY <1>2, <2>1 DEF Ban, TypeOK, NickIndexExact, MembershipExact, BanHolds,
                      StandingExact, clientVars, chanVars
  <2>2. CASE nicks[Fold[n]] # NoClient
    <3>1. nicks[Fold[n]] \in Clients /\ nicks[Fold[n]] \in clients
      BY <2>2, HolderIsConnected
    <3>2. Forget(nicks[Fold[n]], <<ErrorMsg>>) /\ banned' = banned \cup {Fold[n]}
      BY <1>2, <2>2 DEF Ban
    <3> QED BY <3>1, <3>2, ForgetStep DEF TypeOK
  <2> QED BY <2>1, <2>2
<1>3. ASSUME NEW n \in Nicks, Unban(n) PROVE NetworkInv'
  BY <1>3, QuietStep DEF Unban, TypeOK, MembershipExact, chanVars
<1>4. ASSUME NEW ch \in Chans, CloseChannel(ch) PROVE NetworkInv'
  BY <1>4, CloseChannelStep
<1>5. ASSUME NEW ch \in Chans, NEW t \in Topics \cup {NoTopic}, AdminTopic(ch, t)
      PROVE NetworkInv'
  BY <1>5, QuietStep DEF AdminTopic, TypeOK, MembershipExact
<1>6. ASSUME NEW ch \in Chans, NEW n \in Nicks, AdminKick(ch, n) PROVE NetworkInv'
  BY <1>6, LeaveStep DEF AdminKick, KickMember, IsMember, TypeOK
<1>7. ASSUME NEW ch \in Chans, NEW n \in Nicks, NEW give \in BOOLEAN,
             SetOp(ch, n, give)
      PROVE NetworkInv'
  <2> DEFINE id == nicks[Fold[n]]
  <2>1. /\ UNCHANGED <<clientVars, joined, channels, members, topic, banned>>
        /\ operators' = [operators EXCEPT ![ch] = IF give THEN @ \cup {id} ELSE @ \ {id}]
        /\ id \in members[ch]
    BY <1>7 DEF SetOp, IsMember
  <2>2. /\ operators \in [Chans -> SUBSET Clients] /\ members \in [Chans -> SUBSET Clients]
        /\ topic \in [Chans -> Topics \cup {NoTopic}]
        /\ \A x \in Chans : operators[x] \subseteq members[x]
    BY DEF TypeOK, MembershipExact
  <2> HIDE DEF id, NetworkInv
  <2>3. operators' \in [Chans -> SUBSET Clients]
    BY <2>1, <2>2
  <2>4. \A x \in Chans : operators'[x] \subseteq members[x]
    BY <2>1, <2>2
  <2> QED BY <2>1, <2>2, <2>3, <2>4, QuietStep
<1> QED BY <1>1, <1>2, <1>3, <1>4, <1>5, <1>6, <1>7 DEF AdminStep

(* Every reachable state of the server satisfies the inductive invariant.       *)
THEOREM NetworkCorrect == Spec => []NetworkInv
<1>1. Init => NetworkInv
  BY DEF Init, NetworkInv, TypeOK, NickIndexExact, MembershipExact, BanHolds,
         StandingExact
<1>2. NetworkInv /\ [Next]_vars => NetworkInv'
  <2> SUFFICES ASSUME NetworkInv, [Next]_vars PROVE NetworkInv'
    OBVIOUS
  <2>1. CASE AdminStep
    BY <2>1, AdminStepInv
  <2>2. ASSUME NEW c \in Clients, ClientStep(c) PROVE NetworkInv'
    BY <2>2, ClientStepInv
  <2>3. CASE UNCHANGED vars
    BY <2>3 DEF vars, clientVars, chanVars, NetworkInv, TypeOK, NickIndexExact,
                MembershipExact, BanHolds, StandingExact
  <2> QED BY <2>1, <2>2, <2>3 DEF Next
<1> QED BY <1>1, <1>2, PTL DEF Spec

(* The nick index cannot drift from the clients, whatever order clients and     *)
(* operator act in and however they leave.                                      *)
THEOREM NickIndexNeverDrifts == Spec => []NickIndexExact
  BY NetworkCorrect, PTL DEF NetworkInv

(* Membership is recorded the same on both sides, operators are members, and no *)
(* empty channel is left behind.                                                *)
THEOREM MembershipAgrees == Spec => []MembershipExact
  BY NetworkCorrect, PTL DEF NetworkInv

(* A ban is never outlived by the name it is on.                                *)
THEOREM BansHold == Spec => []BanHolds
  BY NetworkCorrect, PTL DEF NetworkInv

(* Network::disconnect makes nobody an operator.                               *)
LEMMA ForgetGrantsNothing ==
    ASSUME NEW c, NEW w, Forget(c, w), NEW ch \in Chans
    PROVE  operators'[ch] \subseteq operators[ch]
<1>1. operators' = [x \in Chans |-> IF x \in joined[c] THEN operators[x] \ {c} ELSE operators[x]]
  BY DEF Forget
<1>2. operators'[ch] = IF ch \in joined[c] THEN operators[ch] \ {c} ELSE operators[ch]
  BY <1>1
<1> QED BY <1>2

(* Leaving a channel, by PART or a kick, makes nobody an operator either.       *)
LEMMA LeaveGrantsNothing ==
    ASSUME TypeOK, NEW c, NEW x \in Chans, Leave(c, x), NEW ch \in Chans
    PROVE  operators'[ch] \subseteq operators[ch]
<1>1. operators \in [Chans -> SUBSET Clients]
  BY DEF TypeOK
<1>2. operators' = [operators EXCEPT ![x] = @ \ {c}]
  BY DEF Leave
<1> QED BY <1>1, <1>2

(* Operator standing in a channel that exists comes only from the operator of   *)
(* the server.                                                                  *)
THEOREM OperatorsAreGranted == Spec => OperatorsGranted
<1> DEFINE Granted ==
      \A ch \in Chans : \A c \in operators'[ch] \ operators[ch] :
          \/ ch \notin channels /\ members'[ch] = {c}
          \/ \E n \in Nicks : SetOp(ch, n, TRUE)
<1>1. NetworkInv /\ [Next]_vars => [Granted]_vars
  <2> SUFFICES ASSUME NetworkInv, Next PROVE Granted
    BY DEF vars
  <2> SUFFICES ASSUME NEW ch \in Chans, NEW d \in operators'[ch] \ operators[ch]
               PROVE  \/ ch \notin channels /\ members'[ch] = {d}
                      \/ \E n \in Nicks : SetOp(ch, n, TRUE)
    OBVIOUS
  <2> USE DEF NetworkInv
  <2>1. ASSUME NEW c \in Clients, ClientStep(c)
        PROVE  ch \notin channels /\ members'[ch] = {d}
    <3> USE DEF TypeOK
    <3>1. ~(Connect(c) \/ CapLs(c) \/ CapEnd(c) \/ User(c) \/ Ping(c))
      BY DEF Connect, CapLs, CapEnd, User, Ping, chanVars
    <3>2. ~(Disconnect(c) \/ Quit(c))
      <4>1. ASSUME NEW w PROVE ~Forget(c, w)
        BY ForgetGrantsNothing
      <4> QED BY <4>1 DEF Disconnect, Quit
    <3>3. ASSUME NEW n \in Nicks PROVE ~(Nick(c, n) \/ Whisper(c, n))
      <4>1. ~Nick(c, n)
        BY DEF Nick, chanVars
      <4>2. ~Whisper(c, n)
        BY DEF Whisper, chanVars
      <4> QED BY <4>1, <4>2
    <3>4. ASSUME NEW x \in Chans PROVE ~(Part(c, x) \/ Say(c, x))
      <4>1. ~Part(c, x) BY LeaveGrantsNothing DEF Part
      <4>2. ~Say(c, x) BY DEF Say, chanVars
      <4> QED BY <4>1, <4>2
    <3>5. ASSUME NEW x \in Chans, NEW t \in Topics \cup {NoTopic}
          PROVE  ~SetTopic(c, x, t)
      BY DEF SetTopic
    <3>6. ASSUME NEW x \in Chans, NEW n \in Nicks PROVE ~Kick(c, x, n)
      <4>1. ASSUME NEW e PROVE ~Leave(e, x) BY LeaveGrantsNothing
      <4> QED BY <4>1 DEF Kick, KickMember
    <3>7. PICK x \in Chans : Join(c, x)
      BY <2>1, <3>1, <3>2, <3>3, <3>4, <3>5, <3>6 DEF ClientStep
    <3> QED BY <3>7 DEF Join, MembershipExact
  <2>2. ASSUME AdminStep PROVE \E n \in Nicks : SetOp(ch, n, TRUE)
    <3> USE DEF TypeOK
    <3>1. ASSUME NEW n \in Nicks PROVE ~(AdminDisconnect(n) \/ Ban(n) \/ Unban(n))
      <4>1. ASSUME NEW c, NEW w PROVE ~Forget(c, w)
        BY ForgetGrantsNothing
      <4>2. ~(UNCHANGED chanVars)
        BY DEF chanVars
      <4> QED BY <4>1, <4>2 DEF AdminDisconnect, Ban, Unban
    <3>2. ASSUME NEW x \in Chans PROVE ~CloseChannel(x)
      BY DEF CloseChannel
    <3>3. ASSUME NEW x \in Chans, NEW t \in Topics \cup {NoTopic}
          PROVE  ~AdminTopic(x, t)
      BY DEF AdminTopic
    <3>4. ASSUME NEW x \in Chans, NEW n \in Nicks PROVE ~AdminKick(x, n)
      <4>1. ASSUME NEW e PROVE ~Leave(e, x) BY LeaveGrantsNothing
      <4> QED BY <4>1 DEF AdminKick, KickMember
    <3>5. PICK x \in Chans, n \in Nicks, give \in BOOLEAN : SetOp(x, n, give)
      BY <2>2, <3>1, <3>2, <3>3, <3>4 DEF AdminStep
    <3>6. x = ch /\ give = TRUE
      BY <3>5 DEF SetOp
    <3> QED BY <3>5, <3>6
  <2> QED BY <2>1, <2>2 DEF Next
<1>2. Spec => [][Granted]_vars
  BY <1>1, NetworkCorrect, PTL DEF Spec
<1> QED BY <1>2 DEF OperatorsGranted

-----------------------------------------------------------------------------
(* A step that touches neither the ids nor who is registered is no step of     *)
(* Lifecycle.                                                                  *)
LEMMA SameStage ==
  ASSUME UNCHANGED <<used, clients, registered>>
  PROVE  UNCHANGED Stage
BY DEF Stage

(* Removing a client, by hanging up, QUIT, Disconnect or Ban, is Go.           *)
LEMMA ForgetGoes ==
  ASSUME NetworkInv, NEW c \in clients, NEW w, Forget(c, w)
  PROVE  Life!Next
<1>1. Stage' = [i \in Clients |-> IF i \in {c} THEN "gone" ELSE Stage[i]]
  BY DEF Stage, Forget, NetworkInv, TypeOK
<1>2. {c} \in SUBSET Clients
  BY DEF NetworkInv, TypeOK
<1>3. Life!Go
  BY <1>1, <1>2 DEF Life!Go
<1> QED BY <1>3 DEF Life!Next

(* try_register registers the client or leaves its standing alone.             *)
LEMMA TryRegisterRegisters ==
  ASSUME NetworkInv, NEW c \in clients, TryRegister(c), UNCHANGED <<used, clients>>
  PROVE  Life!Next \/ UNCHANGED Stage
<1> c \in Clients
  BY DEF NetworkInv, TypeOK
<1>1. CASE UNCHANGED registered
  BY <1>1, SameStage
<1>2. CASE ~registered[c] /\ registered' = [registered EXCEPT ![c] = TRUE]
  <2> registered \in [Clients -> BOOLEAN] /\ c \in used
    BY DEF NetworkInv, TypeOK
  <2>1. Stage[c] = "here"
    BY <1>2 DEF Stage
  <2>2. \A i \in Clients : Stage'[i] = IF i = c THEN "registered" ELSE Stage[i]
    BY <1>2 DEF Stage
  <2>3. Stage' = [Stage EXCEPT ![c] = "registered"]
    BY <2>2 DEF Stage
  <2>4. Life!Register(c)
    BY <2>1, <2>3 DEF Life!Register
  <2> QED BY <2>4 DEF Life!Next
<1> QED BY <1>1, <1>2 DEF TryRegister

(* Every step of the server's state is a step of Lifecycle or none.            *)
LEMMA StepOfLife ==
  ASSUME NetworkInv, Next
  PROVE  Life!Next \/ UNCHANGED Stage
<1> USE DEF NetworkInv
<1>1. ASSUME NEW c \in Clients, ClientStep(c)
      PROVE  Life!Next \/ UNCHANGED Stage
  <2>1. CASE Connect(c)
    <3>1. Stage[c] = "new" /\ Stage' = [Stage EXCEPT ![c] = "here"]
      BY <2>1 DEF Connect, Stage, TypeOK, StandingExact
    <3>2. Life!Enter(c)
      BY <3>1 DEF Life!Enter
    <3> QED BY <3>2 DEF Life!Next
  <2>2. CASE Disconnect(c) \/ Quit(c)
    <3>1. c \in clients /\ \E w : Forget(c, w)
      BY <2>2 DEF Disconnect, Quit
    <3> QED BY <3>1, ForgetGoes
  <2>3. CASE CapEnd(c) \/ User(c)
    BY <2>3, TryRegisterRegisters DEF CapEnd, User
  <2>4. CASE CapLs(c) \/ Ping(c)
    BY <2>4, SameStage DEF CapLs, Ping, clientVars
  <2>5. ASSUME NEW n \in Nicks, Nick(c, n) PROVE Life!Next \/ UNCHANGED Stage
    <3>1. CASE registered[c]
      BY <3>1, <2>5, SameStage DEF Nick
    <3>2. CASE ~registered[c]
      BY <3>2, <2>5, TryRegisterRegisters DEF Nick
    <3> QED BY <3>1, <3>2
  <2>6. ASSUME NEW n \in Nicks, Whisper(c, n) PROVE UNCHANGED Stage
    BY <2>6, SameStage DEF Whisper, clientVars
  <2>7. ASSUME NEW ch \in Chans, Join(c, ch) \/ Part(c, ch) \/ Say(c, ch)
        PROVE  UNCHANGED Stage
    BY <2>7, SameStage DEF Join, Part, Leave, Say, clientVars
  <2>8. ASSUME NEW ch \in Chans, NEW t \in Topics \cup {NoTopic}, SetTopic(c, ch, t)
        PROVE  UNCHANGED Stage
    BY <2>8, SameStage DEF SetTopic, clientVars
  <2>9. ASSUME NEW ch \in Chans, NEW n \in Nicks, Kick(c, ch, n) PROVE UNCHANGED Stage
    BY <2>9, SameStage DEF Kick, KickMember, Leave, clientVars
  <2> QED BY <1>1, <2>1, <2>2, <2>3, <2>4, <2>5, <2>6, <2>7, <2>8, <2>9 DEF ClientStep
<1>2. ASSUME AdminStep PROVE Life!Next \/ UNCHANGED Stage
  <2>1. ASSUME NEW n \in Nicks, AdminDisconnect(n) PROVE Life!Next
    <3>1. nicks[Fold[n]] \in clients /\ Forget(nicks[Fold[n]], <<ErrorMsg>>)
      BY <2>1, HolderIsConnected DEF AdminDisconnect
    <3> QED BY <3>1, ForgetGoes
  <2>2. ASSUME NEW n \in Nicks, Ban(n) PROVE Life!Next \/ UNCHANGED Stage
    <3>1. CASE nicks[Fold[n]] # NoClient
      <4>1. nicks[Fold[n]] \in clients /\ Forget(nicks[Fold[n]], <<ErrorMsg>>)
        BY <3>1, <2>2, HolderIsConnected DEF Ban
      <4> QED BY <4>1, ForgetGoes
    <3>2. CASE nicks[Fold[n]] = NoClient
      BY <3>2, <2>2, SameStage DEF Ban, clientVars
    <3> QED BY <3>1, <3>2
  <2>3. ASSUME NEW n \in Nicks, Unban(n) PROVE UNCHANGED Stage
    BY <2>3, SameStage DEF Unban, clientVars
  <2>4. ASSUME NEW ch \in Chans, CloseChannel(ch) PROVE UNCHANGED Stage
    BY <2>4, SameStage DEF CloseChannel, clientVars
  <2>5. ASSUME NEW ch \in Chans, NEW t \in Topics \cup {NoTopic}, AdminTopic(ch, t)
        PROVE  UNCHANGED Stage
    BY <2>5, SameStage DEF AdminTopic, clientVars
  <2>6. ASSUME NEW ch \in Chans, NEW n \in Nicks, AdminKick(ch, n) PROVE UNCHANGED Stage
    BY <2>6, SameStage DEF AdminKick, KickMember, Leave, clientVars
  <2>7. ASSUME NEW ch \in Chans, NEW n \in Nicks, NEW give \in BOOLEAN, SetOp(ch, n, give)
        PROVE  UNCHANGED Stage
    BY <2>7, SameStage DEF SetOp, clientVars
  <2> QED BY <1>2, <2>1, <2>2, <2>3, <2>4, <2>5, <2>6, <2>7 DEF AdminStep
<1> QED BY <1>1, <1>2 DEF Next

(* The server's state implements Lifecycle, for any number of clients: no      *)
(* handler registers an id twice, takes registration back, or brings back an   *)
(* id that has gone.                                                           *)
THEOREM NetworkImplementsLifecycle == Spec => LivesOnce
<1>1. Init => Life!Init
  BY DEF Init, Life!Init, Stage
<1>2. NetworkInv /\ [Next]_vars => [Life!Next]_Stage
  <2>1. UNCHANGED vars => UNCHANGED Stage
    BY SameStage DEF vars, clientVars
  <2> QED BY <2>1, StepOfLife
<1> QED BY <1>1, <1>2, NetworkCorrect, PTL DEF Spec, LivesOnce, Life!Spec

=============================================================================
