----------------------------- MODULE SaslProofs -----------------------------
(***************************************************************************)
(* The safety of registration, for every length of capability list and     *)
(* against every server: SaslInv is inductive, and a finished negotiation  *)
(* is never reopened.                                                      *)
(***************************************************************************)
EXTENDS Sasl, TLAPS

USE MaxLsAssumption

(* The connection starts with nothing sent and nothing concluded.             *)
LEMMA SaslInitInv == Init => SaslInv
<1> SUFFICES ASSUME Init PROVE SaslInv
  OBVIOUS
<1>0. Flags BY DEF Init, Flags
<1>1. TypeOK BY <1>0 DEF Init, TypeOK, Caps
<1>2. EndsExactlyOnce BY DEF Init, EndsExactlyOnce
<1>3. HonestOutcome BY DEF Init, HonestOutcome
<1>4. StateFacts BY DEF Init, StateFacts
<1> QED BY <1>1, <1>2, <1>3, <1>4 DEF SaslInv

(* Each kind of step of a finished exchange: one more CAP END than before, and *)
(* an outcome that is one of the three the user is shown.                      *)
LEMMA AuthOutcomes ==
    ASSUME TypeOK, NEW o \in {"Authenticated", "NoCredentials", "Unsupported", "Rejected"}
    PROVE  /\ AuthOutcome(o) \in {"Anonymous", "Sasl", "NickServFallback"}
           /\ AuthOutcome(o) = "Sasl" => o = "Authenticated"
           /\ AuthOutcome(o) = "Anonymous" => o = "NoCredentials"
BY DEF AuthOutcome, TypeOK

(* Ending the exchange keeps the invariant, whichever way it ends: the outcome *)
(* is the true one, and the password was sent only as agreed.                  *)
LEMMA FinishInv ==
    ASSUME SaslInv, state # "Finished", Flags',
           NEW o \in {"Authenticated", "NoCredentials", "Unsupported", "Rejected"}, Finish(o),
           o = "NoCredentials" => ~hasCreds, o = "Authenticated" => passwords = 1,
           hasCreds' = hasCreds, passwords' = passwords,
           reqSasl' => hasCreds /\ "sasl" \in offered', passwords > 0 => reqSasl',
           offered' \subseteq Caps, acked' \subseteq Caps, lsLines' \in 0..MaxLsLines,
           without' \in {"NoCredentials", "Unsupported"}
    PROVE  SaslInv'
<1>1. /\ AuthOutcome(o) \in {"Anonymous", "Sasl", "NickServFallback"}
      /\ AuthOutcome(o) = "Sasl" => passwords = 1
      /\ AuthOutcome(o) = "Anonymous" => ~hasCreds
  BY AuthOutcomes DEF SaslInv
<1>2. TypeOK'
  BY <1>1 DEF Finish, SaslInv, TypeOK, EndsExactlyOnce
<1>3. EndsExactlyOnce'
  BY DEF Finish, SaslInv, TypeOK, EndsExactlyOnce
<1>4. HonestOutcome'
  <2>1. passwords' > 0 => hasCreds' /\ reqSasl' /\ "sasl" \in offered'
    BY DEF SaslInv
  <2>2. auth' = "Sasl" => passwords' = 1 /\ state' = "Finished"
    BY <1>1 DEF Finish
  <2>3. state' = "Finished" /\ hasCreds' => auth' # "Anonymous"
    BY <1>1 DEF Finish
  <2> QED BY <2>1, <2>2, <2>3 DEF HonestOutcome
<1>5. StateFacts'
  BY DEF Finish, StateFacts
<1> QED BY <1>2, <1>3, <1>4, <1>5 DEF SaslInv

(* A capability line keeps the invariant, whether it is one of several, the   *)
(* last, or one too many.                                                     *)
LEMMA CapLsInv ==
    ASSUME SaslInv, NEW list \in SUBSET Caps, NEW more \in BOOLEAN, CapLs(list, more)
    PROVE  SaslInv'
<1>1. /\ state = "AwaitingCapabilities" /\ TypeOK /\ Flags
      /\ ~reqSasl /\ creds = hasCreds /\ auth = "Anonymous" /\ passwords = 0 /\ ends = 0
  BY DEF CapLs, SaslInv, TypeOK, EndsExactlyOnce, HonestOutcome, StateFacts
<1>2. /\ hasCreds' = hasCreds /\ nickserv' = nickserv /\ creds' = creds /\ passwords' = passwords
      /\ registered' = registered /\ identified' = identified
  BY DEF CapLs, config, session
<1>3. CASE lsLines >= MaxLsLines
  <2>1. /\ Finish("Rejected") /\ offered' = offered /\ lsLines' = lsLines /\ reqSasl' = reqSasl
        /\ without' = without /\ acked' = acked
    BY <1>3 DEF CapLs, caps
  <2>2. Flags' BY <1>1, <1>2, <2>1 DEF Flags
  <2>3. offered' \subseteq Caps /\ acked' \subseteq Caps /\ lsLines' \in 0..MaxLsLines
        /\ without' \in {"NoCredentials", "Unsupported"}
    BY <1>1, <2>1 DEF TypeOK
  <2>4. ~reqSasl' BY <1>1, <2>1
  <2> QED BY <1>1, <1>2, <2>1, <2>2, <2>3, <2>4, FinishInv
<1>4. CASE ~(lsLines >= MaxLsLines)
  <2>1. /\ offered' = offered \cup list /\ lsLines' = lsLines + 1 /\ acked' = acked
    BY <1>4 DEF CapLs
  <2>2. offered' \subseteq Caps /\ acked' \subseteq Caps /\ lsLines' \in 0..MaxLsLines
    BY <1>1, <1>4, <2>1 DEF TypeOK
  <2>3. CASE more
    <3>1. /\ state' = state /\ reqSasl' = reqSasl /\ without' = without /\ ends' = ends
          /\ auth' = auth /\ pending' = pending
      BY <1>4, <2>3 DEF CapLs
    <3>2. Flags' BY <1>1, <1>2, <3>1 DEF Flags
    <3>3. TypeOK' BY <1>1, <1>2, <2>2, <3>1, <3>2 DEF TypeOK
    <3>4. creds' = hasCreds' BY <1>1, <1>2
    <3>5. ~reqSasl' BY <1>1, <3>1
    <3>6. without' = "NoCredentials" BY <1>1, <3>1 DEF SaslInv, StateFacts
    <3> QED BY <1>1, <1>2, <3>1, <3>3, <3>4, <3>5, <3>6
            DEF SaslInv, EndsExactlyOnce, HonestOutcome, StateFacts
  <2>4. CASE ~more
    <3> DEFINE all == offered \cup list
               want == creds /\ Contains(all, "sasl")
               reason == IF creds THEN "Unsupported" ELSE "NoCredentials"
    <3>1. reqSasl' = want /\ without' = reason
      BY <1>4, <2>4 DEF CapLs, Request
    <3>2. /\ reqSasl' => hasCreds /\ "sasl" \in offered'
          /\ reqSasl' \in BOOLEAN
          /\ without' \in {"NoCredentials", "Unsupported"}
          /\ without' = "NoCredentials" => ~hasCreds
          /\ without' = "Unsupported" => hasCreds
      <4>1. want \in BOOLEAN /\ (want => creds /\ "sasl" \in all)
        <5>1. "-sasl" \notin all BY <1>1 DEF TypeOK, Caps
        <5>2. Contains(all, "sasl") \in BOOLEAN /\ (Contains(all, "sasl") => "sasl" \in all)
          BY <5>1 DEF Contains
        <5> QED BY <5>2
      <4>2. /\ reason \in {"NoCredentials", "Unsupported"}
            /\ reason = "NoCredentials" => ~creds
            /\ reason = "Unsupported" => creds
        OBVIOUS
      <4>3. creds <=> hasCreds BY <1>1
      <4> HIDE DEF want, reason
      <4> QED BY <2>1, <3>1, <4>1, <4>2, <4>3
    <3>3. Flags' BY <1>1, <1>2, <3>2 DEF Flags
    <3>4. CASE ~want /\ "message-tags" \notin all
      <4>1. Finish(without')
        BY <1>4, <2>4, <3>1, <3>4 DEF CapLs, Request
      <4> HIDE DEF want, reason, all
      <4> QED BY <1>1, <1>2, <2>2, <3>2, <3>3, <4>1, FinishInv
    <3>5. CASE ~(~want /\ "message-tags" \notin all)
      <4>1. state' = "AwaitingAck" /\ pending' = "REQ" /\ ends' = ends /\ auth' = auth
        BY <1>4, <2>4, <3>5 DEF CapLs, Request
      <4> HIDE DEF want, reason, all
      <4>2. TypeOK' BY <1>1, <1>2, <2>2, <3>2, <3>3, <4>1 DEF TypeOK
      <4>3. creds' = hasCreds' BY <1>1, <1>2
      <4>4. without' = "Unsupported" <=> hasCreds' BY <1>2, <3>2
      <4>5. StateFacts' BY <1>1, <1>2, <3>2, <4>1, <4>3, <4>4 DEF StateFacts
      <4> QED BY <1>1, <1>2, <4>1, <4>2, <4>5 DEF SaslInv, EndsExactlyOnce, HonestOutcome
    <3> QED BY <3>4, <3>5
  <2> QED BY <2>3, <2>4
<1> QED BY <1>3, <1>4

(* So does the answer to the request, grant or refusal.                       *)
LEMMA CapAnswerInv ==
    ASSUME SaslInv, (\E list \in SUBSET AckTokens : CapAck(list)) \/ CapNak
    PROVE  SaslInv'
<1>1. /\ state = "AwaitingAck" /\ TypeOK /\ Flags
      /\ creds = hasCreds /\ auth = "Anonymous" /\ passwords = 0 /\ ends = 0
      /\ reqSasl => hasCreds /\ "sasl" \in offered
      /\ without = "NoCredentials" => ~hasCreds
  BY DEF CapAck, CapNak, SaslInv, TypeOK, EndsExactlyOnce, HonestOutcome, StateFacts
<1>2. /\ hasCreds' = hasCreds /\ nickserv' = nickserv /\ creds' = creds /\ passwords' = passwords
      /\ registered' = registered /\ identified' = identified /\ reqSasl' = reqSasl
      /\ offered' = offered /\ lsLines' = lsLines /\ without' = without
  BY DEF CapAck, CapNak, config, session, caps
<1>3. Flags' BY <1>1, <1>2 DEF Flags
<1>4. /\ offered' \subseteq Caps /\ acked' \subseteq Caps /\ lsLines' \in 0..MaxLsLines
      /\ without' \in {"NoCredentials", "Unsupported"}
  BY <1>1, <1>2 DEF TypeOK, CapAck, CapNak, AckTokens, caps
<1>5. reqSasl' => hasCreds /\ "sasl" \in offered' BY <1>1, <1>2
<1>6. CASE Finish("Rejected") \/ Finish(without)
  <2>1. PICK o \in {"NoCredentials", "Unsupported", "Rejected"} :
           Finish(o) /\ (o = "NoCredentials" => ~hasCreds)
    BY <1>1, <1>6 DEF TypeOK
  <2> QED BY <1>1, <1>2, <1>3, <1>4, <1>5, <2>1, FinishInv
<1>7. CASE reqSasl /\ state' = "AwaitingChallenge" /\ pending' = "PLAIN" /\ UNCHANGED <<ends, auth>>
  <2>1. TypeOK' BY <1>1, <1>2, <1>3, <1>4, <1>7 DEF TypeOK
  <2>2. creds' = hasCreds' /\ reqSasl' BY <1>1, <1>2, <1>7
  <2>3. without' = "Unsupported" <=> hasCreds' BY <1>1, <1>2, <1>7 DEF SaslInv, StateFacts
  <2>4. hasCreds' /\ "sasl" \in offered' BY <1>1, <1>2, <1>7
  <2>5. StateFacts' BY <1>1, <1>2, <1>7, <2>2, <2>3, <2>4 DEF StateFacts
  <2> QED BY <1>1, <1>2, <1>7, <2>1, <2>5 DEF SaslInv, EndsExactlyOnce, HonestOutcome
<1>8. \/ Finish("Rejected") \/ Finish(without)
      \/ reqSasl /\ state' = "AwaitingChallenge" /\ pending' = "PLAIN" /\ UNCHANGED <<ends, auth>>
  BY DEF CapAck, CapNak
<1> QED BY <1>6, <1>7, <1>8

(* So does the challenge.                                                     *)
LEMMA ChallengeInv == ASSUME SaslInv, Challenge PROVE SaslInv'
<1>1. /\ state = "AwaitingChallenge" /\ TypeOK /\ Flags
      /\ creds = hasCreds /\ auth = "Anonymous" /\ passwords = 0 /\ ends = 0
      /\ reqSasl /\ hasCreds /\ "sasl" \in offered /\ (without = "Unsupported" <=> hasCreds)
  BY DEF Challenge, SaslInv, TypeOK, EndsExactlyOnce, HonestOutcome, StateFacts
<1>2. creds BY <1>1
<1>3. /\ hasCreds' = hasCreds /\ nickserv' = nickserv /\ creds' = creds /\ reqSasl' = reqSasl
      /\ registered' = registered /\ identified' = identified
      /\ offered' = offered /\ lsLines' = lsLines /\ without' = without /\ acked' = acked
  BY DEF Challenge, config, session, caps
<1>4. /\ state' = "AwaitingResult" /\ passwords' = 1 /\ pending' = "PASSWORD" /\ ends' = ends
      /\ auth' = auth
  BY <1>1, <1>2 DEF Challenge
<1>5. Flags' BY <1>1, <1>3 DEF Flags
<1>6. TypeOK' BY <1>1, <1>3, <1>4, <1>5 DEF TypeOK
<1>7. creds' = hasCreds' /\ reqSasl' /\ hasCreds' /\ "sasl" \in offered' BY <1>1, <1>3
<1>8. without' = "Unsupported" <=> hasCreds' BY <1>1, <1>3
<1>9. StateFacts' BY <1>1, <1>4, <1>7, <1>8 DEF StateFacts
<1> QED BY <1>1, <1>4, <1>6, <1>7, <1>9 DEF SaslInv, EndsExactlyOnce, HonestOutcome

(* So do the verdict and the deadline.                                        *)
LEMMA EndingInv == ASSUME SaslInv, SaslSuccess \/ SaslFail \/ Abandon PROVE SaslInv'
<1>1. /\ state # "Finished" /\ TypeOK /\ Flags
      /\ reqSasl => hasCreds /\ "sasl" \in offered
      /\ passwords > 0 => reqSasl
      /\ without \in {"NoCredentials", "Unsupported"}
  BY DEF SaslSuccess, SaslFail, Abandon, SaslInv, TypeOK, HonestOutcome, StateFacts
<1>2. /\ hasCreds' = hasCreds /\ nickserv' = nickserv /\ creds' = FALSE /\ passwords' = passwords
      /\ registered' = registered /\ identified' = identified /\ reqSasl' = reqSasl
      /\ offered' = offered /\ lsLines' = lsLines /\ without' = without /\ acked' = acked
  BY DEF SaslSuccess, SaslFail, Abandon, config, session, caps
<1>3. Flags' BY <1>1, <1>2 DEF Flags
<1>4. PICK o \in {"Authenticated", "NoCredentials", "Unsupported", "Rejected"} :
         /\ Finish(o)
         /\ o = "NoCredentials" => ~hasCreds
         /\ o = "Authenticated" => passwords = 1
  <2>1. CASE SaslSuccess
    BY <2>1 DEF SaslSuccess, SaslInv, StateFacts
  <2>2. CASE SaslFail
    BY <2>2 DEF SaslFail
  <2>3. CASE Abandon
    <3>1. CASE reqSasl \/ (state = "AwaitingCapabilities" /\ creds)
      BY <2>3, <3>1 DEF Abandon
    <3>2. CASE ~(reqSasl \/ (state = "AwaitingCapabilities" /\ creds))
      <4>1. Finish(without) BY <2>3, <3>2 DEF Abandon
      <4>2. without = "NoCredentials" => ~hasCreds
        <5>1. CASE state = "AwaitingCapabilities"
          <6>1. ~creds BY <3>2, <5>1
          <6>2. creds = hasCreds BY <1>1 DEF SaslInv, StateFacts
          <6> QED BY <6>1, <6>2
        <5>2. CASE state # "AwaitingCapabilities"
          BY <1>1, <5>2 DEF SaslInv, StateFacts
        <5> QED BY <5>1, <5>2
      <4> QED BY <1>1, <4>1, <4>2
    <3> QED BY <3>1, <3>2
  <2> QED BY <2>1, <2>2, <2>3
<1>5. /\ offered' \subseteq Caps /\ acked' \subseteq Caps /\ lsLines' \in 0..MaxLsLines
      /\ without' \in {"NoCredentials", "Unsupported"}
  BY <1>1, <1>2 DEF TypeOK
<1>6. (reqSasl' => hasCreds /\ "sasl" \in offered') /\ (passwords > 0 => reqSasl')
  BY <1>1, <1>2
<1> QED BY <1>1, <1>2, <1>3, <1>4, <1>5, <1>6, FinishInv

(* Every step keeps the invariant.                                            *)
LEMMA SaslNextInv == SaslInv /\ [Next]_vars => SaslInv'
<1> SUFFICES ASSUME SaslInv, [Next]_vars PROVE SaslInv'
  OBVIOUS
<1>1. CASE Welcome \/ UNCHANGED vars
  <2>1. /\ hasCreds' = hasCreds /\ nickserv' = nickserv /\ creds' = creds /\ reqSasl' = reqSasl
        /\ offered' = offered /\ lsLines' = lsLines /\ without' = without /\ acked' = acked
        /\ state' = state /\ ends' = ends /\ passwords' = passwords /\ auth' = auth
        /\ pending' = pending
    BY <1>1 DEF Welcome, vars, config, caps
  <2>2. Flags' BY <1>1, <2>1 DEF Welcome, vars, session, SaslInv, TypeOK, Flags
  <2>3. TypeOK' BY <2>1, <2>2 DEF SaslInv, TypeOK
  <2>4. EndsExactlyOnce' BY <2>1 DEF SaslInv, EndsExactlyOnce
  <2>5. HonestOutcome' BY <2>1 DEF SaslInv, HonestOutcome
  <2>6. StateFacts' BY <2>1 DEF SaslInv, StateFacts
  <2> QED BY <2>3, <2>4, <2>5, <2>6 DEF SaslInv
<1> QED BY <1>1, CapLsInv, CapAnswerInv, ChallengeInv, EndingInv DEF Next, Server

(* SaslInv holds in every state of every connection.                          *)
THEOREM SaslCorrect == Spec => []SaslInv
BY SaslInitInv, SaslNextInv, PTL DEF Spec

(* CAP END goes out once, exactly when the exchange is over.                   *)
THEOREM CapEndOnce == Spec => []EndsExactlyOnce
<1>1. SaslInv => EndsExactlyOnce BY DEF SaslInv
<1> QED BY <1>1, SaslCorrect, PTL

(* The password is used at most once and as agreed, and what is reported about *)
(* authentication is what happened.                                            *)
THEOREM OutcomeIsHonest == Spec => []HonestOutcome
<1>1. SaslInv => HonestOutcome BY DEF SaslInv
<1> QED BY <1>1, SaslCorrect, PTL

(* No line of the server reopens a finished negotiation.                      *)
THEOREM FinishedStays == Spec => FinishedIsFinal
<1>1. [Next]_vars => [state = "Finished" => UNCHANGED <<state, creds, caps, ends, passwords, auth>>]_vars
  BY DEF Next, Server, CapLs, CapAck, CapNak, Challenge, SaslSuccess, SaslFail, Abandon, Welcome, vars
<1> QED BY <1>1, PTL DEF Spec, FinishedIsFinal
=============================================================================
