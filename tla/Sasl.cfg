SPECIFICATION McSpec
CONSTANT MaxLsLines = 2
INVARIANTS TypeOK EndsExactlyOnce   PoliteNickServ
PROPERTIES FinishedIsFinal NegotiationEnds RegistrationCompletes
CHECK_DEADLOCK FALSE
