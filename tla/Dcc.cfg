SPECIFICATION Spec
CONSTANTS
    Senders = {"alice", "bob"}
    Offers = {1, 2, 3}
    Size = 2
    MaxRunning = 1
    Late = FALSE
    CrashStages <- SafeStages
INVARIANTS TypeOK FinishedIsWhole 
PROPERTIES  CancelEnds
CHECK_DEADLOCK FALSE
