SPECIFICATION Spec
CONSTANTS
    Senders = {"alice"}
    Offers = {1, 2, 3}
    Size = 2
    MaxRunning = 1
    Late = TRUE
    CrashStages <- NoStage
INVARIANT FinishedIsWhole
CHECK_DEADLOCK FALSE
