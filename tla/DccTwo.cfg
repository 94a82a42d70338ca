SPECIFICATION Spec
CONSTANTS
    Senders = {"alice"}
    Offers = {1, 2}
    Size = 2
    MaxRunning = 2
    Late = FALSE
    CrashStages <- NoStage
PROPERTY NothingOverwritten
CHECK_DEADLOCK FALSE
