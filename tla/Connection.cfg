SPECIFICATION Spec
CONSTANTS
    MaxAttempts = 2
    AttemptCap = 3
    CommandQueue = 1
    MaxLines = 2
    MaxLists = 2
 
PROPERTIES  GivesUpUnasked QuitObeyed RetryButtonWorks
CHECK_DEADLOCK FALSE
