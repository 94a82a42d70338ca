SPECIFICATION Spec
CONSTANTS
    MaxAttempts = 2
    AttemptCap = 3
    CommandQueue = 1
    MaxLines = 1
    MaxLists = 1
INVARIANT ListingMeansAsked
CHECK_DEADLOCK FALSE
