SPECIFICATION Spec
CONSTANTS
    Capacity = 6
    Rate = 2
    Unit = 3
    MaxNow = 7
INVARIANTS TypeOK WindowBounded 
