SPECIFICATION Spec
CONSTANTS
    EventQueue = 2
    Burst = 2
    MaxLost = 4
INVARIANT NeverOverReported
PROPERTY AccountedWithRoom
