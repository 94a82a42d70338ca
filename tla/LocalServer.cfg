SPECIFICATION Spec
CONSTANTS
    c1 = c1
    c2 = c2
    Conns = {c1}
    Responsive = {c1}
    Stallers = {c1}
    Lines = {"register", "quit", "talk", "noise"}
    MaxLines = 2
INVARIANTS TypeOK NobodyLeftBehind
PROPERTIES WelcomeBeatsGrace LivesOnce SilenceEnds  
CHECK_DEADLOCK FALSE
