SPECIFICATION Spec
CONSTANTS
    c1 = c1
    c2 = c2
    Conns = {c1}
    Responsive = {c1}
    Stallers = {}
    Lines = {"register"}
    MaxLines = 1
PROPERTY StopDisconnects
CHECK_DEADLOCK FALSE
