CONSTANTS
    a = a
    b = b
    Callers = {a}
    Ops <- Session
    Target = 2
    MaxBehind = 1
    MaxIds = 3
    MaxScreens = 2
SPECIFICATION Spec
INVARIANTS DisconnectDisconnects
CHECK_DEADLOCK FALSE
