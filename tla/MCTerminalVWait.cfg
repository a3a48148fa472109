CONSTANTS
    a = a
    b = b
    Callers = {a}
    Ops <- Session
    Target = 2
    MaxBehind = 1
    MaxIds = 3
    MaxScreens = 2
SPECIFICATION Spec
PROPERTIES WaitForReturnsFalse
CHECK_DEADLOCK FALSE
