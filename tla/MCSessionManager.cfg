CONSTANTS
    a = a
    b = b
    Threads = {a, b}
    Ops <- Everything
    MaxSessions = 2
SPECIFICATION Spec
INVARIANTS TypeOK RunningIsReachable StoppedOnce
PROPERTIES ClosedIsStopped
CHECK_DEADLOCK FALSE
