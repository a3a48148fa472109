CONSTANTS
    a = a
    b = b
    Threads = {a, b}
    Ops <- Rivals
    Replies <- OneShape
    MaxLaunches = 2
    MaxCalls = 3
SPECIFICATION Spec
INVARIANTS TypeOK
PROPERTIES CallsReturn ReadersEnd
CHECK_DEADLOCK FALSE
