CONSTANTS
    a = a
    b = b
    Threads = {a}
    Ops <- Solo
    Replies <- TwoShapes
    MaxLaunches = 1
    MaxCalls = 3
SPECIFICATION Spec
INVARIANTS ResponseForCommand
CHECK_DEADLOCK FALSE
