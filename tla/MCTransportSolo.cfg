CONSTANTS
    a = a
    b = b
    Threads = {a}
    Ops <- Solo
    Replies <- TwoShapes
    MaxLaunches = 2
    MaxCalls = 5
SPECIFICATION Spec
INVARIANTS ResponseIsOwn RunningAccepts NoStrayProcess EOFIsLast
PROPERTIES ImplementsChannel
CHECK_DEADLOCK FALSE
