CONSTANTS
    a = a
    b = b
    Threads = {a, b}
    Ops <- Shared
    Replies <- OneShape
    MaxLaunches = 2
    MaxCalls = 4
SPECIFICATION RacesSpec
INVARIANTS StrayNeedsRivals RefusalNeedsCrossing OwnNeedsEarly MixNeedsSwap InternalNeedsOverlap OneInFlight
SYMMETRY Symmetry
CHECK_DEADLOCK FALSE
