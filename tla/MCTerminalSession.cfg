CONSTANTS
    a = a
    b = b
    Callers = {a}
    Ops <- Session
    Target = 2
    MaxBehind = 1
    MaxIds = 3
    MaxScreens = 2
SPECIFICATION Spec
INVARIANTS TypeOK FailedMeansDead DisconnectedMeansNoHost ConnectedMeansHost KeyWaitsForUnlock KeyboardFlagIsTrue
PROPERTIES BufferMovesForward MethodsReturn
CHECK_DEADLOCK FALSE
