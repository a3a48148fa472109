CONSTANTS
    a = a
    b = b
    Callers = {a, b}
    Ops <- Pair
    Target = 2
    MaxBehind = 1
    MaxIds = 3
    MaxScreens = 0
SPECIFICATION Spec
PROPERTIES AnswerIsOwn
CHECK_DEADLOCK FALSE
