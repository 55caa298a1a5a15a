CONSTANTS
    PID_MIN = 3
    PID_MAX = 6
    caller = c
    Callers = {c}
SPECIFICATION FairSpec
INVARIANTS
    ResultIsFair
PROPERTIES
    CallEnds
    ImplementsPool
