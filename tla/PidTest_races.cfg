CONSTANTS
    PID_MIN = 1
    PID_MAX = 2
    Callers = {c1, c2, c3}
    ITERATIONS = 2
SYMMETRY Symmetry
SPECIFICATION TestSpec
INVARIANTS
    InUseHasAMarker
    OverlapIsReported
