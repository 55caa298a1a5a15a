SPECIFICATION Spec
CONSTANTS
    NULL = NULL
    Payload = {p1, p2}
    RequestedSize = 3
    MaxPushes = 6
INVARIANTS
    FirstInFirstOut
    RefusalsAreExact
PROPERTIES
    ImplementsFifo
