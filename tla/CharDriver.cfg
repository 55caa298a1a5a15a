SPECIFICATION Spec
CONSTANTS
    t1 = t1
    t2 = t2
    a = a
    b = b
    c = c
    NUL = NUL
    Testers <- MCTesters
    Messages <- MCMessages
    Byte <- MCByte
    BUFFER_SIZE = 4
SYMMETRY Symmetric
INVARIANTS
    HoldsAccepted
    ReadsAccepted
PROPERTY
    ImplementsLog
