CONSTANTS
    Men = {m1, m2, m3}
    Women = {w1, w2, w3}
    b_limit = 2
    Nobody = Nobody
SPECIFICATION Spec
SYMMETRY Symmetry
INVARIANTS
    PlacesAddUp
    FlagCoversOccupants
    WaitingHasAWaiter
\* The program can deadlock: see Bathroom_deadlock.cfg.
CHECK_DEADLOCK FALSE
