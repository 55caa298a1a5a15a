CONSTANTS
    Men = {m1}
    Women = {w1, w2}
    b_limit = 2
    Nobody = Nobody
SPECIFICATION FairSpec
PROPERTY Termination
CHECK_DEADLOCK FALSE
