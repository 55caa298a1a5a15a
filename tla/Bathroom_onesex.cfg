CONSTANTS
    Men = {m1}
    Women = {w1}
    b_limit = 2
    Nobody = Nobody
SPECIFICATION Spec
INVARIANT OneSexAtATime
