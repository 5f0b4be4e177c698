\* Operations up to twice as long as the lock time.
SPECIFICATION Spec
CONSTANTS
    Calls = {c1, c2, c3}
    Ids = {i1, i2, i3}
    Prints = {p1, p2, p3}
    None = None
    TTL = 8
    LockTime = 3
    MaxStall = 1
    MaxGap = 1
    MaxAge = 6
SYMMETRY Symmetry
INVARIANTS
    OneOperationAtATime
