\* Two requests, possibly different, that die anywhere, over several records' lives.
SPECIFICATION FairSpec
CONSTANTS
    Calls = {c1, c2}
    Ids = {i1, i2, i3}
    Prints = {p1, p2}
    None = None
    TTL = 3
    LockTime = 2
    Backoff = 1
    MaxStall = 1
    MaxAge = 2
INVARIANTS
    OneEffectUntilExpiry
    ExclusiveExecution
    ResponseIsOwn
PROPERTIES
    OrphanIsReleased
