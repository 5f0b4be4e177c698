SPECIFICATION FairSpec
CONSTANTS
    Requests = {q1}
    Costs = {1}
    StartBalance = 2
    KeyQuota = 1
    QuotaLimit = 1
    NoTx = NoTx
    NoProc = NoProc
    Pollers = {p1}
    Rebuilders = {f1}
    Readers = {r1}
    MaxChanges = 1
    MaxFaults = 1
INVARIANTS
    ChargedOnce
    SnapshotIsFenced
    ConsumedMeansReconciled
PROPERTIES
    Converges
