\* Two calls of any kind, both order types, one crash and one failing request.
SPECIFICATION Spec
CONSTANTS
    Workers = {w1, w2}
    Versions = {1, 2, 3}
    OrderTypes = {"balance", "subscription"}
    Ops = {"webhook", "cancel", "expire", "reconcile", "verify", "retry"}
    LeaseDuration = 1
    GracePeriod = 1
    OrderTimeout = 1
    MaxCrashes = 1
    MaxErrors = 1
SYMMETRY WorkerSymmetry
INVARIANTS
    GrantedAtMostOnce
    GrantedOnlyIfPaid
    CompletedMeansServed
PROPERTIES
    PaidNeverUndone
    KeepsPromise
