\* Redelivered webhooks against expiry and one crash.
SPECIFICATION FairSpec
CONSTANTS
    Workers = {w1, w2}
    Versions = {1, 2, 3}
    OrderTypes = {"balance"}
    Ops = {"webhook", "expire"}
    LeaseDuration = 1
    GracePeriod = 1
    OrderTimeout = 1
    MaxCrashes = 1
    MaxErrors = 0
INVARIANTS
    AckedOnlyWhenSettled
PROPERTIES
    PaidIsCompleted
