\* One job, two workers that may both have it, and money frozen for other jobs.
SPECIFICATION Spec
CONSTANTS
    Jobs = {j1}
    Workers = {w1, w2}
    NoJob = NoJob
    Hold = 2
    Balances = {1, 2}
    OtherFrozen = 2
    Costs = {1, 3}
    MaxRetries = 2
    MaxFaults = 3
    MaxCrashes = 1
SYMMETRY WorkerSymmetry
CHECK_DEADLOCK FALSE
INVARIANTS
    FrozenCoversHolds
    CompletedIsCharged
    FailedIsNotRunning
    HoldIsRemembered
    RefundedAfterChargeIsGivenUp
PROPERTIES
    FinishedStaysFinished
