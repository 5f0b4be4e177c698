\* One job and one worker, under fairness.
SPECIFICATION FairSpec
CONSTANTS
    Jobs = {j1}
    Workers = {w1}
    NoJob = NoJob
    Hold = 2
    Balances = {1, 2}
    OtherFrozen = 2
    Costs = {1, 3}
    MaxRetries = 2
    MaxFaults = 4
    MaxCrashes = 1
CHECK_DEADLOCK FALSE
PROPERTIES
    HoldIsSettled
