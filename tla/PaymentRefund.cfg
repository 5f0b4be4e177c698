\* Requests and refunds, whole and partial, through every kind of provider.
SPECIFICATION Spec
CONSTANTS
    Workers = {w1, w2}
    Ops = {"request", "refund"}
    Amount = 2
    Amounts = {1, 2}
    Providers = {"keyed", "unkeyed", "unpaid"}
    StartBalances = {4}
    Charges = {3}
    MaxSpends = 1
    MaxRefunds = 2
    MaxAttempts = 3
    MaxCrashes = 0
    MaxErrors = 1
SYMMETRY WorkerSymmetry
CHECK_DEADLOCK FALSE
INVARIANTS
    ExclusiveRefund
