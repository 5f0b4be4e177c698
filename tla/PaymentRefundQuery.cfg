\* Refunds of one amount, queried while they are pending; a rollback may fail and
\* its audit entry too.
SPECIFICATION Spec
CONSTANTS
    Workers = {w1, w2}
    Ops = {"request", "refund", "query"}
    Amount = 2
    Amounts = {2}
    Providers = {"keyed"}
    StartBalances = {2, 4}
    Charges = {3}
    MaxSpends = 1
    MaxRefunds = 1
    MaxAttempts = 3
    MaxCrashes = 1
    MaxErrors = 2
SYMMETRY WorkerSymmetry
CHECK_DEADLOCK FALSE
INVARIANTS
    DeductedAtMostOnce
    RefundedMeansPaidBack
PROPERTIES
    RefundedIsFinal
    RefundNeverOverdraws
