SPECIFICATION FairSpec
CONSTANTS
    w1 = w1
    w2 = w2
    q1 = q1
    i1 = i1
    i2 = i2
    NoOne = NoOne
    Workers <- MCWorkers
    Requests <- MCRequests
    Instances <- MCInstances
    Home <- MCHome
    MaxAge = 2
    MaxEdits = 1
    MaxFaults = 1
INVARIANTS
    PresentedOnce
PROPERTIES
    GrantSurvives
    
    TokenIsRenewed
CHECK_DEADLOCK FALSE
