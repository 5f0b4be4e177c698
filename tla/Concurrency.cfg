SPECIFICATION FairSpec
CONSTANTS
    r1 = r1
    r2 = r2
    r3 = r3
    i1 = i1
    i2 = i2
    Requests <- MCRequests
    LiveRequests <- MCLiveRequests
    Instances <- MCInstances
    Home <- MCHome
    MaxConcurrency = 1
    MaxWait = 1
    MaxFaults = 1
INVARIANTS
    OverAdmissionIsBounded
    QueueIsBounded
PROPERTIES
    SessionsHaveLeases
    LeftoversGo
CHECK_DEADLOCK FALSE
