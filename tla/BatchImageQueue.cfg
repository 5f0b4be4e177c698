\* One job and three workers: two may follow one that lost its lock.
SPECIFICATION FairSpec
CONSTANTS
    Jobs = {j1}
    Workers = {w1, w2, w3}
    NoJob = NoJob
    NoWorker = NoWorker
    MaxLapses = 3
    MaxFaults = 2
    MaxCrashes = 2
INVARIANTS
    InflightIsQueued
    OneOwnerAtWork
PROPERTIES
    DeliversAtLeastOnce
    QueuedIsProcessed
