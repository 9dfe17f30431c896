SPECIFICATION Spec
CONSTANTS
    Keys = {1}
    Priorities = {0}
    Delays <- MCDelays
    Leases = {1, 2}
    Limits = {1}
    MaxAttempts = 2
    MaxClaimBatch = 1
    ReapBatchSize = 1
    Retention = 0
    MaxClaims = 3
    MaxTime = 4
INVARIANTS TypeOK LeaseHonoured LeaseExclusive CompletedByLatest CeilingHolds MergeAgrees
CHECK_DEADLOCK FALSE
PROPERTY ImplementsFencedQueue
