SPECIFICATION RSpec
CONSTANTS
    Keys = {1, 2}
    Priorities = {0}
    Delays = {0, 1}
    Leases = {2}
    Limits = {2}
    MaxAttempts = 2
    MaxClaimBatch = 2
    ReapBatchSize = 1
    Retention = 0
    MaxClaims = 2
    MaxTime = 4
    Runners = {r1, r2}
    Lease = 2
    ExtendInterval = 1
    RetryDelay = 1
    Batch = 2
    Fleets <- EitherFleet
INVARIANTS RTypeOK CleanShutdown RunningIsHeld
PROPERTY RunnersUseQueue
SYMMETRY RunnerSymmetry
CHECK_DEADLOCK FALSE
