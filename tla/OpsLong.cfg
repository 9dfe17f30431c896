SPECIFICATION OSpec
CONSTANTS
    Ops = {o1}
    Workers = {w1}
    StartDelays = {0}
    Lease = 2
    ProgressInterval = 1
    RetryDelay = 1
    MaxAttempts = 2
    RecoverAfter = 1
    Retention = 1
    Fleets <- LongWork
PROPERTY EveryOperationTerminates
CHECK_DEADLOCK FALSE
