SPECIFICATION OSpec
CONSTANTS
    Ops = {o1}
    Workers = {w1, w2}
    StartDelays = {0}
    Lease = 3
    ProgressInterval = 1
    RetryDelay = 1
    MaxAttempts = 2
    RecoverAfter = 1
    Retention = 1
    Fleets <- ShortWork
INVARIANT BudgetPerFault
PROPERTIES EveryOperationTerminates QueueDrains
CHECK_DEADLOCK FALSE
