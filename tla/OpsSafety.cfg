SPECIFICATION OSafety
CONSTANTS
    Ops = {o1}
    Workers = {w1, w2}
    StartDelays = {0}
    Lease = 2
    ProgressInterval = 1
    RetryDelay = 1
    MaxAttempts = 2
    RecoverAfter = 1
    Retention = 1
    Fleets <- AnyFleet
INVARIANTS OTypeOK SoleExecutor CancelBeatsOutcome RecordedByOwner
PROPERTY TerminalIsFinal
SYMMETRY WorkerSymmetry
CHECK_DEADLOCK FALSE
