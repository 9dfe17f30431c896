\* Two healthy workers with one slot each, two sagas to a batch, no faults.
SPECIFICATION Spec
CONSTANTS
    Instances = {i1, i2}
    Workers = {w1, w2}
    Operators = {}
    Drifted = {}
    NoWorker = NoWorker
    Steps = 3
    Undoable <- AllButLast
    Delay <- LastDelayed
    BatchSize = 2
    Concurrency = 1
    LeaseDuration = 3
    LockTTL = 3
    AdvanceTimeout = 1
    StepTimeout = 1
    MaxAttempts = 2
    MaxUndoAttempts = 2
    RetryDelay = 1
    MaxFaults = 0
    MaxResumes = 0
PROPERTY MovesOnward
