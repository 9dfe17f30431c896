\* One saga, three workers, one of them deployed with another definition, three faults.
SPECIFICATION LiveSpec
CONSTANTS
    Instances = {i1}
    Workers = {w1, w2, w3}
    Operators = {o1}
    Drifted = {w3}
    NoWorker = NoWorker
    Steps = 3
    Undoable <- AllButLast
    Delay <- LastDelayed
    BatchSize = 1
    Concurrency = 1
    LeaseDuration = 3
    LockTTL = 4
    AdvanceTimeout = 1
    StepTimeout = 1
    MaxAttempts = 2
    MaxUndoAttempts = 2
    RetryDelay = 1
    MaxFaults = 3
    MaxResumes = 2
INVARIANTS STypeOK OneDriver OutcomeIsTrue InOrder
PROPERTIES MovesOnward EverySagaRests
