\* Two workers and no faults: a timer whose first firing fails, scheduled again.
SPECIFICATION Spec
CONSTANTS
    k1 = k1
    k2 = k2
    i1 = i1
    i2 = i2
    Keys = {k1, k2}
    Workers = {w1, w2}
    Instants = {i1, i2}
    Batch = 2
    Concurrency = 1
    MaxAttempts = 2
    Plans <- Redelivered
    MaxFaults = 0
    Later = Later
    Nobody = Nobody
    Orphan = Orphan
    NoRow = NoRow
CHECK_DEADLOCK FALSE
PROPERTY RedeliveryKeepsLease
