\* Two workers; one timer scheduled three times, or two in a batch; one fault.
SPECIFICATION LiveSpec
CONSTANTS
    k1 = k1
    k2 = k2
    i1 = i1
    i2 = i2
    Keys = {k1, k2}
    Workers = {w1, w2}
    Instants = {i1, i2}
    Batch = 2
    Concurrency = 1
    MaxAttempts = 2
    Plans <- MovedOrBatched
    MaxFaults = 1
    Later = Later
    Nobody = Nobody
    Orphan = Orphan
    NoRow = NoRow
\* Everything scheduled has settled in the end.
CHECK_DEADLOCK FALSE
INVARIANTS TTypeOK MovedTimerStands OneFirer
PROPERTIES HolderDecides OnlyFiredReaped EveryTimerSettles
