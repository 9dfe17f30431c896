\* Two relays, two messages of one key or of none, two faults and one release.
SPECIFICATION LiveSpec
CONSTANTS
    Messages <- TwoMessages
    Keyings <- OneKeyOrNone
    Created <- OneInstant
    Transactions <- TransactionEach
    Relays = {r1, r2}
    BatchSize = 2
    LeaseDuration = 1
    Backoff = 1
    MaxAttempts = 2
    MaxSkew = 1
    MaxFaults = 2
    MaxReleases = 1
    Nobody = Nobody
    Orphan = Orphan
INVARIANT NothingLost
PROPERTIES HolderDecides KeyOrder EveryMessageSettles
