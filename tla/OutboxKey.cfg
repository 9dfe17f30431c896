\* Two healthy relays: no faults, nothing released.
SPECIFICATION Spec
CONSTANTS
    Messages <- TwoMessages
    Keyings <- OneKeyOrNone
    Created <- OwnInstant
    Transactions <- TransactionEach
    Relays = {r1, r2}
    BatchSize = 2
    LeaseDuration = 1
    Backoff = 1
    MaxAttempts = 2
    MaxSkew = 0
    MaxFaults = 0
    MaxReleases = 0
    Nobody = Nobody
    Orphan = Orphan
INVARIANT OnePerKeyInFlight
