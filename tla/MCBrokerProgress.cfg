\* Two effects in one batch: a conflict, an exception or a crash on one
\* abandons the claim of the other; worker and reconciler may die and nobody
\* has to start them again.
SPECIFICATION FairSpec
CONSTANTS
    Ids = {i1, i2}
    ServedIds = {i1, i2}
    Contracts <- MixedBatch
    Workers = {w1}
    Reconcilers = {r1}
    Handlers = {}
    NoId = NoId
    NoContract = NoContract
    Limit = 2
    LeaseFor = 1
    Lag = 0
    KeysExpire = TRUE
    HideCommits = TRUE
    Recovery = FALSE
    Supervised = TRUE
    Mortal = {w1, r1}
    FaultKinds = {"reject", "lose", "drop", "timeout", "factory", "probe", "store"}
    MaxTime = 2
    MaxFaults = 1
    MaxCrashes = 1
PROPERTIES
    Resolves
CHECK_DEADLOCK FALSE
