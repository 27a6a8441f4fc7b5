\* The age of the oldest unknown effect a worker knows of.
SPECIFICATION TSpec
CONSTANTS
    Ids = {i1}
    ServedIds = {i1}
    Contracts <- OnlyUnsafe
    Workers = {w1}
    Reconcilers = {}
    Handlers = {}
    Api = api
    NoId = NoId
    NoContract = NoContract
    Limit = 1
    LeaseFor = 1
    Lag = 0
    KeysExpire = TRUE
    HideCommits = TRUE
    Recovery = FALSE
    Supervised = TRUE
    Mortal = {}
    FaultKinds = {"reject", "lose", "store"}
    MaxTime = 1
    MaxFaults = 1
    MaxCrashes = 0
INVARIANTS
    OldestAgeTold
CHECK_DEADLOCK FALSE
