\* A lost response, then a redispatch that the target rejects.
SPECIFICATION Spec
CONSTANTS
    Ids = {i1}
    ServedIds = {i1}
    Contracts <- OnlyIdempotent
    Workers = {w1}
    Reconcilers = {r1}
    Handlers = {}
    NoId = NoId
    NoContract = NoContract
    Limit = 1
    LeaseFor = 1
    Lag = 0
    KeysExpire = TRUE
    HideCommits = TRUE
    Recovery = FALSE
    Supervised = FALSE
    Mortal = {}
    FaultKinds = {"lose", "reject"}
    MaxTime = 2
    MaxFaults = 2
    MaxCrashes = 0
INVARIANT
    RetryableIsProven
CHECK_DEADLOCK FALSE
