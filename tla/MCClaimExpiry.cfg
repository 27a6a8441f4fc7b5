\* A definite rejection, then a worker retry after the key expired.
SPECIFICATION Spec
CONSTANTS
    Ids = {i1}
    ServedIds = {i1}
    Contracts <- OnlyShortKey
    Workers = {w1}
    Reconcilers = {}
    Handlers = {}
    NoId = NoId
    NoContract = NoContract
    Limit = 1
    LeaseFor = 1
    Lag = 0
    KeysExpire = TRUE
    HideCommits = TRUE
    Recovery = FALSE
    Supervised = FALSE
    Mortal = {}
    FaultKinds = {"reject"}
    MaxTime = 2
    MaxFaults = 2
    MaxCrashes = 0
PROPERTY
    RetryStopsAtExpiry
CHECK_DEADLOCK FALSE
