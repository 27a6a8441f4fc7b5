\* One worker crash; everything else is restarted and fair.
SPECIFICATION SupervisedSpec
CONSTANTS
    Ids = {i1}
    ServedIds = {i1}
    Contracts <- OneOfEachClass
    Workers = {w1}
    Reconcilers = {r1}
    Handlers = {}
    NoId = NoId
    NoContract = NoContract
    Limit = 1
    LeaseFor = 1
    Lag = 0
    KeysExpire = TRUE
    HideCommits = TRUE
    Recovery = FALSE
    Supervised = TRUE
    Mortal = {w1}
    FaultKinds = {}
    MaxTime = 2
    MaxFaults = 2
    MaxCrashes = 1
PROPERTY
    StaleDispatchBecomesUnknown
CHECK_DEADLOCK FALSE
