\* A worker that may die and two API sessions of one process.
SPECIFICATION TSpec
CONSTANTS
    Ids = {i1}
    ServedIds = {i1}
    Contracts <- EitherClass
    Workers = {w1}
    Reconcilers = {}
    Handlers = {h1, h2}
    Api = api
    NoId = NoId
    NoContract = NoContract
    Limit = 1
    LeaseFor = 1
    Lag = 0
    KeysExpire = TRUE
    HideCommits = TRUE
    Recovery = FALSE
    Supervised = TRUE
    Mortal = {w1}
    FaultKinds = {"reject", "lose", "store"}
    MaxTime = 1
    MaxFaults = 1
    MaxCrashes = 1
SYMMETRY SessionsAlike
INVARIANTS
    UnknownsTracked
    CountersTell
CHECK_DEADLOCK FALSE
