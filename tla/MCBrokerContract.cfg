\* The classes' contracts hold: a request dies with its caller, a worker is
\* marked dead only when it is, keys outlive the run.
SPECIFICATION Spec
CONSTANTS
    Ids = {i1}
    ServedIds = {i1}
    Contracts <- OneOfEachClass
    Workers = {w1, w2}
    Reconcilers = {r1}
    Handlers = {h1}
    NoId = NoId
    NoContract = NoContract
    Limit = 1
    LeaseFor = 1
    Lag = 0
    KeysExpire = TRUE
    HideCommits = TRUE
    Recovery = TRUE
    Supervised = FALSE
    Mortal = {w1, w2, r1, h1}
    FaultKinds = {"reject", "lose", "drop", "timeout", "factory", "probe", "store"}
    MaxTime = 2
    MaxFaults = 2
    MaxCrashes = 1
SYMMETRY WorkersAlike
INVARIANTS
    NoDuplicate
    NoFalseFailure
    SingleFlight
    RetryBudget
PROPERTIES
    NoBlindRetry
    KeepsPromise
CHECK_DEADLOCK FALSE
