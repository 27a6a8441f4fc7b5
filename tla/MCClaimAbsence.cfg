\* A request outlives its caller by less than the settlement bound.
SPECIFICATION Spec
CONSTANTS
    Ids = {i1}
    ServedIds = {i1}
    Contracts <- OnlyReconcilable
    Workers = {w1}
    Reconcilers = {r1}
    Handlers = {}
    NoId = NoId
    NoContract = NoContract
    Limit = 1
    LeaseFor = 1
    Lag = 1
    KeysExpire = TRUE
    HideCommits = TRUE
    Recovery = FALSE
    Supervised = FALSE
    Mortal = {}
    FaultKinds = {"timeout"}
    MaxTime = 2
    MaxFaults = 2
    MaxCrashes = 0
INVARIANT
    AbsenceIsConclusive
CHECK_DEADLOCK FALSE
