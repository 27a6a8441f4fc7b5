\* Every hazard at once: paused workers presumed dead, requests that outlive
\* their callers, keys that expire, crashes and every kind of fault.
SPECIFICATION LSpec
CONSTANTS
    Ids = {i1}
    ServedIds = {i1}
    Contracts <- OneOfEachShortKey
    Workers = {w1, w2}
    Reconcilers = {r1}
    Handlers = {h1}
    NoId = NoId
    NoContract = NoContract
    NoRow = NoRow
    Limit = 1
    LeaseFor = 1
    Lag = 1
    KeysExpire = TRUE
    HideCommits = TRUE
    Recovery = TRUE
    Supervised = FALSE
    Mortal = {w1, w2, r1, h1}
    FaultKinds = {"reject", "lose", "drop", "timeout", "factory", "probe", "store", "presumed"}
    MaxTime = 2
    MaxFaults = 1
    MaxCrashes = 1
SYMMETRY WorkersAlike
INVARIANTS
    TypeOK
    Fenced
    UnsafeAtMostOnce
    WriteAhead
    NoFalseSuccess
    OwnDispatch
    ReceiptStands
PROPERTIES
    OnlyFailuresOrphan
    IsLedger
CHECK_DEADLOCK FALSE
