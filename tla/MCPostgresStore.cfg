\* Every statement of two callers interleaved, on two keys, with expired
\* leases, replayed and conflicting reservations, and failed transactions.
SPECIFICATION Spec
CONSTANTS
    Clients = {c1, c2}
    Effects = {e1, e2}
    Tenants = {t1}
    OperationKeys = {k1, k2}
    Digests = {d1, d2}
    Targets = {"dispatching", "succeeded"}
    NoRow = NoRow
    NoEffect = NoEffect
    Limit = 2
    LeaseFor = 1
    MaxTime = 2
    MaxVersion = 2
    MaxAttempts = 1
SYMMETRY Alike
INVARIANTS
    TypeOK
    NeverBroken
    NeverStuck
    NobodyWaitsInLine
    TrailTells
    ReceiptsAgree
    ReservationsBind
PROPERTIES
    IsAtomicLedger
