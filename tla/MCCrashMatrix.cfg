\* Every class, failpoint and order of the processes, two failing target calls.
SPECIFICATION Spec
CONSTANTS
    Classes = {"idempotent", "reconcilable", "unsafe"}
    Failpoints = {"none", "before_target_commit", "after_target_commit_before_receipt"}
    Worker = worker
    Recoverers = {a, b, c}
    Zombie = zombie
    MaxFaults = 2
INVARIANTS
    TypeOK
    CallsOnRecord
    OneRecovers
    MatrixPasses
PROPERTIES
    ZombieNeverWrites
    KeepsPromise
