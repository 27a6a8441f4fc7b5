\* Two idempotent effects and a reconcilable one, an unsafe one of another
\* tenant; batches of two.
SPECIFICATION Spec
CONSTANTS
    Effects = {a, b, c, foreign}
    Served = {a, b, c}
    Idempotents = {a, c}
    Reconcilables = {b}
    NoEffect = NoEffect
    Limit = 2
    Retention = 1
    MaxTime = 3
    MaxRestarts = 1
INVARIANT
    OneStrandedPerDeath
PROPERTIES
    Settles
CHECK_DEADLOCK FALSE
