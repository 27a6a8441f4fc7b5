------------------------------- MODULE MCBroker -------------------------------
(* Values of Broker's constants for TLC. *)
EXTENDS BrokerClaims, TLC

Transactional ==
    [safety |-> "transactional", retry_limit |-> 2,
     key_retention |-> NoDuration, settlement_bound |-> NoDuration]

\* The key outlives the run ...
Idempotent ==
    [safety |-> "idempotent", retry_limit |-> 2,
     key_retention |-> MaxTime, settlement_bound |-> NoDuration]

\* ... or expires within it.
ShortKey ==
    [safety |-> "idempotent", retry_limit |-> 2,
     key_retention |-> 1, settlement_bound |-> NoDuration]

Reconcilable ==
    [safety |-> "reconcilable", retry_limit |-> 2,
     key_retention |-> NoDuration, settlement_bound |-> 1]

Unsafe ==
    [safety |-> "unsafe", retry_limit |-> 0,
     key_retention |-> NoDuration, settlement_bound |-> NoDuration]

OneOfEachClass == {Transactional, Idempotent, Reconcilable, Unsafe}
MixedBatch == {Idempotent, Reconcilable}
OnlyShortKey == {ShortKey}
OnlyIdempotent == {Idempotent}
OnlyReconcilable == {Reconcilable}

\* Processes of a kind differ in name only.
WorkersAlike == Permutations(Workers)
=============================================================================
