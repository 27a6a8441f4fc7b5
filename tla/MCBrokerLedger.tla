---------------------------- MODULE MCBrokerLedger ----------------------------
(* Values of BrokerLedger's constants for TLC. *)
EXTENDS BrokerLedger, TLC

Transactional ==
    [safety |-> "transactional", retry_limit |-> 2,
     key_retention |-> NoDuration, settlement_bound |-> NoDuration]

ShortKey ==
    [safety |-> "idempotent", retry_limit |-> 2,
     key_retention |-> 1, settlement_bound |-> NoDuration]

Reconcilable ==
    [safety |-> "reconcilable", retry_limit |-> 2,
     key_retention |-> NoDuration, settlement_bound |-> 1]

Unsafe ==
    [safety |-> "unsafe", retry_limit |-> 0,
     key_retention |-> NoDuration, settlement_bound |-> NoDuration]

OneOfEachShortKey == {Transactional, ShortKey, Reconcilable, Unsafe}

\* Workers differ in name only.
WorkersAlike == Permutations(Workers)
=============================================================================
