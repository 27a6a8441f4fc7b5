------------------------------ MODULE MCTelemetry ------------------------------
(* Values of Telemetry's constants for TLC. *)
EXTENDS Telemetry, TLC

Idempotent ==
    [safety |-> "idempotent", retry_limit |-> 1,
     key_retention |-> MaxTime, settlement_bound |-> NoDuration]

Unsafe ==
    [safety |-> "unsafe", retry_limit |-> 0,
     key_retention |-> NoDuration, settlement_bound |-> NoDuration]

EitherClass == {Idempotent, Unsafe}
OnlyUnsafe == {Unsafe}

SessionsAlike == Permutations(Handlers)
=============================================================================
