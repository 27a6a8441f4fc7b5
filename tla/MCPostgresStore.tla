--------------------------- MODULE MCPostgresStore ---------------------------
(* Values of PostgresStore's constants for TLC. *)
EXTENDS PostgresStore, TLC

\* Callers, drawn ids, keys and payloads differ in name only.
Alike ==
    Permutations(Clients) \cup Permutations(Effects)
        \cup Permutations(OperationKeys) \cup Permutations(Digests)
=============================================================================
