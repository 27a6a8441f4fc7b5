----------------------------- MODULE BrokerClaims -----------------------------
(***************************************************************************)
(* What the repository's documents, comments and docstrings say of the     *)
(* broker and the code does not do.  Each definition is one sentence of    *)
(* theirs; TLC finds each of them violated (README, "Divergences").        *)
(***************************************************************************)
EXTENDS Broker

\* FairSpec with a supervisor that starts each ended process again: the more that
\* is granted, the more a counterexample says.
SupervisedSpec == FairSpec /\ \A p \in Procs : WF_vars(Restart(p))

\* "worker death ... goes to OUTCOME_UNKNOWN" (statemachine.py docstring); "A
\* stale DISPATCHING lease is converted to OUTCOME_UNKNOWN"
\* (NEXT_PROJECT_SPEC.md).
StaleDispatchBecomesUnknown ==
    \A i \in Ids :
        status[i] = "dispatching" /\ (\A p \in Procs : ~Owner(p, i))
            ~> status[i] = "outcome_unknown"

\* "Once it expires, automatic retry stops" (NEXT_PROJECT_SPEC.md, on the
\* retention of an idempotency key).
RetryStopsAtExpiry ==
    [][\A i \in Ids :
          /\ attempts[i] > 0 /\ attempts'[i] > attempts[i]
          /\ contract[i].safety = "idempotent"
          => RetentionValid(i)]_vars

\* "A retryable (proven-not-committed) effect" (statemachine.py).
RetryableIsProven ==
    \A i \in Ids : status[i] = "retryable" => count[i] = 0

\* NOT_COMMITTED is "only permitted ... after that interval has elapsed"
\* (models.py): when a probe concludes it, the target has not performed the
\* effect and no request for it is under way.
AbsenceIsConclusive ==
    \A p \in Procs :
        pc[p] = "absent" /\ Current(p)
            => count[eff[p]] = 0 /\ \A r \in requests : r.id # eff[p]
=============================================================================
