----------------------------- MODULE EffectModel -----------------------------
(***************************************************************************)
(* The pure part of the broker: effect statuses, the transition graph, the *)
(* safety classes and the validation of a pinned contract (models.py,      *)
(* statemachine.py, contracts.py).  Nothing here has state; the modules    *)
(* that keep the ledger EXTEND this one.                                   *)
(***************************************************************************)
EXTENDS Integers

SafetyClass == {"transactional", "idempotent", "reconcilable", "unsafe"}

EffectStatus ==
    {"prepared", "cancelled", "dispatching", "retryable", "outcome_unknown",
     "reconciling", "succeeded", "failed_final", "manual_review",
     "compensated"}

TerminalStatuses == {"cancelled", "succeeded", "failed_final", "compensated"}

\* Statuses the claim query selects and from which work may be cancelled.
ClaimableStatuses == {"prepared", "retryable"}

\* What an operator may conclude from evidence.
Resolutions == {"succeeded", "failed_final", "compensated"}

(* The transition graph. *)
IsAllowed(current, target) ==
    \/ current = "prepared" /\ target \in {"dispatching", "cancelled"}
    \/ current = "dispatching"
         /\ target \in {"succeeded", "failed_final", "retryable",
                        "outcome_unknown"}
    \/ current = "retryable"
         /\ target \in {"dispatching", "failed_final", "cancelled"}
    \/ current = "outcome_unknown"
         /\ target \in {"dispatching", "reconciling", "manual_review"}
    \/ current = "reconciling"
         /\ target \in {"succeeded", "prepared", "manual_review",
                        "failed_final"}
    \/ current = "manual_review" /\ target \in Resolutions

(* Where an unknown outcome goes next, decided by the class alone. *)
RouteUnknown(safety) ==
    CASE safety = "idempotent" -> "dispatching"
      [] safety \in {"reconcilable", "transactional"} -> "reconciling"
      [] OTHER -> "manual_review"

-----------------------------------------------------------------------------
(* Contracts.  Durations are whole ticks of the model's clock. *)

\* A duration the contract leaves out (None).
NoDuration == -1

EffectContract ==
    [safety : SafetyClass, retry_limit : Int,
     key_retention : Int, settlement_bound : Int]

ValidContract(c) ==
    /\ c \in EffectContract
    /\ c.retry_limit >= 0
    /\ c.safety = "idempotent" => c.key_retention > 0
    /\ c.safety = "reconcilable" => c.settlement_bound >= 0
    /\ c.safety = "unsafe" => c.retry_limit = 0
=============================================================================
