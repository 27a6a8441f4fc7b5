----------------------------- MODULE ReconcilerLoop -----------------------------
(***************************************************************************)
(* The reconciler's loop over many effects (cli.py, _reconciler_loop, with *)
(* reconcile.py): batches of the oldest unknown effects of one tenant,     *)
(* redispatches that stay ambiguous as often as they like, keys that       *)
(* expire, exceptions that end the loop in the middle of an effect.        *)
(* Broker models a few effects with their workers and leases; here the     *)
(* rest of the broker is what leaves effects unknown and what reconciles   *)
(* one behind the loop's back.                                             *)
(***************************************************************************)
EXTENDS EffectModel, FiniteSets

CONSTANTS
    Effects,
    Served,         \* those of the tenant the loop serves
    Idempotents,    \* by class; the others are unsafe
    Reconcilables,
    NoEffect,
    Limit,          \* batch size
    Retention,      \* key_retention the contract declares, in ticks
    MaxTime,        \* bound: ticks of the clock
    MaxRestarts     \* bound: how often the loop is started again

ASSUME LoopAssumption ==
    /\ Served \subseteq Effects /\ NoEffect \notin Effects
    /\ Idempotents \cap Reconcilables = {}
    /\ Idempotents \cup Reconcilables \subseteq Effects
    /\ Limit \in Nat \ {0} /\ Retention \in Nat \ {0}
    /\ MaxTime \in Nat /\ MaxRestarts \in Nat

VARIABLES
    now,
    status,     \* of each effect
    created,    \* its created_at
    pc,         \* where the loop is
    eff,        \* the effect it has in hand
    todo,       \* the rest of its batch
    fresh,      \* the version it read of that effect is still the row's
    deaths      \* how often it ended

vars == <<now, status, created, pc, eff, todo, fresh, deaths>>

Safety(e) ==
    CASE e \in Idempotents -> "idempotent"
      [] e \in Reconcilables -> "reconcilable"
      [] OTHER -> "unsafe"

Init ==
    /\ now = 0
    /\ status = [e \in Effects |-> "prepared"]
    /\ created \in [Effects -> 0..1]
    /\ pc = "idle" /\ eff = NoEffect /\ todo = {}
    /\ fresh = TRUE /\ deaths = 0

-----------------------------------------------------------------------------
(* The rest of the broker *)

\* Another process brings the effect to s, perhaps while the loop has it.
Elsewhere(e, s) ==
    /\ status' = [status EXCEPT ![e] = s]
    /\ fresh' = (fresh /\ e # eff)
    /\ UNCHANGED <<now, created, pc, eff, todo, deaths>>

\* A worker ends a dispatch of the effect with OUTCOME_UNKNOWN.
BecomesUnknown(e) ==
    /\ status[e] \in ClaimableStatuses /\ created[e] <= now
    /\ Elsewhere(e, "outcome_unknown")

\* What reconcile_once may make of an unknown effect, by its class; a
\* redispatch may leave it unknown, at a newer version.
Outcomes(e) ==
    CASE Safety(e) = "idempotent" ->
             {"succeeded", "retryable", "outcome_unknown", "manual_review"}
      [] Safety(e) = "reconcilable" ->
             {"succeeded", "prepared", "manual_review"}
      [] OTHER -> {"manual_review"}

\* An API session reconciles the effect.
SessionSettles(e) ==
    /\ status[e] = "outcome_unknown"
    /\ \E s \in Outcomes(e) : Elsewhere(e, s)

Tick ==
    /\ now < MaxTime
    /\ now' = now + 1
    /\ UNCHANGED <<status, created, pc, eff, todo, fresh, deaths>>

-----------------------------------------------------------------------------
(* The loop *)

Listed == {e \in Served : status[e] = "outcome_unknown"}

\* broker.list: the oldest, at most Limit of them.
Batches ==
    {S \in SUBSET Listed :
        /\ Cardinality(S) <= Limit
        /\ Cardinality(S) < Limit => S = Listed
        /\ \A e \in S, f \in Listed \ S : created[e] <= created[f]}

List ==
    /\ pc = "idle" /\ Listed # {}
    /\ todo' \in Batches
    /\ pc' = "next"
    /\ UNCHANGED <<now, status, created, eff, fresh, deaths>>

\* Mutant: no look at the retention.
RetentionValid_Always(e) == TRUE

RetentionValid(e) == now <= created[e] + Retention

\* Read the next record of the batch and choose the branch.
Get ==
    /\ pc = "next"
    /\ \E e \in todo :
        /\ \A f \in todo : created[e] <= created[f]
        /\ eff' = e
        /\ todo' = todo \ {e}
        /\ fresh' = TRUE
        /\ pc' = CASE Safety(e) = "idempotent" /\ RetentionValid(e) -> "redispatch"
                   [] RouteUnknown(Safety(e)) = "reconciling" -> "reconcile"
                   [] OTHER -> "review"
    /\ UNCHANGED <<now, status, created, deaths>>

BatchDone ==
    /\ pc = "next" /\ todo = {}
    /\ pc' = "idle"
    /\ UNCHANGED <<now, status, created, eff, todo, fresh, deaths>>

\* The effect in hand goes to s and the loop to l.
Write(s, l) ==
    /\ status' = [status EXCEPT ![eff] = s]
    /\ pc' = l
    /\ eff' = IF l = "next" THEN NoEffect ELSE eff
    /\ UNCHANGED <<now, created, todo, fresh, deaths>>

\* What the store accepts: the version that was read, and an edge of the graph.
Accepted(s) == fresh /\ IsAllowed(status[eff], s)

\* The first write.
Begin ==
    \/ pc = "redispatch" /\ Accepted("dispatching") /\ Write("dispatching", "attempt")
    \/ pc = "reconcile" /\ Accepted("reconciling") /\ Write("reconciling", "probe")
    \/ pc = "review" /\ Accepted("manual_review") /\ Write("manual_review", "next")

StartAttempt ==
    /\ pc = "attempt"
    /\ pc' = "wait"
    /\ UNCHANGED <<now, status, created, eff, todo, fresh, deaths>>

\* Mutant: an ambiguous redispatch is only logged.
Ambiguous_Unwritten ==
    /\ pc' = "next" /\ eff' = NoEffect
    /\ UNCHANGED <<now, status, created, todo, fresh, deaths>>

Ambiguous == Write("outcome_unknown", "next")

\* The redispatch or the probe answers, in any way and as often as asked.
Answer ==
    \/ pc = "wait" /\ (Write("succeeded", "next") \/ Write("retryable", "next"))
    \/ pc = "wait" /\ Ambiguous
    \/ pc = "probe" /\ \E s \in {"succeeded", "prepared", "manual_review"} :
                           Write(s, "next")

\* An exception nothing in the loop catches ends it; the batch is abandoned.
End ==
    /\ deaths' = deaths + 1
    /\ pc' = "stopped" /\ eff' = NoEffect /\ todo' = {}
    /\ UNCHANGED <<now, status, created, fresh>>

\* The first write finds that somebody has written the effect, or an effect that
\* had left OUTCOME_UNKNOWN before it was read.
Refused ==
    /\ \/ pc = "redispatch" /\ ~Accepted("dispatching")
       \/ pc = "reconcile" /\ ~Accepted("reconciling")
       \/ pc = "review" /\ ~Accepted("manual_review")
    /\ End

\* A failing store call, an adapter that cannot be built, a raising probe.
Raise ==
    /\ pc # "stopped"
    /\ End

\* Whoever runs the loop starts it again (the compose file does not).
Restart ==
    /\ pc = "stopped" /\ deaths <= MaxRestarts
    /\ pc' = "idle"
    /\ UNCHANGED <<now, status, created, eff, todo, fresh, deaths>>

Loop == List \/ Get \/ BatchDone \/ Begin \/ StartAttempt \/ Answer \/ Refused

Next ==
    \/ \E e \in Effects : BecomesUnknown(e) \/ SessionSettles(e)
    \/ Loop \/ Raise \/ Restart
    \/ Tick

\* The event loop and the clock go on and answers arrive.  Nothing starts a loop
\* again.
Fairness == WF_vars(Loop) /\ WF_vars(Tick)

Spec == Init /\ [][Next]_vars /\ Fairness

-----------------------------------------------------------------------------
(* Properties *)

\* An effect a dead loop left in the middle: nothing lists it again.
Stranded == {e \in Effects : status[e] \in {"dispatching", "reconciling"} /\ e # eff}

\* An exception costs one effect at most, never the rest of the batch: as many
\* are stranded as the loop ended, and none while it runs.
OneStrandedPerDeath == Cardinality(Stranded) <= deaths

\* Every unknown effect of the served tenant leaves the loop's hands ("the
\* unknown-outcome resolution loop"), as long as the loop is not down for good.
\* However often older effects stay ambiguous, and whatever workers do to
\* younger ones and sessions to all, a batch of the oldest reaches it: older
\* keys expire and an operator gets those effects.  Only effects no younger than
\* it that workers make unknown again without end could starve it.
Settles ==
    \A e \in Served :
        /\ []<>(pc # "stopped")
        /\ <>[][~\E f \in Served \ {e} :
                    created[f] <= created[e] /\ BecomesUnknown(f)]_vars
        => (status[e] = "outcome_unknown"
               ~> \/ status[e] \in {"succeeded", "retryable", "prepared",
                                    "manual_review"}
                  \/ e \in Stranded)
=============================================================================
