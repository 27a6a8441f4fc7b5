------------------------------- MODULE Telemetry -------------------------------
(***************************************************************************)
(* The broker with its metrics (observability.py).  Each OS process has a  *)
(* registry of its own and a table of the effects it wrote OUTCOME_UNKNOWN *)
(* itself; both end with it.  The write commits first and is recorded      *)
(* afterwards, so other processes, and on Postgres other API sessions, act *)
(* in between; store calls made directly (resolve, the matrix's            *)
(* _mark_unknown) are never recorded.                                      *)
(***************************************************************************)
EXTENDS Broker, FiniteSetsExt

CONSTANT Api        \* the one process of all API sessions

ASSUME ApiAssumption == Api \notin Procs /\ Mortal \cap Handlers = {}

Registries == Workers \cup Reconcilers \cup {Api}

VARIABLES
    unknowns,   \* _unknown_by_effect_id of each process
    oldest,     \* its gauge outcome_unknown_oldest_age_seconds
    counter,    \* its counters
    owes,       \* what each process did in the store and has not recorded
    ended       \* processes that ended at least once

telemetry == <<unknowns, oldest, counter, owes, ended>>
allVars == <<vars, telemetry>>

-----------------------------------------------------------------------------
\* effects_total by result, dispatch_attempts_total, fenced_stale_writes_total.
Counters == {"succeeded", "failed", "unknown", "attempts", "fenced"}

NoDebt == [what |-> "nothing"]

Registry(p) == IF p \in Handlers THEN Api ELSE p

TInit ==
    /\ Init
    /\ unknowns = [q \in Registries |-> {}]
    /\ oldest = [q \in Registries |-> 0]
    /\ counter = [q \in Registries |-> [c \in Counters |-> 0]]
    /\ owes = [p \in Procs |-> NoDebt]
    /\ ended = {}

Count(q, c) == counter' = [counter EXCEPT ![q][c] = @ + 1]

\* The age gauge is set here and nowhere else.
SetAge(q, U) ==
    oldest' = [oldest EXCEPT
                  ![q] = IF U = {} THEN 0 ELSE now - Min({created[i] : i \in U})]

\* Mutant: an effect leaves the table whenever it changes its status.
TrackUnknown_PopsAll(q, d) ==
    LET U == unknowns[q] \ {d.id}
    IN  /\ unknowns' = [unknowns EXCEPT ![q] = U]
        /\ SetAge(q, U)

TrackUnknown(q, d) ==
    LET U == IF d.after = "outcome_unknown" THEN unknowns[q] \cup {d.id}
             ELSE IF d.before = "outcome_unknown" THEN unknowns[q] \ {d.id}
             ELSE unknowns[q]
    IN  /\ unknowns' = [unknowns EXCEPT ![q] = U]
        /\ SetAge(q, U)

RecordTransition(q, d) ==
    /\ TrackUnknown(q, d)
    /\ CASE d.after = "succeeded" -> Count(q, "succeeded")
         [] d.after = "failed_final" -> Count(q, "failed")
         [] d.after = "outcome_unknown" -> Count(q, "unknown")
         [] OTHER -> UNCHANGED counter

\* Mutant: the outcome is recorded whether or not the store accepted it.
Debt_Intended(p) ==
    CASE pc[p] \in Writing ->
             [what |-> "transition", id |-> eff[p],
              before |-> status[eff[p]], after |-> Goal(p)]
      [] attempts' # attempts -> [what |-> "attempts"]
      [] OTHER -> NoDebt

\* What a step of p leaves to record: a transition, an attempt, or the conflict
\* that _transition_and_record passes on (start_attempt's is not recorded).
Debt(p) ==
    CASE status' # status ->
             [what |-> "transition", id |-> eff[p],
              before |-> status[eff[p]], after |-> status'[eff[p]]]
      [] attempts' # attempts -> [what |-> "attempts"]
      [] pc[p] \in Writing /\ ~Current(p) /\ faults' = faults ->
             [what |-> "fenced"]
      [] OTHER -> NoDebt

\* p records what it did.
Record(p) ==
    LET d == owes[p]  q == Registry(p)
    IN  /\ d # NoDebt
        /\ IF d.what = "transition" THEN RecordTransition(q, d)
           ELSE Count(q, d.what) /\ UNCHANGED <<unknowns, oldest>>
        /\ owes' = [owes EXCEPT ![p] = NoDebt]
        /\ UNCHANGED <<vars, ended>>

\* The process of a loop ends: its registry is gone with it.
Lose(p) ==
    /\ unknowns' = [unknowns EXCEPT ![p] = {}]
    /\ oldest' = [oldest EXCEPT ![p] = 0]
    /\ counter' = [counter EXCEPT ![p] = [c \in Counters |-> 0]]
    /\ owes' = [owes EXCEPT ![p] = NoDebt]
    /\ ended' = ended \cup {p}

\* A step of Broker that p takes once it has recorded the last.
Work(p) ==
    /\ owes[p] = NoDebt
    /\ \/ Step(p)
       \/ AdapterFactoryFails(p) \/ StoreFails(p) \/ ProbeFails(p) \/ Timeout(p)
       \/ p \in Handlers /\ \E i \in Ids : HandlerGet(p, i)
    /\ IF pc'[p] = "stopped" THEN Lose(p)
       ELSE /\ owes' = [owes EXCEPT ![p] = Debt(p)]
            /\ UNCHANGED <<unknowns, oldest, counter, ended>>

\* p dies, perhaps between a write and its record, or while idle.
Death(p) ==
    /\ \/ Crash(p)
       \/ /\ p \in Mortal /\ pc[p] = "idle" /\ crashes < MaxCrashes
          /\ crashes' = crashes + 1
          /\ Stop(p)
          /\ UNCHANGED <<ledger, target, now, faults>>
    /\ Lose(p)

\* Cancelling through the API sets the ages there; the command line's process
\* ends at once, and resolving records nothing.
Client ==
    \E i \in Ids :
        \/ Cancel(i) /\ SetAge(Api, unknowns[Api])
             /\ UNCHANGED <<unknowns, counter, owes, ended>>
        \/ /\ \/ \E c \in Contracts : Submit(i, c)
              \/ Cancel(i)
              \/ \E s \in Resolutions : Resolve(i, s)
              \/ MarkUnknown(i)
           /\ UNCHANGED telemetry

TNext ==
    \/ Client
    \/ \E p \in Procs : Work(p) \/ Record(p) \/ Death(p)
    \/ \E p \in Procs : Restart(p) /\ UNCHANGED telemetry
    \/ (TargetStep \/ Tick) /\ UNCHANGED telemetry

TSpec == TInit /\ [][TNext]_allVars

-----------------------------------------------------------------------------
(* Properties *)

\* No registry was lost.
AllAlive == ended = {}

\* record_transition is called by every process that writes OUTCOME_UNKNOWN and
\* _update_unknown_age drops an effect only where it left: while no process
\* ends, an unknown effect is in the table of some process, or about to be, in
\* whatever order processes and sessions record.  It says nothing of the alert:
\* that reads the table of the API alone, and a worker's is never scraped.
UnknownsTracked ==
    AllAlive => \A i \in Ids :
        status[i] = "outcome_unknown" =>
            \/ \E q \in Registries : i \in unknowns[q]
            \/ \E p \in Procs : /\ owes[p] # NoDebt
                                /\ owes[p].what = "transition"
                                /\ owes[p].id = i
                                /\ owes[p].after = "outcome_unknown"

\* The increments of a counter in all registries, and what they count: effects
\* the broker brought to s, attempt rows.
Increments(c) == UNION {{q} \X (1..counter[q][c]) : q \in Registries}

Written(s) == {i \in Ids \ resolved : status[i] = s}

Attempted == UNION {{i} \X (1..attempts[i]) : i \in Ids}

Total(c) == Cardinality(Increments(c))

\* The counters of all processes tell what the ledger does: no outcome is
\* counted twice or before it is written, whatever conflicts there are, and
\* none is missing unless a process ended; an operator's decision is not
\* counted.
CountersTell ==
    /\ Total("succeeded") <= Cardinality(Written("succeeded"))
    /\ Total("failed") <= Cardinality(Written("failed_final"))
    /\ Total("attempts") <= Cardinality(Attempted)
    /\ AllAlive /\ (\A p \in Procs : owes[p] = NoDebt) =>
          /\ Total("succeeded") = Cardinality(Written("succeeded"))
          /\ Total("failed") = Cardinality(Written("failed_final"))
          /\ Total("attempts") = Cardinality(Attempted)

\* "Age of the oldest observed unknown effect" (OBSERVABILITY.md); TLC finds it
\* violated: the gauge keeps the age of the last change.
OldestAgeTold ==
    \A q \in Registries :
        unknowns[q] # {} =>
            oldest[q] = now - Min({created[i] : i \in unknowns[q]})
=============================================================================
