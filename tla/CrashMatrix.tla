------------------------------ MODULE CrashMatrix ------------------------------
(***************************************************************************)
(* The crash matrix (examples/crash_matrix): a runner submits one effect,  *)
(* starts a worker that is killed at a failpoint, marks the effect         *)
(* OUTCOME_UNKNOWN, starts several recoveries at once, then a zombie with  *)
(* the version it recorded, and judges ledger and target.  The processes   *)
(* share the ledger and a durable target that commits once per key; each   *)
(* call on either is a transaction of SQLite (BEGIN IMMEDIATE) or Postgres.*)
(***************************************************************************)
EXTENDS EffectModel, FiniteSets

CONSTANTS
    Classes,        \* safety classes with a scenario
    Failpoints,     \* values of FAILPOINT the worker is started with
    Worker,         \* the worker subprocess
    Recoverers,     \* the --recover-one subprocesses
    Zombie,         \* the --zombie-transition subprocess
    MaxFaults       \* bound: failing calls on the target

AllFailpoints == {"none", "before_target_commit",
                  "after_target_commit_before_receipt"}

ASSUME MatrixAssumption ==
    /\ Classes \subseteq SafetyClass /\ Failpoints \subseteq AllFailpoints
    /\ Worker # Zombie /\ Worker \notin Recoverers /\ Zombie \notin Recoverers
    /\ MaxFaults \in Nat

Procs == Recoverers \cup {Worker, Zombie}

VARIABLES
    safety,     \* class of the scenario's contract
    failpoint,  \* FAILPOINT of its worker
    stage,      \* what the runner does next, or its verdict
    status,     \* the effect's row
    version,
    attempts,   \* number of its attempt rows
    calls,      \* rows of commit_calls with the effect's downstream key
    effects,    \* rows of target_effects with it
    pc,         \* next call of each subprocess
    held,       \* the version of the record each holds
    exit,       \* its exit code
    faults

ledger == <<status, version, attempts>>
target == <<calls, effects>>
procs == <<pc, held, exit>>
scenario == <<safety, failpoint>>
vars == <<scenario, stage, ledger, target, procs, faults>>

-----------------------------------------------------------------------------
Stages == {"submit", "worker", "recover", "zombie", "passed", "failed"}

Labels == {"waiting", "claim", "claimed", "redispatch", "attempt", "commit",
           "committed", "ambiguous", "get", "reconcile", "probe", "found",
           "absent", "unproven", "review", "exited"}

NoCode == -1
Conflict == 23
Codes == {NoCode, 0, 1, Conflict, 137}

TypeOK ==
    /\ safety \in SafetyClass /\ failpoint \in AllFailpoints
    /\ stage \in Stages
    /\ status \in EffectStatus \cup {"absent"}
    /\ version \in Nat /\ attempts \in Nat
    /\ calls \in Nat /\ effects \in Nat
    /\ pc \in [Procs -> Labels]
    /\ held \in [Procs -> Nat]
    /\ exit \in [Procs -> Codes]
    /\ \A p \in Procs : exit[p] = NoCode <=> pc[p] # "exited"
    /\ faults \in 0..MaxFaults

Init ==
    /\ safety \in Classes /\ failpoint \in Failpoints
    /\ stage = "submit"
    /\ status = "absent" /\ version = 0 /\ attempts = 0
    /\ calls = 0 /\ effects = 0
    /\ pc = [p \in Procs |-> "waiting"]
    /\ held = [p \in Procs |-> 0]
    /\ exit = [p \in Procs |-> NoCode]
    /\ faults = 0

-----------------------------------------------------------------------------
(* A subprocess *)

Goto(p, l) ==
    /\ pc' = [pc EXCEPT ![p] = l]
    /\ UNCHANGED exit

Exit(p, code) ==
    /\ pc' = [pc EXCEPT ![p] = "exited"]
    /\ exit' = [exit EXCEPT ![p] = code]

\* Mutant: a conflict is not told from success.
ExitCode_Silent(p) == IF p # Worker /\ held[p] # version THEN 0 ELSE 1

\* Mutant: the exit code is the version found instead.
ExitCode_Raw(p) == IF p # Worker /\ held[p] # version THEN 2 + version ELSE 1

\* Every exception is exit code 1, but for a conflict that main() catches.
ExitCode(p) == IF p # Worker /\ held[p] # version THEN Conflict ELSE 1

\* Mutant: the update does not compare the version.
Accepted_Unfenced(p, s) == IsAllowed(status, s)

Accepted(p, s) == held[p] = version /\ IsAllowed(status, s)

\* store.transition of p to s; after the last one it exits.
Transition(p, s, l) ==
    /\ \/ /\ Accepted(p, s)
          /\ status' = s
          /\ version' = version + 1
          /\ held' = [held EXCEPT ![p] = version + 1]
          /\ IF l = "exited" THEN Exit(p, 0) ELSE Goto(p, l)
       \/ /\ ~Accepted(p, s)
          /\ Exit(p, ExitCode(p))
          /\ UNCHANGED <<status, version, held>>
    /\ UNCHANGED <<scenario, stage, attempts, target, faults>>

Fault ==
    /\ faults < MaxFaults
    /\ faults' = faults + 1

-----------------------------------------------------------------------------
(* The runner *)

RunSubmit ==
    /\ stage = "submit"
    /\ status' = "prepared"
    /\ stage' = "worker"
    /\ pc' = [pc EXCEPT ![Worker] = "claim"]
    /\ UNCHANGED <<scenario, version, attempts, target, held, exit, faults>>

\* The worker did not die: there is nothing to recover.
RunLive ==
    /\ stage = "worker" /\ exit[Worker] = 0
    /\ stage' = "failed"
    /\ UNCHANGED <<scenario, ledger, target, procs, faults>>

\* Mark the effect unknown and start the recoveries.
RunRecoveries ==
    /\ stage = "worker" /\ exit[Worker] \notin {NoCode, 0}
    /\ status = "dispatching"
    /\ status' = "outcome_unknown"
    /\ version' = version + 1
    /\ held' = [held EXCEPT ![Zombie] = version + 1]
    /\ pc' = [p \in Procs |-> IF p \in Recoverers THEN "get" ELSE pc[p]]
    /\ stage' = "recover"
    /\ UNCHANGED <<scenario, attempts, target, exit, faults>>

Recovered == \A r \in Recoverers : pc[r] = "exited"

\* Mutant: the zombie is let loose while the recoveries run.
RunZombie_Early ==
    /\ stage = "recover"
    /\ pc' = [pc EXCEPT ![Zombie] = "claimed"]
    /\ stage' = "zombie"
    /\ UNCHANGED <<scenario, ledger, target, held, exit, faults>>

RunZombie ==
    /\ stage = "recover" /\ Recovered
    /\ pc' = [pc EXCEPT ![Zombie] = "claimed"]
    /\ stage' = "zombie"
    /\ UNCHANGED <<scenario, ledger, target, held, exit, faults>>

JudgedRight ==
    CASE safety = "idempotent" -> effects = 1 /\ status = "succeeded"
      [] safety = "reconcilable" ->
             effects = 1 /\ calls = 1 /\ status = "succeeded"
      [] OTHER -> /\ effects <= 1 /\ calls = 1 /\ attempts = 1
                  /\ status = "manual_review"

OneRecovery == Cardinality({r \in Recoverers : exit[r] = 0}) = 1

Judge ==
    /\ stage = "zombie" /\ pc[Zombie] = "exited" /\ Recovered
    /\ stage' = IF JudgedRight /\ OneRecovery /\ exit[Zombie] = Conflict
                THEN "passed" ELSE "failed"
    /\ UNCHANGED <<scenario, ledger, target, procs, faults>>

-----------------------------------------------------------------------------
(* Worker, recoveries and zombie *)

Claim ==
    /\ pc[Worker] = "claim"
    /\ version' = version + 1
    /\ held' = [held EXCEPT ![Worker] = version + 1]
    /\ Goto(Worker, "claimed")
    /\ UNCHANGED <<scenario, stage, status, attempts, target, faults>>

\* Read the record and take the branch of its class; the key is kept for an
\* hour, which no scenario lasts.
Get(r) ==
    LET route == RouteUnknown(safety)
    IN  /\ pc[r] = "get"
        /\ held' = [held EXCEPT ![r] = version]
        /\ Goto(r, CASE route = "dispatching" -> "redispatch"
                     [] route = "reconciling" -> "reconcile"
                     [] OTHER -> "review")
        /\ UNCHANGED <<scenario, stage, ledger, target, faults>>

BeginDispatch(p) ==
    /\ pc[p] \in {"claimed", "redispatch"}
    /\ Transition(p, "dispatching", IF p = Zombie THEN "exited" ELSE "attempt")

\* Mutant: the attempt is recorded after the target's commit.
StartAttempt_Late(p) ==
    /\ pc[p] = "attempt" /\ held[p] = version
    /\ Goto(p, "commit")
    /\ UNCHANGED <<scenario, stage, ledger, target, held, faults>>

StartAttempt(p) ==
    /\ pc[p] = "attempt"
    /\ \/ /\ held[p] = version
          /\ attempts' = attempts + 1
          /\ IF p = Worker /\ failpoint = "before_target_commit"
             THEN Exit(p, 137) ELSE Goto(p, "commit")
       \/ /\ held[p] # version
          /\ Exit(p, ExitCode(p))
          /\ UNCHANGED attempts
    /\ UNCHANGED <<scenario, stage, status, version, target, held, faults>>

\* Mutant: the target does not look the key up.
CommitOnce_Blind ==
    /\ calls' = calls + 1
    /\ effects' = effects + 1

\* DurableTarget.commit: every call is logged, the key is effected once.
CommitOnce ==
    /\ calls' = calls + 1
    /\ effects' = IF effects = 0 THEN 1 ELSE effects

Commit(p) ==
    /\ pc[p] = "commit"
    /\ CommitOnce
    /\ IF p = Worker /\ failpoint = "after_target_commit_before_receipt"
       THEN Exit(p, 137) ELSE Goto(p, "committed")
    /\ UNCHANGED <<scenario, stage, ledger, held, faults>>

\* The target raises and rolls back: the worker dies of it, a recovery takes
\* the outcome for unknown.
CommitFails(p) ==
    /\ pc[p] = "commit" /\ Fault
    /\ IF p = Worker THEN Exit(p, 1) ELSE Goto(p, "ambiguous")
    /\ UNCHANGED <<scenario, stage, ledger, target, held>>

BeginProbe(r) ==
    /\ pc[r] = "reconcile"
    /\ Transition(r, "reconciling", "probe")

\* Mutant: the probe answers from the broker's own attempts.
Found_InLedger == attempts > 0

\* What the target's table says of the key.
Found == effects > 0

\* The contract's settlement bound is zero: absence is proof at once.
Probe(r) ==
    /\ pc[r] = "probe"
    /\ Goto(r, IF safety = "unsafe" THEN "unproven"
               ELSE IF Found THEN "found"
               ELSE IF safety = "idempotent" THEN "unproven" ELSE "absent")
    /\ UNCHANGED <<scenario, stage, ledger, target, held, faults>>

ProbeFails(r) ==
    /\ pc[r] = "probe" /\ Fault
    /\ Exit(r, 1)
    /\ UNCHANGED <<scenario, stage, ledger, target, held>>

\* The last write of a worker or a recovery.
Conclude(p) ==
    \/ pc[p] \in {"committed", "found"} /\ Transition(p, "succeeded", "exited")
    \/ pc[p] = "ambiguous" /\ Transition(p, "outcome_unknown", "exited")
    \/ pc[p] = "absent" /\ Transition(p, "prepared", "exited")
    \/ pc[p] \in {"unproven", "review"}
         /\ Transition(p, "manual_review", "exited")

-----------------------------------------------------------------------------
Runner == RunSubmit \/ RunLive \/ RunRecoveries \/ RunZombie \/ Judge

\* The scenario is over: the only way the runner stops, so that a deadlock is
\* the assertion of _mark_unknown (the dead worker left no DISPATCHING) or a
\* subprocess nobody waits for.
Over == stage \in {"passed", "failed"} /\ UNCHANGED vars

Subprocess(p) ==
    \/ BeginDispatch(p)
    \/ StartAttempt(p)
    \/ Commit(p)
    \/ CommitFails(p)
    \/ Conclude(p)

Next ==
    \/ Runner \/ Over
    \/ Claim
    \/ \E r \in Recoverers : Get(r) \/ BeginProbe(r) \/ Probe(r) \/ ProbeFails(r)
    \/ \E p \in Procs : Subprocess(p)

Spec == Init /\ [][Next]_vars

-----------------------------------------------------------------------------
(* Properties *)

\* Write-ahead, between processes that die anywhere: the target never saw more
\* calls than the ledger has attempts (docstring of worker.py).
CallsOnRecord == calls <= attempts

\* While the target answers, of the recoveries that race exactly one resolves
\* the effect and tells so; the others lose the version and say nothing
\* happened (test_postgres_crash.py: recovery.count(0) == 1).
OneRecovers == stage = "zombie" /\ faults = 0 => OneRecovery

\* While the target answers, the failpoint the matrix is run with passes, in
\* every class and every order of the processes.
MatrixPasses ==
    stage = "failed" /\ failpoint = "after_target_commit_before_receipt"
        => faults > 0

\* Even after a redispatch that failed and left the effect where the zombie
\* last saw it, OUTCOME_UNKNOWN, the zombie's write changes nothing.
ZombieNeverWrites ==
    [][(pc[Zombie] = "claimed" /\ pc'[Zombie] = "exited")
         => UNCHANGED ledger]_vars

\* Ledger and target together keep the broker's promise for the one effect:
\* performed at most once, succeeded only if performed.
Told ==
    CASE status = "absent" -> "none"
      [] status = "succeeded" -> "succeeded"
      [] status = "manual_review" -> "human"
      [] OTHER -> "open"

Promise ==
    INSTANCE EffectPromise WITH Ids <- {"order"}, verdict <- [i \in {"order"} |-> Told],
                                performed <- [i \in {"order"} |-> effects]

KeepsPromise == Promise!PromiseSpec
=============================================================================
