# effect-broker in TLA+

This directory is a verification development for `effect-broker`: TLA+ modules
that model the program, TLC configurations that check them on small instances,
and theorems that the TLA+ proof system checks for every value of the constants.
File names below are relative to the repository; `broker/` stands for
`src/effect_broker/`.

## 1. The system

The broker accepts an *effect* (a charge, a refund, an e-mail) from an agent,
records it in a ledger, has a worker perform it at an external target through an
adapter, and keeps the record truthful when the worker dies, the response is lost
or two processes act at once. The pinned *contract* of the tool says what the
target can prove (its safety class) and decides what may be done about an
unknown outcome.

| component | state it keeps | operations | interacts with |
|---|---|---|---|
| effect model, state machine (`models.py`, `statemachine.py`, `contracts.py`) | none | `is_allowed`, `route_unknown`, `validate_contract` | every other part |
| ledger store (`store/memory.py`, `sqlite.py`, `postgres.py`) | effects with status, version, lease; attempts; events; receipts | `reserve`, `claim_due`, `start_attempt`, `transition`, `get`, `list`, `receipt` | called by everything; a lock or a transaction per call |
| worker (`worker.py`, `cli.py`) | claimed batch, record in hand, attempt id | `dispatch_once` in a loop | store, adapter |
| reconciler (`reconcile.py`, `cli.py`) | listed batch, record in hand | `reconcile_once` in a loop over one tenant | store, adapter |
| engine and API (`engine.py`, `api.py`, `mcp_server.py`) | none | submit, get, list, cancel, resolve, reconcile, replay receipt | store; reconcile calls the adapter |
| adapters, target (`adapters/`) | what the target performed, by downstream key | `dispatch`, `probe` | called by worker, reconciler, API |
| crash matrix (`examples/crash_matrix`) | a durable target, processes | crash after the commit, mark unknown, concurrent recoveries, a zombie | SQLite or Postgres store |
| observability (`observability.py`) | counters; unknown effects seen by this process | `record_*` | called after store calls |
| hashing, auth, config | none | `request_hash`, `downstream_key`, tokens | reservation, API |

What is hard here: a worker may be paused for longer than its lease and then go on
(a zombie); a request may commit after its sender has given up; a response may be
lost; a process may die between any two store calls; the reconciler, API sessions
and workers may act on one effect at once; a key or a settlement bound may run out
between a check and its use; an exception on one effect ends a loop and abandons a
batch. `PROJECT.json` lists these hazards at their lines with the properties
aimed at them. What makes each component correct:

- *store*: a version never accepts two writers; only edges of the graph are taken.
- *worker*: an attempt is on record before any I/O; what it settles is true.
- *reconciler*: no retry that is not by key or after a proof; terminates.
- *engine*: a cancelled effect never happens; an operator's decision is final.
- *whole*: per class, the guarantee table of `README.md:52-55`.

## 2. Modules

| module | what it is |
|---|---|
| `EffectModel` | the pure part: statuses, transition graph, routing, contracts |
| `Broker` | the core: ledger, workers, reconcilers, API sessions, target, network, crashes, clock; its properties and fairness |
| `EffectPromise` | the abstract specification: what a caller is promised about one effect |
| `BrokerClaims` | sentences of the documentation that the code does not keep |
| `MCBroker` | contracts and symmetry for TLC |
| `BrokerLedger` | `Broker` with the attempt rows and the trail its store calls leave; implements `EffectLedger` |
| `MCBrokerLedger` | contracts and symmetry for TLC |
| `EffectLedger` | the abstract store: each call one atomic step on intents, attempt rows and the trail of events (`memory.py`, `sqlite.py`) |
| `PostgresStore` | the Postgres store, one action per SQL statement of concurrent READ COMMITTED transactions; implements `EffectLedger` |
| `MCPostgresStore` | symmetry for TLC |
| `CrashMatrix` | one scenario of `examples/crash_matrix`: runner, killed worker, racing recoveries, zombie, durable target; implements `EffectPromise` |
| `Telemetry` | `Broker` with the registries of its processes: counters, the table of unknown effects, their age |
| `MCTelemetry` | contracts and symmetry for TLC |
| `ReconcilerLoop` | the reconciler's loop over many effects: batches, retention, exceptions, starvation |
| `BrokerProofs` | types, reservation, evidence: `TypeCorrect`, `SuccessIsReal` |
| `BrokerFencing` | versions, the one shot of an unsafe effect, orphans: `WritersAreFenced`, `UnsafeOnce`, `OrphansHaveACause` |
| `BrokerRecords` | attempts cover requests and effects, the retry limit over all workers, what is on record: `AttemptsAhead`, `BudgetKept`, `DispatchesOwned`, `ReceiptsStand`, `LedgerIsKept` |
| `BrokerPromise` | what holds while the contracts do, refinement included: `OneInFlight`, `OneEffect`, `FailureIsReal`, `RetriesSee`, `BrokerKeepsPromise` |
| `PostgresProofs` | the Postgres store implements the atomic ledger, and what its rows say: `Atomic`, `WellTyped`, `Unbroken`, `TrailsTell`, `ReceiptsTell`, `KeysBind`, `NobodyInLine` |
| `CrashMatrixProofs` | the scenario for any number of recoveries: `MatrixTypes`, `MatrixWritesAhead`, `MatrixKeepsPromise`, `MatrixOneRecovers`, `MatrixZombieNeverWrites`, `TheMatrixPasses` |
| `TelemetryProofs` | the tables of unknown effects and the counters: `UnknownsAreTracked`, `CountersAreTrue` |
| `ReconcilerLoopProofs` | the loop over any effects: `DeathStrandsOne` |

`Telemetry` extends `Broker` and adds variables and a step of its own; the
transition graph, the routing and the classes of `EffectModel` are shared by all.
`CrashMatrix` and `ReconcilerLoop` look at what `Broker` is too coarse or too
large for: three recoveries of one effect call by call, and one loop over many
effects without workers, leases and network.

A definition `F_Something` next to `F` (for instance `Cancel_InFlight`) is a
mutant: `F` as a plausible bug would have it. No run uses it; `PROJECT.json`
names the property that detects it when it takes the place of `F`.

### 2.1 Broker: state

| variables | code |
|---|---|
| `status`, `version`, `created`, `contract`, `lease` | columns of the effects table (`EffectRecord`, `lease_until`) |
| `attempts` | number of attempt rows of an effect |
| `resolved` | effects with an operator's `resolve` in their trail |
| `pc[p]` | the call process `p` makes next (see below) |
| `eff[p]`, `ver[p]`, `ord[p]`, `todo[p]` | the record in hand, the versions `p` holds (the whole claimed batch for a worker), the ordinal in `attempt_id`, the rest of the batch |
| `requests` | dispatches the target has not handled, with the attempt that sent them |
| `count`, `keptUntil` | how often the target performed the effect; how long it remembers its key |
| `now`, `faults`, `crashes` | the clock; budgets of the environment |

An effect identity `i \in Ids` stands for a tenant with an operation key, so
`Submit` happens once per identity; a replayed or conflicting submission changes
nothing in the ledger. Payloads, ids and event bodies are left out.

### 2.2 Broker: actions

A label names the code a process is about to run. Between two steps of a process
anything may happen; within one step nothing does, because each step is one store
call (lock in memory, `BEGIN IMMEDIATE` in SQLite), one adapter call event, or
local code without an `await`.

| action | code |
|---|---|
| `ClaimDue` | `claim_due`: oldest due effects, version + 1, lease |
| `BeginDispatch` | `transition(DISPATCHING)`, worker (`worker.py:48`) or reconciler's redispatch (`reconcile.py:63`) |
| `StartAttempt` | `start_attempt` |
| `Send`, `Commit`, `CommitUnconfirmed`, `Reject`, `Drop`, `Timeout`, `AdapterFactoryFails` | the adapter call and its outcomes: committed, committed without a confirmation, `AdapterError`, lost before the target, given up, adapter not built |
| `Settle` | the settlement write: SUCCEEDED, OUTCOME_UNKNOWN, RETRYABLE or FAILED_FINAL |
| `StoreFails` | any store call of a loop or a session raises and has written nothing: inside the worker's `try` (SUCCEEDED, an unconfirmed dispatch) OUTCOME_UNKNOWN is written next; `claim_due`, `list`, `get`, `start_attempt`, the writes of the `except` clauses and all of the reconciler's end the loop, a session answers an error |
| `Refused` | `VersionConflictError` or `InvalidTransitionError`: the loop ends, its batch is abandoned; an API session answers an error |
| `List`, `Get`, `HandlerGet` | the loop's `list` and `get`; the endpoint's `get`; each with the branch of `reconcile_once` chosen from the record read |
| `BeginProbe`, `Probe`, `ProbeFails`, `Conclude` | `transition(RECONCILING)`, `probe`, the final write |
| `Submit`, `Cancel`, `Resolve` | the engine's operations |
| `Crash`, `Restart`, `MarkUnknown`, `Tick` | death of a process; a supervisor; the crash matrix's `_mark_unknown`; the clock |

Modelled by a simplification that loses nothing the properties tell apart:

- The engine's `cancel` and `resolve` read the record and then write with the
  version read; the compare-and-swap lets only an unchanged record through, so
  both are one step.
- A transition clears the lease. The in-memory store keeps it on the way to
  PREPARED and RETRYABLE, where it was cleared by the DISPATCHING edge before.
- A lease is over at its end (`<=`), as in memory and SQLite; Postgres says `<`.
- When the worker's SUCCEEDED write meets a newer version, its `except` clause
  tries OUTCOME_UNKNOWN on the same old version and fails again: `Refused`.
- A store call that raises although its transaction committed (the acknowledgement
  of a COMMIT is lost) is the call followed by a crash of its process: an owner
  goes on to hold the old version, and whatever it writes next is refused.
- All processes share one target and one clock. (The demonstration adapter of the
  compose file gives each process a target of its own.)

The constants select the environment: `Lag` (how long a request may outlive its
caller), `KeysExpire`, `HideCommits`, `Recovery`, `Supervised`, `Mortal`,
`FaultKinds`. The fault `presumed` is a recovery that takes a live worker for dead.

### 2.3 The stores

`Broker` treats a store call as one step. The in-memory store (one lock) and SQLite
(`BEGIN IMMEDIATE`) are that by construction, and `EffectLedger` is their
translation with what `Broker` leaves out: attempt rows with ordinals, the trail
of events, payload hashes, and effect ids drawn apart from the key they serve.
`BrokerLedger` puts the two together. Its history variables `rows` and `trail` are
what the calls of `Broker` add to the attempt and event tables; `Recorded` defines
them for whatever a step does, so they restrict none; and the effects of `Broker`
with this history are the ledger of `EffectLedger` (`IsLedger`). So the chain is
closed: what is proved of `Broker` assumes of a store no more than `PostgresStore`
is proved to give.
The Postgres store earns it with row locks, unique constraints and one version
comparison, which `PostgresStore` models:

| state | code |
|---|---|
| `tenants`, `intents`, `attempts`, `events`, `receipts` | committed rows of the five tables |
| `tx[c]`, `locks[c]` | what the transaction of client `c` has written and which rows it has locked |
| `pc[c]`, `call[c]`, `mem[c]` | its next statement, the arguments of the call, what it has read |

| call | statements |
|---|---|
| `reserve` | `InsertTenant`, `InsertIntent`, then `SelectExisting` and `Answer` (replayed or conflict) or the event |
| `claim_due` | `Scan` (the snapshot), `LockRow` for each row (SKIP LOCKED, and the recheck of a row that changed), `EndScan`, then `UpdateClaimed` and an event for each |
| `start_attempt` | `SelectForUpdate`, `CountAttempts`, `InsertAttempt`, then the event |
| `transition` | `Read` (no lock), `Update` (waits, compares the version again), the event, `InsertReceipt` after SUCCEEDED |
| all | `SelectMax` and `InsertEvent` (`_append_event`), `Commit` or, at any statement, `Fail` |

What Postgres does (locks are held to the end of the transaction, an INSERT waits
for an uncommitted row with its key, an UPDATE that waited looks at the new row) is
external and follows its documentation. A constraint that fails, or the
"disappeared" row of `reserve`, leads to the label `broken`. Callers pass any
version a row has had, and to `start_attempt` one that a DISPATCHING transition
returned, as worker and reconciler do. The order in which a claim visits rows is
left open: `created_at` and random ids give any.

### 2.4 The crash matrix

| state | code |
|---|---|
| `safety`, `failpoint` | the scenario and the worker's `FAILPOINT` |
| `stage` | where `_run_scenario` is, at the end its verdict |
| `status`, `version`, `attempts` | the effect's row and its attempt rows |
| `calls`, `effects` | the target's tables `commit_calls` and `target_effects` |
| `pc[p]`, `held[p]`, `exit[p]` | the next call of a subprocess, the version of the record it holds, its exit code |

The runner's actions are `RunSubmit`, `RunLive` (the worker survived),
`RunRecoveries` (`_mark_unknown` and the three `Popen`), `RunZombie`, `Judge`. The
worker goes `Claim`, `BeginDispatch`, `StartAttempt`, `Commit`, `Conclude` and is
killed where its failpoint says; a recovery reads the record (`Get`) and runs
`reconcile_once` over the durable adapter; the zombie takes the DISPATCHING edge
with the version the runner noted. A call on the target may fail and roll back
(`CommitFails`, `ProbeFails`, at most `MaxFaults`). The runner runs one failpoint,
the other two are those the worker accepts. Every other exception than a conflict
caught in `main` is exit code 1. `_mark_unknown` asserts DISPATCHING: a state in
which it would fail has no successor, and deadlock is checked. Timeouts of
subprocesses (10 s) and of a locked database (5 s) are left out.

### 2.5 Telemetry

A registry belongs to an operating system process: each worker, each reconciler
loop and the API (all sessions in one) has one. `owes[p]` is the gap between a
store call and its record: `Work` does what a step of `Broker` does and notes the
debt, `Record` pays it (`record_transition`, `record_dispatch_attempt`,
`record_fenced_stale_write`), and other processes act in between. On Postgres two
API sessions may so record in the other order than they wrote. `Lose` is the end of
a process, with its registry. `resolve` and `_mark_unknown` go to the store
directly and record nothing; `cancel` by the command line records in a process
that ends at once. Labels by tool and contract are one label here.

### 2.6 The reconciler's loop

`now`, `status`, `created` are the ledger as the loop sees it; `pc`, `eff`, `todo`
the loop: the batch (`List`, the oldest `Limit` of its tenant), the record in hand
and the branch (`Get`, with the retention check), the first write (`Begin`),
`StartAttempt`, the outcome (`Answer`), an exception (`Raise`, and `Refused` when
somebody wrote first), which ends it, and `Restart`, which may never come. `fresh`
stands for the version in hand: it is lost when another process writes the effect.
That is the environment: `BecomesUnknown` (a worker's dispatch ended so) and
`SessionSettles` (an API session's `reconcile_once`, with every outcome its class
allows, a redispatch that stays unknown included). Adapter answers are arbitrary,
so a redispatch may stay ambiguous for ever. The listed records are read again by
`broker.reconcile`, as here by `Get`; a listed effect that has become RETRYABLE or
PREPARED meanwhile is redispatched or refused as the graph says.

## 3. Properties and runs

| run | question | properties |
|---|---|---|
| `fencing` | What holds in *every* environment? All faults, zombies presumed dead, requests delivered after their caller, keys that expire, crashes. And is each step a call of the atomic ledger? | `TypeOK`, `Fenced`, `UnsafeAtMostOnce`, `WriteAhead`, `NoFalseSuccess`, `OwnDispatch`, `ReceiptStands`, `OnlyFailuresOrphan`, `IsLedger` |
| `contract` | What holds while the classes' contracts do? `Lag = 0`, no wrong presumption, keys outlive the run; all faults and crashes. | `NoDuplicate`, `NoFalseFailure`, `SingleFlight`, `RetryBudget`, `NoBlindRetry`, `KeepsPromise` |
| `progress` | Two effects in one batch, every fault of target, adapter and store, a worker and a reconciler that may die and need not be restarted: does each effect end while somebody is left to work on it? | `Resolves` |
| `postgres` | Is the Postgres store the atomic ledger, under every interleaving of its statements and any failure before a commit? | `TypeOK`, `NeverBroken`, `NeverStuck`, `NobodyWaitsInLine`, `TrailTells`, `ReceiptsAgree`, `ReservationsBind`, `IsAtomicLedger` |
| `crash_matrix` | Do the matrix's verdicts hold in every order of its processes, at every failpoint and with a failing target? | `TypeOK`, `CallsOnRecord`, `OneRecovers`, `MatrixPasses`, `ZombieNeverWrites`, `KeepsPromise` |
| `telemetry` | Do tables and counters of three registries agree with the ledger? | `UnknownsTracked`, `CountersTell` |
| `loop` | Does the loop starve an effect or lose a batch? | `OneStrandedPerDeath`, `Settles` |
| `claim_*` | Five sentences of the documentation (section 4). | one each, violated |

`KeepsPromise` is a refinement: `EffectPromise` is instantiated with
`verdict <- Verdict(i)` and `performed <- count`. It says that an effect is
performed at most once and only while its caller has been told nothing, that
"succeeded" is said after it and "void" only without it. That an idempotent effect
failed is mapped to "left to a human", because it is no evidence (section 4).
`CrashMatrix` implements the same specification with its one effect.

`MatrixPasses` is the matrix's own verdict, for every order of the three
recoveries instead of the one a run of the harness happens to take.
`ZombieNeverWrites` matters where a failed redispatch has led the effect back to
OUTCOME_UNKNOWN: the zombie's edge is one the graph allows there, and only the
version refuses it. `UnknownsTracked` is about the tables of all processes
together, while none ends: no late record takes out an effect that is unknown
again, though an effect may stay in the table of one process after another has
resolved it. It does not say that an alert fires: only the API's table is scraped,
and an effect a worker made unknown is not in it (section 4).

Two properties say together what becomes of an effect. `OnlyFailuresOrphan`: it is
left in DISPATCHING or RECONCILING without a process only when its own process
dies or meets an exception that nothing catches - which the code does allow, at
`start_attempt`, in the `except` clauses and anywhere in the reconciler. `Resolves`:
an effect that is open otherwise ends or reaches an operator, unless nobody is left
who would take it up (`NobodyLeft`): it is such an orphan, all workers or all
reconcilers have stopped, or its tenant is not the loop's. So the property grants
the code's gaps and no more: a conflict, an abandoned batch, a lease that runs out,
a retry and a restart that does come lose nothing.

`Settles` asks more of one loop. The oldest effects may stay ambiguous as often as
they like, because their keys expire, and workers may make effects unknown for
ever, as long as those that are no younger than the one in question stop at last;
without that the claim is false: effects proven absent, dispatched again and again
lost fill every batch with older ones. The loop must not be down for good, but
nothing has to restart it. `OneStrandedPerDeath` counts what a dead loop
leaves in DISPATCHING or RECONCILING.

`IsAtomicLedger` is the second refinement: committed rows are the abstract ones, a
commit is one atomic call, every other statement a stutter. It says at once that no
update is lost, that a claim takes only rows whose lease is over when it locks
them (strictly, where the other stores do so at its end), that the "from" of
each event was true, and that a call leaves all of its rows or none. It also
shows that clearing the lease in every transition (Postgres) and keeping it on the
way to a claimable status (memory) come to the same. `IsLedger` is the third: what
the broker's processes do to such a store is a sequence of its calls. With the
trail at hand two questions can be asked that `Broker` alone cannot answer.
`OwnDispatch`: `start_attempt` compares a version and nothing else, so is there an
edge for each attempt, and one only? `ReceiptStands`: `receipt` reads the trail and
not the row, so can the two come to differ?

`NobodyWaitsInLine` is why no call of the Postgres store is ever aborted as a
deadlock: reservations insert tenant, key and row in this order, a claim has
locked all of its rows before it writes one, and every other call locks one row.

Contracts differ per run: a retry limit of 2 for the retryable classes (so that
there is an attempt below, at and beyond the limit), retention equal to the
horizon or 1 tick, a settlement bound of 1 tick, 0 retries for `unsafe`.

**Bounds.** Two workers, one reconciler and one API session are one more than
any two-party race here needs: a holder, a usurper and a third that interferes.
One effect is enough where the properties speak of one effect and processes meet
only on it; `progress` has two in a batch, an idempotent and a reconcilable one, where
they meet through an abandoned claim. The clock has 3 values with leases, retention and settlement of 1 tick:
each is crossed before, at and after its end. The two faults of `contract` allow
an ambiguous attempt followed by a rejected one, or two ambiguous ones; one crash
combines with them. `fencing` has one fault, since its environment alone (late
requests, short keys, a crash) already has what the others need a second for. `Resolves` excuses a claim whose lease ends after the last tick
(`BeyondHorizon`): that is the bound of the clock, not the program's. Runs end by
exhaustion of the bounds, so deadlock is not checked: a finished broker stops.
`Workers` are interchangeable (symmetry), except in the runs with liveness. The
`postgres` run has two clients: every conflict of the store is between two
transactions on one row or one key. Two ids and two keys allow two submissions of
one key, a claim of a batch and a row locked or moved under a claim; versions up
to 2 (claims not counted) a dispatch and its success; three clock
values a lease that ends between two claims. The tenant may be on record from the start:
otherwise the first insertion of its row would put all reservations in a queue.
In `fencing` a claim has one effect; that a claim of a batch is one call of the
ledger too is part of `LedgerIsKept`, proved for any batch.
`crash_matrix` has the three recoveries of the program and two faults, so that two
recoveries may fail and the third still decide. `telemetry` has a worker that may
die once and two API sessions of one process, the least for an order of records
that differs from the order of writes. `loop` has batches of two and three effects
to serve, so that two can keep out the third, a fourth of another tenant, a
retention of one tick and four values of the clock (each key expires within it),
and one restart.

**Fairness** (`FairSpec`). Each process' next step is weakly fair: `asyncio.run`
keeps an event loop running and no store call waits for another one for ever. A
request that reached the target is handled. The clock advances. In
`ReconcilerLoop` the loop's next step and the clock are weakly fair: answers come.
No fairness is assumed of faults, crashes, callers, API calls, restarts or a
recovery of stale dispatches: the package and `docker-compose.yml` provide neither
of the last two. In `progress` a stopped process may be started again
(`Supervised`) and never has to be. Only `claim_stale` grants restarts
(`SupervisedSpec`), so that its counterexample is not the want of one.

## 4. Divergences

Each of these runs must end in a counterexample; `PROJECT.json` quotes the texts.

1. `claim_stale` - a worker that dies after the DISPATCHING write leaves the effect
   there; nothing in the package converts it.
2. `claim_expiry` - the worker retries an idempotent effect without looking at the
   key's retention; only the reconciler does, and it looks once (`reconcile.py:55`),
   before the write, the attempt and the send, while the key may still expire.
3. `claim_retryable` - RETRYABLE after a rejected redispatch although an earlier
   ambiguous attempt committed; the effect may then be cancelled or fail finally.
4. `claim_absence` - the settlement bound runs from the reservation, so absence may
   be concluded while the request can still commit.
5. `claim_age` - the age of the oldest unknown effect is computed when the
   process's table changes and then kept; an effect that stays unknown does not
   grow older, and the alert that waits for it may never fire.

Also, met while modelling and stated by no run:

- The reconciler probes as soon as it lists an effect; before the settlement bound
  the answer is unknown and the effect goes to an operator, where
  `docs/NEXT_PROJECT_SPEC.md:638` lets the broker wait.
- `POST /effects/{id}/reconcile` dispatches an idempotent effect that was only
  reserved: `reconcile_once` does not look at the status (`api.py:3-4` says that
  the HTTP process does not dispatch).
- A transactional effect shares no transaction with the ledger (dispatch and
  SUCCEEDED are two steps, resolved by a probe when they come apart).
- A reconciler that dies or whose probe or store raises leaves RECONCILING or
  DISPATCHING behind, a worker whose store raises in `start_attempt` or in an
  `except` clause leaves DISPATCHING; no recovery finds either. Its loop serves one
  tenant.
- Only the API serves `/metrics` (`api.py:266`), so what workers and loops record is
  never scraped: the alert on unknown unsafe effects (`docs/OBSERVABILITY.md:14`,
  `:34-36`) misses each effect a worker made unknown, which is where they come
  from. A gauge keeps an effect another process has resolved, and a loop that is
  fenced ends with the registry that counted it.
- `record_lease_expiration` is called by nobody: `lease_expirations_total`
  (`docs/OBSERVABILITY.md:18`) stays 0.
- Postgres truncates durations. For the retention that is the safe side; a truncated
  settlement bound concludes absence up to a second early.
- With a failing target two recoveries of the matrix may succeed one after the
  other, and it reports a failure although the ledger is right.
- Workers that keep making older effects unknown again can fill every batch of a
  loop and starve a younger one: their retries of idempotent effects look at no
  retention, and a reconcilable effect proven absent is dispatched again
  without a count. `Settles` states it as its hypothesis.

## 5. Proofs

All theorems hold for every value of the constants that satisfies the assumptions
named in the module they are about (in `Broker`: contracts are valid, kinds of process are disjoint, nulls are
none of the ids); TLC evaluates these on each run. There is no bound on
processes, effects, time, faults, crashes or lag.

1. `TypeCorrect`: `Spec => [](TypeOK /\ Reserved)`. `TypeOK` is not inductive
   alone: `Perform` adds the pinned contract's retention to the clock, so what is
   requested must have been reserved. `Reserved` says that no process, batch or
   request knows an effect the ledger does not.
2. `SuccessIsReal`: `Spec => []NoFalseSuccess`. The strengthening is `Evidence`: a
   process at "committed" or "found" has an effect in hand that the target
   performed; the target never takes a commit back.
3. `WritersAreFenced`: `Spec => []Fenced`. Inductive with `VersionsHeld` (nobody
   knows a version the ledger has not reached - so a write outdates all copies),
   `ClaimCurrent` (a current claim's effect still waits for dispatch) and
   `TakenOnce`. The lemma `LocalFenced` treats all steps that write nothing;
   `WriteFenced`, `AdvanceFenced`, `CloseFenced` and `ClaimFenced` the others.
4. `UnsafeOnce`: `Spec => []UnsafeAtMostOnce`, the README's "no broker-issued
   duplicate". `OneShot` follows the single attempt of an unsafe effect: before
   the edge nothing has happened; then it is in one place only - with the one
   process that took the edge, on its way, or performed - and no status from
   which a second edge could start is reachable. It needs fencing (only a current
   claim takes the edge), the contract's zero retry limit (a rejection is final)
   and the routing of unsafe outcomes to review.
   `OrphansHaveACause`: `Spec => OnlyFailuresOrphan`, in every environment. An owner
   is never refused (`OwnerAccepted`): fencing puts the ledger where every write of
   its label is allowed. Each step therefore keeps every effect in work (`StillOwned`) or
   is a failure of its owner where nothing catches it (`OwnerLost`).
5. `AttemptsAhead`: `Spec => []WriteAhead`. An attempt row is spent on one thing at
   a time, so the invariant `Covered` adds to the requests and the performed
   effects the processes that are about to send. There may be infinitely many
   processes; that only finitely many are about to send is part of it.
6. `BudgetKept`: `Spec => []RetryBudget`. `WithinBudget`: an effect waits for its
   dispatch only while an attempt is allowed, and who took the edge knows the
   number of attempts (with fencing: nobody else has recorded one since), so
   its comparison with the limit is a comparison of the whole. It needs that
   nothing but a counted rejection leads a transactional effect back: its
   probes never prove absence and it is never redispatched.
7. Under `ContractHolds` (a request dies with its caller, nobody is wrongly presumed
   dead, keys outlive the run - the environment of the `contract` run):
   `OneInFlight`, `OneEffect`, `FailureIsReal`, `RetriesSee`, `BrokerKeepsPromise`,
   that is `SingleFlight`, `NoDuplicate`, `NoFalseFailure`, `NoBlindRetry`,
   `KeepsPromise`. The invariant has three parts. `FlightInv`: who took the
   DISPATCHING edge owns the record until it gives it up, and each request has a
   caller that awaits it; with fencing, a request on its way means a ledger that
   says DISPATCHING. `OnceInv`: an effect whose target cannot deduplicate is
   `Clean`, that is, waits for a dispatch, is in one before its answer, or is
   denied, only while it has not happened; for the others the key is still
   known. `SuccessInv` of item 2. The refinement shows that every step moves at
   most one effect (`KeptAll`), in a way `EffectPromise` allows. Without
   `ContractHolds` these do not hold: the README's table names the contracts
   as each class's limits.
8. `MatrixTypes`, `MatrixWritesAhead`, `MatrixKeepsPromise`: the scenario of the
   crash matrix for any number of recoveries and failing calls. The inductive
   invariant `MatrixInv` adds to the types: `Staged` (who may run at which stage),
   `Routed` (a process stands only where its class leads), `Alone` (of processes
   past the DISPATCHING edge only one has the row's version), `Ahead` (each call
   the target is about to see has its attempt) and `Evidence` (who is about to
   write SUCCEEDED knows of the target's row). `MatrixKeepsPromise` is the step
   simulation of `EffectPromise` under that invariant. TLC checked `MatrixInv`
   first.
9. `MatrixOneRecovers`, `MatrixZombieNeverWrites`, `TheMatrixPasses`: the verdicts.
   The first two assume that there is a recovery at all (`runner.py` starts
   three); target failures are allowed. The race is `RaceInv`:
   - `Placed`: which process may stand where at which stage, and that a call is
     ambiguous only after the target has failed.
   - `Outdated`: the zombie's version is behind the row's, unless nobody has
     written since the runner marked the effect (`Unmoved`); then every recovery
     still has its first look before it. The zombie starts when all recoveries
     have ended, so by then one of them has written, because no recovery ends in
     a conflict unless another one wrote.
   - `OneWinner`: the first write accepted after the marking decides the winner,
     and from no status its class leaves the row in (`LeftAt`) does a recovery's
     first edge exist again. This is where the classes differ, and where a
     failing target would let a second recovery win: `OneRecovers` counts only
     scenarios in which the target answers.

   `TheMatrixPasses` adds `PassInv`: the worker was killed after exactly one call
   that the target performed (`Killed`), so a probe finds it (`Answered`). Its
   assumption `TheMatrix` is the list of classes the runner judges
   (`runner.py:53-55`): `transactional` is not among them.
10. `DeathStrandsOne`: `Spec => []OneStrandedPerDeath` of `ReconcilerLoop`, for any
    effects (even infinitely many), batch size and retention, under
    `LoopAssumption`. `Types` says that the loop has an effect in hand exactly where
    its label needs one; `Counted` adds to the count that only finitely many are
    stranded (`OneMore` then bounds one step).
11. `Atomic`: `Spec => IsAtomicLedger` of `PostgresStore`, the second refinement,
    for any number of clients, effects, keys and tenants, any clock and any batch
    size, under `StoreAssumption`; with it `WellTyped`, `Unbroken`, `TrailsTell`,
    `ReceiptsTell`, `KeysBind`. None of these is inductive: the committed rows say
    nothing of what the open transactions are about to commit. `StoreInv` has
    - `LedgerInv`, about committed rows only: each row is `Consistent` with its
      attempt rows and its trail (numbers without gaps, versions and statuses of
      their moment), and a key has one row. The lemmas of the first section show
      what one call of the ledger makes of a `Consistent` row; they speak of
      `EffectLedger` alone.
    - `Local(c)` for each client: at each statement, what the transaction has
      written (`Written`, `Touched`, `Told`) is a function of the rows it has
      locked and has read, as they are committed. So the commit of a call is a
      step of the ledger on rows nobody else could have changed meanwhile.
    - `Apart`: two transactions lock different rows and insert different ids and
      keys. This is what makes `Local` stable: another client's commit touches no
      row the transaction relies on. It is also why `MAX(sequence) + 1` and
      `COUNT(*) + 1` never collide (`Unbroken`).

    Then each statement has one lemma that keeps `StoreInv` and leaves committed
    rows alone, and `CommitIsLedgerStep` has one case per call. `transition`
    needs most: it reads before it locks, so only its second comparison of the
    version makes the "from" it writes true.

    `NobodyInLine`: `Spec => []NobodyWaitsInLine`, for any number of transactions:
    who waits, waits for one that is at work and waits for nobody, so there is no
    circle of waits of any length and no lock without an owner that runs.
    `StoreInv` says which rows and keys a transaction at each statement has;
    `TenantInv` adds the tenant's row a reservation may be the first to write. Then
    whoever holds a row lock is past its last wait, and of two reservations that
    meet only the later one waits, for one that has no insertion left.
12. `UnknownsAreTracked`: `TSpec => []UnknownsTracked` of `Telemetry`, under `~Recovery`
    (nobody writes OUTCOME_UNKNOWN past the broker; the package never does, only
    the crash matrix's runner). `TrackedInv` adds to the property the types, `Fenced`
    with its invariant (item 3) and `Departed`: a record still owed that takes an
    effect away from a table belongs to the process that still owns the effect,
    or the effect is past OUTCOME_UNKNOWN for good. Without fencing a late record
    could remove an effect that had become unknown again in between. All of it is
    for `AllAlive`, as the property: a process that ends takes its table along.
13. `CountersAreTrue`: `TSpec => []CountersTell`, under no assumption on the
    environment. `TallyInv` balances, for each counter, three finite sets:
    the increments counted, the processes that owe one, and what has happened on
    the ledger. Counted and owed together never exceed what happened, and equal
    it while everybody is alive. That the sets are finite is part of the invariant, because
    there may be infinitely many processes and effects. It needs the types, that
    no edge leaves a terminal status (an outcome is written once), and that
    what an operator resolved is terminal (so nobody counts it later).
14. `DispatchesOwned`, `ReceiptsStand`, `LedgerIsKept`: `LSpec => []OwnDispatch`,
    `LSpec => []ReceiptStands`, `LSpec => IsLedger` of `BrokerLedger`, in every
    environment. `StoreCalls` sorts the steps of `Broker` by what they do to the
    ledger: nothing, a reservation, a claim of a batch, an attempt, or an allowed
    transition. The invariant `RecordsInv` has
    - `RowsTold`: only finitely many effects are on the ledger, and a lease stands
      only on a claimable status (so clearing it in every transition and
      keeping it are the same);
    - `AttemptsTold`: there are as many attempt rows as are counted, of versions
      the effect has had;
    - `EdgeTold` and `EdgeUnspent`: an effect in DISPATCHING has that edge in its
      trail with the current version, and while somebody is about to record an
      attempt with that version, nobody has. The second needs fencing (item 3): of
      two processes before the same edge only one holds the current version;
    - the two properties. `ReceiptStands` needs `Evidence` (item 2) where a success
      is written, and the graph, which has no edge out of SUCCEEDED, after it.

    The refinement then has one lemma per kind of step (`SubmitIsReserve`,
    `ClaimsIsClaimDue`, `AttemptIsStartAttempt`, `WriteIsTransition`,
    `RestsIsNone`). With `Atomic` (item 11) it links the two halves: `Broker`'s
    steps are calls of `EffectLedger`, and `PostgresStore` implements those.

Only model-checked, and why:

- `NeverStuck`: it says ENABLED. Its core, that no transactions wait in a circle, is
  `NobodyInLine`.
- `Resolves`, `Settles`: liveness under fairness.
- The five counterexamples of `claim_*`.

## 6. Not modelled

The read-only calls of the stores (`get`, `list`, `events`, counts) other than as
parts of the actions that use them, column conversions, the
migration script; submission, conflict and reconciliation counters, the retention
gauge, latencies and spans (output nothing reads back); the clock skew between
hosts; hashing and HMAC bytes, tokens, configuration, the tools of the MCP server,
rendering, pagination (pure or I/O).

## 7. Plan

A second tenant's loop next to the first in `ReconcilerLoop`, on the same store.
