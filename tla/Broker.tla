-------------------------------- MODULE Broker --------------------------------
(***************************************************************************)
(* The broker at work: the effect ledger, the worker processes             *)
(* (worker.py), the reconciler loops and the API sessions that reconcile   *)
(* (reconcile.py, cli.py, api.py), the operator and the caller that        *)
(* cancels (engine.py), and the target system behind the adapter.          *)
(*                                                                         *)
(* Every call on the store is one atomic step, as its lock or transaction  *)
(* makes it; between two calls of a process anything may happen.  A        *)
(* process keeps the version of the record it last read and every write is *)
(* a compare-and-swap on that version.                                     *)
(***************************************************************************)
EXTENDS EffectModel, FiniteSets

CONSTANTS
    Ids,            \* effect identities: a tenant with an operation key
    ServedIds,      \* those of the one tenant the reconciler loop lists
    Contracts,      \* contracts the registry may hold at a reservation
    Workers,        \* worker processes (cli.py _worker_loop)
    Reconcilers,    \* reconciler processes (cli.py _reconciler_loop)
    Handlers,       \* API sessions of POST /effects/{id}/reconcile
    NoId,           \* no effect in hand
    NoContract,     \* contract of an effect not reserved yet
    Limit,          \* batch size of a claim and of the reconciler's list
    LeaseFor,       \* length of a claim's lease, in ticks
    Lag,            \* ticks after its sending within which a request whose
                    \* caller is gone may still commit (0: it dies with it)
    KeysExpire,     \* TRUE: the target forgets a key after its retention
    HideCommits,    \* SimulatedTarget.hide_commits_until_settled
    Recovery,       \* TRUE: someone marks a stale DISPATCHING unknown, as
                    \* the crash matrix does; the package never does
    Supervised,     \* TRUE: a loop process that ended is started again
    Mortal,         \* processes that may crash
    FaultKinds,     \* faults of target, adapter and store that may occur
    MaxTime,        \* bound: ticks of the clock
    MaxFaults,      \* bound: faults
    MaxCrashes      \* bound: crashes

Procs == Workers \cup Reconcilers \cup Handlers

AllFaults == {"reject", "lose", "drop", "timeout", "factory", "probe", "store",
              "presumed"}

ASSUME ContractsAssumption == \A c \in Contracts : ValidContract(c)
ASSUME NullsAssumption == NoId \notin Ids /\ NoContract \notin Contracts
ASSUME ProcsAssumption ==
    /\ Workers \cap Reconcilers = {}
    /\ Workers \cap Handlers = {}
    /\ Reconcilers \cap Handlers = {}
ASSUME NumbersAssumption ==
    /\ Limit \in Nat \ {0} /\ LeaseFor \in Nat \ {0} /\ Lag \in Nat
    /\ MaxTime \in Nat /\ MaxFaults \in Nat /\ MaxCrashes \in Nat
ASSUME EnvironmentAssumption ==
    /\ ServedIds \subseteq Ids
    /\ KeysExpire \in BOOLEAN /\ HideCommits \in BOOLEAN
    /\ Recovery \in BOOLEAN /\ Supervised \in BOOLEAN
    /\ Mortal \subseteq Procs /\ FaultKinds \subseteq AllFaults

VARIABLES
    now,        \* the clock every component reads
    status,     \* effects.status, "absent" before the reservation
    version,    \* effects.version
    created,    \* effects.created_at
    contract,   \* the contract pinned at the reservation
    lease,      \* effects.lease_until, 0 when there is none
    attempts,   \* number of attempt rows
    resolved,   \* effects whose trail holds an operator's resolution
    pc,         \* what each process does next
    eff,        \* the effect each process has in hand
    ver,        \* the version of each record a process holds, 0 if none
    ord,        \* ordinal of the attempt in hand
    todo,       \* the rest of the claimed or listed batch
    requests,   \* requests the target has not handled
    count,      \* how often the target performed the effect
    keptUntil,  \* the target remembers the effect's key until then
    faults,     \* faults so far
    crashes     \* crashes so far

ledger == <<status, version, created, contract, lease, attempts, resolved>>
local == <<pc, eff, ver, ord, todo>>
target == <<requests, count, keptUntil>>
env == <<now, faults, crashes>>
vars == <<ledger, local, target, env>>

-----------------------------------------------------------------------------
(* Types *)

\* Labels at which the next call is store.transition.
Writing == {"claimed", "redispatch", "reconcile", "review", "committed",
            "rejected", "ambiguous", "found", "absent", "unproven"}

\* Labels of a process that has taken the DISPATCHING edge ...
Dispatching == {"attempt", "send", "wait", "committed", "rejected",
                "ambiguous"}
\* ... and of one that has taken the RECONCILING edge.
Probing == {"probe", "found", "absent", "unproven"}

Labels == {"idle", "listed", "stopped"} \cup Writing \cup Dispatching
              \cup Probing

Request == [id : Ids, ord : Nat, sent : Nat]

LedgerType ==
    /\ status \in [Ids -> EffectStatus \cup {"absent"}]
    /\ version \in [Ids -> Nat]
    /\ created \in [Ids -> Nat]
    /\ contract \in [Ids -> Contracts \cup {NoContract}]
    /\ \A i \in Ids : contract[i] = NoContract <=> status[i] = "absent"
    /\ lease \in [Ids -> Nat]
    /\ attempts \in [Ids -> Nat]
    /\ resolved \in SUBSET Ids

LocalType ==
    /\ pc \in [Procs -> Labels]
    /\ eff \in [Procs -> Ids \cup {NoId}]
    /\ \A p \in Procs : eff[p] = NoId <=> pc[p] \in {"idle", "stopped"}
    /\ ver \in [Procs -> [Ids -> Nat]]
    /\ ord \in [Procs -> Nat]
    /\ todo \in [Procs -> SUBSET Ids]

TargetType ==
    /\ requests \in SUBSET Request
    /\ count \in [Ids -> Nat]
    /\ keptUntil \in [Ids -> Int]

EnvType ==
    /\ now \in Nat
    /\ faults \in 0..MaxFaults
    /\ crashes \in 0..MaxCrashes

TypeOK == LedgerType /\ LocalType /\ TargetType /\ EnvType

Init ==
    /\ now = 0
    /\ status = [i \in Ids |-> "absent"]
    /\ version = [i \in Ids |-> 0]
    /\ created = [i \in Ids |-> 0]
    /\ contract = [i \in Ids |-> NoContract]
    /\ lease = [i \in Ids |-> 0]
    /\ attempts = [i \in Ids |-> 0]
    /\ resolved = {}
    /\ pc = [p \in Procs |-> "idle"]
    /\ eff = [p \in Procs |-> NoId]
    /\ ver = [p \in Procs |-> [i \in Ids |-> 0]]
    /\ ord = [p \in Procs |-> 0]
    /\ todo = [p \in Procs |-> {}]
    /\ requests = {}
    /\ count = [i \in Ids |-> 0]
    /\ keptUntil = [i \in Ids |-> 0]
    /\ faults = 0
    /\ crashes = 0

-----------------------------------------------------------------------------
(* The store *)

\* The effects of D with the smallest creation times, at most Limit of them.
Oldest(D) ==
    {S \in SUBSET D :
        /\ Cardinality(S) = IF Cardinality(D) < Limit THEN Cardinality(D)
                                                      ELSE Limit
        /\ \A i \in S, j \in D \ S : created[i] <= created[j]}

\* The effects of a batch a loop may take next: it is in creation order.
Eldest(S) == {i \in S : \A j \in S : created[i] <= created[j]}

Due == {i \in Ids : status[i] \in ClaimableStatuses /\ lease[i] <= now}

\* Mutant: a claim's lease outlives the transition.
Write_KeepsLease(i, s) ==
    /\ status' = [status EXCEPT ![i] = s]
    /\ version' = [version EXCEPT ![i] = @ + 1]
    /\ UNCHANGED <<created, contract, lease, attempts>>

\* A transition that passed its checks: new status, next version, no lease.
Write(i, s) ==
    /\ status' = [status EXCEPT ![i] = s]
    /\ version' = [version EXCEPT ![i] = @ + 1]
    /\ lease' = [lease EXCEPT ![i] = 0]
    /\ UNCHANGED <<created, contract, attempts>>

Current(p) == ver[p][eff[p]] = version[eff[p]]

-----------------------------------------------------------------------------
(* Control of a process *)

Goto(p, l) == pc' = [pc EXCEPT ![p] = l]

\* Go on with the batch S, or go idle when it is empty.
TakeNext(p, S) ==
    \/ /\ S = {}
       /\ Goto(p, "idle")
       /\ eff' = [eff EXCEPT ![p] = NoId]
       /\ todo' = [todo EXCEPT ![p] = {}]
    \/ \E i \in Eldest(S) :
       /\ Goto(p, IF p \in Workers THEN "claimed" ELSE "listed")
       /\ eff' = [eff EXCEPT ![p] = i]
       /\ todo' = [todo EXCEPT ![p] = S \ {i}]

\* The call on the effect in hand returned.
Finish(p) ==
    /\ TakeNext(p, todo[p])
    /\ ver' = [ver EXCEPT ![p][eff[p]] = 0]
    /\ ord' = [ord EXCEPT ![p] = 0]

\* An exception left the call: a loop process ends, its batch abandoned; an
\* API session answers with an error.
Stop(p) ==
    /\ Goto(p, IF p \in Handlers THEN "idle" ELSE "stopped")
    /\ eff' = [eff EXCEPT ![p] = NoId]
    /\ todo' = [todo EXCEPT ![p] = {}]
    /\ ver' = [ver EXCEPT ![p] = [i \in Ids |-> 0]]
    /\ ord' = [ord EXCEPT ![p] = 0]

Awaits(p, r) == pc[p] = "wait" /\ eff[p] = r.id /\ ord[p] = r.ord

\* May a request nobody awaits still commit at time t?
Lingers(r, t) == t < r.sent + Lag

\* p stops waiting; what it sent lingers or is lost with it.
Abandon(p) ==
    requests' = {r \in requests : Awaits(p, r) => Lingers(r, now)}

Fault(k) ==
    /\ k \in FaultKinds /\ faults < MaxFaults
    /\ faults' = faults + 1
    /\ UNCHANGED <<now, crashes>>

\* Mutant: the comparison off by one.
Exhausted_OffByOne(p) ==
    p \in Workers /\ ord[p] > contract[eff[p]].retry_limit

\* A proven non-commit used the last attempt; only the worker counts.
Exhausted(p) == p \in Workers /\ ord[p] >= contract[eff[p]].retry_limit

\* The status a process is about to write.
Goal(p) ==
    CASE pc[p] \in {"claimed", "redispatch"} -> "dispatching"
      [] pc[p] = "reconcile" -> "reconciling"
      [] pc[p] \in {"committed", "found"} -> "succeeded"
      [] pc[p] = "ambiguous" -> "outcome_unknown"
      [] pc[p] = "absent" -> "prepared"
      [] pc[p] = "rejected" -> IF Exhausted(p) THEN "failed_final"
                                               ELSE "retryable"
      [] OTHER -> "manual_review"

Accepted(p) == Current(p) /\ IsAllowed(status[eff[p]], Goal(p))

\* The transition of p succeeds and p holds the record it returned.
Advance(p, l) ==
    /\ Accepted(p)
    /\ Write(eff[p], Goal(p))
    /\ ver' = [ver EXCEPT ![p][eff[p]] = @ + 1]
    /\ Goto(p, l)
    /\ UNCHANGED <<resolved, eff, ord, todo, target, env>>

\* The transition of p succeeds and ends its work on the effect.
Close(p) ==
    /\ Accepted(p)
    /\ Write(eff[p], Goal(p))
    /\ Finish(p)
    /\ UNCHANGED <<resolved, target, env>>

-----------------------------------------------------------------------------
(* Callers *)

\* Mutant: the contract is not pinned with the reservation.
Submit_Unpinned(i, c) ==
    /\ status[i] = "absent"
    /\ status' = [status EXCEPT ![i] = "prepared"]
    /\ created' = [created EXCEPT ![i] = now]
    /\ UNCHANGED <<version, contract, lease, attempts, resolved, local, target,
                   env>>

Submit(i, c) ==
    /\ status[i] = "absent"
    /\ status' = [status EXCEPT ![i] = "prepared"]
    /\ contract' = [contract EXCEPT ![i] = c]
    /\ created' = [created EXCEPT ![i] = now]
    /\ UNCHANGED <<version, lease, attempts, resolved, local, target, env>>

\* Mutant: cancellation does not ask whether dispatch has begun.
Cancel_InFlight(i) ==
    /\ status[i] \in ClaimableStatuses \cup {"dispatching"}
    /\ Write(i, "cancelled")
    /\ UNCHANGED <<resolved, local, target, env>>

\* The caller read some version; the CAS leaves only the current one.
Cancel(i) ==
    /\ status[i] \in ClaimableStatuses
    /\ Write(i, "cancelled")
    /\ UNCHANGED <<resolved, local, target, env>>

\* Mutant: an operator may correct a success.
Resolve_Corrects(i, s) ==
    /\ status[i] \in {"manual_review", "succeeded"}
    /\ Write(i, s)
    /\ resolved' = resolved \cup {i}
    /\ UNCHANGED <<local, target, env>>

Resolve(i, s) ==
    /\ status[i] = "manual_review"
    /\ Write(i, s)
    /\ resolved' = resolved \cup {i}
    /\ UNCHANGED <<local, target, env>>

-----------------------------------------------------------------------------
(* Workers *)

\* Mutant: a claim takes the lease but does not advance the version.
ClaimDue_SameVersion(w) ==
    /\ pc[w] = "idle"
    /\ \E S \in Oldest(Due) :
        /\ S # {}
        /\ lease' = [i \in Ids |-> IF i \in S THEN now + LeaseFor
                                              ELSE lease[i]]
        /\ ver' = [ver EXCEPT ![w] =
                      [i \in Ids |-> IF i \in S THEN version[i] ELSE 0]]
        /\ TakeNext(w, S)
    /\ UNCHANGED <<status, version, created, contract, attempts, resolved,
                   ord, target, env>>

ClaimDue(w) ==
    /\ pc[w] = "idle"
    /\ \E S \in Oldest(Due) :
        /\ S # {}
        /\ version' = [i \in Ids |-> IF i \in S THEN version[i] + 1
                                                ELSE version[i]]
        /\ lease' = [i \in Ids |-> IF i \in S THEN now + LeaseFor
                                              ELSE lease[i]]
        /\ ver' = [ver EXCEPT ![w] =
                      [i \in Ids |-> IF i \in S THEN version[i] + 1 ELSE 0]]
        /\ TakeNext(w, S)
    /\ UNCHANGED <<status, created, contract, attempts, resolved, ord,
                   target, env>>

\* Mutant: no attempt row before the adapter's I/O.
BeginDispatch_NoAttempt(p) ==
    /\ pc[p] \in {"claimed", "redispatch"}
    /\ Advance(p, "send")

\* The DISPATCHING edge, of a worker's claim or of a reconciler's redispatch.
BeginDispatch(p) ==
    /\ pc[p] \in {"claimed", "redispatch"}
    /\ Advance(p, "attempt")

\* Mutant: the attempt is recorded whatever version the row has by then.
StartAttempt_Unfenced(p) ==
    /\ pc[p] = "attempt"
    /\ attempts' = [attempts EXCEPT ![eff[p]] = @ + 1]
    /\ ord' = [ord EXCEPT ![p] = attempts[eff[p]] + 1]
    /\ Goto(p, "send")
    /\ UNCHANGED <<status, version, created, contract, lease, resolved,
                   eff, ver, todo, target, env>>

StartAttempt(p) ==
    /\ pc[p] = "attempt" /\ Current(p)
    /\ attempts' = [attempts EXCEPT ![eff[p]] = @ + 1]
    /\ ord' = [ord EXCEPT ![p] = attempts[eff[p]] + 1]
    /\ Goto(p, "send")
    /\ UNCHANGED <<status, version, created, contract, lease, resolved,
                   eff, ver, todo, target, env>>

Send(p) ==
    /\ pc[p] = "send"
    /\ requests' = requests \cup {[id |-> eff[p], ord |-> ord[p], sent |-> now]}
    /\ Goto(p, "wait")
    /\ UNCHANGED <<ledger, eff, ver, ord, todo, count, keptUntil, env>>

\* Building the adapter raises: inside the try of the worker, outside that of
\* the reconciler.
AdapterFactoryFails(p) ==
    /\ pc[p] = "send" /\ Fault("factory")
    /\ \/ p \in Workers /\ Goto(p, "ambiguous") /\ UNCHANGED <<eff, ver, ord, todo>>
       \/ p \notin Workers /\ Stop(p)
    /\ UNCHANGED <<ledger, target>>

\* p is about to call the store.
Calling(p) ==
    \/ pc[p] \in Writing \cup {"listed", "attempt"}
    \/ pc[p] = "idle" /\ p \notin Handlers

\* Mutant: the worker's try ends before the write of SUCCEEDED.
StoreFails_Escapes(p) ==
    /\ Calling(p) /\ Fault("store")
    /\ Stop(p)
    /\ UNCHANGED <<ledger, target>>

\* A store call raises and has written nothing.  The worker's try covers its
\* writes of SUCCEEDED and of an unconfirmed dispatch, and writes
\* OUTCOME_UNKNOWN then; nothing catches the exception of any other call.
StoreFails(p) ==
    /\ Calling(p) /\ Fault("store")
    /\ \/ /\ p \in Workers /\ pc[p] \in {"committed", "ambiguous"}
          /\ Goto(p, "ambiguous")
          /\ UNCHANGED <<eff, ver, ord, todo>>
       \/ ~(p \in Workers /\ pc[p] = "committed") /\ Stop(p)
    /\ UNCHANGED <<ledger, target>>

\* Persist what the dispatch gave evidence for.
Settle(p) ==
    /\ pc[p] \in {"committed", "rejected", "ambiguous"}
    /\ Close(p)

\* A store call finds another version, or an edge the graph lacks, and raises.
Refused(p) ==
    /\ \/ pc[p] \in Writing /\ ~Accepted(p)
       \/ pc[p] = "attempt" /\ ~Current(p)
    /\ Stop(p)
    /\ UNCHANGED <<ledger, target, env>>

-----------------------------------------------------------------------------
(* Reconcilers and API sessions *)

\* Mutant: the loop lists the wrong status.
List_ManualReview(r) ==
    /\ pc[r] = "idle"
    /\ \E S \in Oldest({i \in ServedIds : status[i] = "manual_review"}) :
        S # {} /\ TakeNext(r, S)
    /\ UNCHANGED <<ledger, ver, ord, target, env>>

List(r) ==
    /\ pc[r] = "idle"
    /\ \E S \in Oldest({i \in ServedIds : status[i] = "outcome_unknown"}) :
        S # {} /\ TakeNext(r, S)
    /\ UNCHANGED <<ledger, ver, ord, target, env>>

RetentionValid(i) ==
    /\ contract[i].key_retention # NoDuration
    /\ now <= created[i] + contract[i].key_retention

\* The branch reconcile_once takes for the record it was given.
Route(i) ==
    LET route == RouteUnknown(contract[i].safety)
    IN  CASE route = "dispatching" /\ RetentionValid(i) -> "redispatch"
          [] route = "reconciling" -> "reconcile"
          [] OTHER -> "review"

\* Read the record and choose the branch: no await lies between the two.
Get(r) ==
    /\ pc[r] = "listed"
    /\ ver' = [ver EXCEPT ![r][eff[r]] = version[eff[r]]]
    /\ Goto(r, Route(eff[r]))
    /\ UNCHANGED <<ledger, eff, ord, todo, target, env>>

HandlerGet(h, i) ==
    /\ pc[h] = "idle" /\ status[i] # "absent"
    /\ eff' = [eff EXCEPT ![h] = i]
    /\ ver' = [ver EXCEPT ![h][i] = version[i]]
    /\ Goto(h, Route(i))
    /\ UNCHANGED <<ledger, ord, todo, target, env>>

BeginProbe(p) ==
    /\ pc[p] = "reconcile"
    /\ Advance(p, "probe")

Settled(i) ==
    /\ contract[i].settlement_bound # NoDuration
    /\ now >= created[i] + contract[i].settlement_bound

\* Mutant: once settled the probe takes the commit for granted.
Found_Assumed(i) == contract[i].safety # "unsafe" /\ Settled(i)

Found(i) ==
    /\ contract[i].safety # "unsafe"
    /\ count[i] > 0 /\ (HideCommits => Settled(i))

\* Mutant: absence is concluded before the settlement bound.
ProvenAbsent_Early(i) == ~Found(i) /\ contract[i].safety = "reconcilable"

ProvenAbsent(i) ==
    ~Found(i) /\ contract[i].safety = "reconcilable" /\ Settled(i)

Probe(p) ==
    /\ pc[p] = "probe"
    /\ Goto(p, IF Found(eff[p]) THEN "found"
               ELSE IF ProvenAbsent(eff[p]) THEN "absent" ELSE "unproven")
    /\ UNCHANGED <<ledger, eff, ver, ord, todo, target, env>>

\* The probe, or building its adapter, raises; nothing catches it.
ProbeFails(p) ==
    /\ pc[p] = "probe" /\ Fault("probe")
    /\ Stop(p)
    /\ UNCHANGED <<ledger, target>>

\* Persist the probe's evidence, or hand the effect to an operator.
Conclude(p) ==
    /\ pc[p] \in {"found", "absent", "unproven", "review"}
    /\ Close(p)

-----------------------------------------------------------------------------
(* The target and the network before it *)

\* The key of i is deduplicated by its class and still remembered.
Deduplicated(i) ==
    /\ contract[i].safety \in {"idempotent", "transactional"}
    /\ count[i] > 0
    /\ KeysExpire /\ contract[i].key_retention # NoDuration
         => now <= keptUntil[i]

Perform(i) ==
    IF Deduplicated(i) THEN UNCHANGED <<count, keptUntil>>
    ELSE /\ count' = [count EXCEPT ![i] = @ + 1]
         /\ keptUntil' = [keptUntil EXCEPT
                             ![i] = now + contract[i].key_retention]

\* The target has handled r; the process that awaits it, if any, goes to l.
Answer(r, l) ==
    /\ requests' = requests \ {r}
    /\ pc' = [p \in Procs |-> IF Awaits(p, r) THEN l ELSE pc[p]]
    /\ UNCHANGED <<ledger, eff, ver, ord, todo>>

Commit(r) ==
    /\ Perform(r.id)
    /\ Answer(r, "committed")
    /\ UNCHANGED env

\* Mutant: the adapter reports a lost response as an AdapterError.
CommitUnconfirmed_AsError(r) ==
    /\ Fault("lose") /\ \E p \in Procs : Awaits(p, r)
    /\ Perform(r.id)
    /\ Answer(r, "rejected")

\* Performed, but the response is lost or does not confirm it.
CommitUnconfirmed(r) ==
    /\ Fault("lose") /\ \E p \in Procs : Awaits(p, r)
    /\ Perform(r.id)
    /\ Answer(r, "ambiguous")

\* The adapter reports a definite non-commit (AdapterError).
Reject(r) ==
    /\ Fault("reject") /\ \E p \in Procs : Awaits(p, r)
    /\ Answer(r, "rejected")
    /\ UNCHANGED <<count, keptUntil>>

\* Lost before the target saw it; the caller only sees an error.
Drop(r) ==
    /\ Fault("drop") /\ \E p \in Procs : Awaits(p, r)
    /\ Answer(r, "ambiguous")
    /\ UNCHANGED <<count, keptUntil>>

\* The adapter gives up while the request is still under way.
Timeout(p) ==
    /\ pc[p] = "wait" /\ Fault("timeout")
    /\ Abandon(p)
    /\ Goto(p, "ambiguous")
    /\ UNCHANGED <<ledger, eff, ver, ord, todo, count, keptUntil>>

-----------------------------------------------------------------------------
(* Crashes, recovery and time *)

Crash(p) ==
    /\ p \in Mortal /\ crashes < MaxCrashes
    /\ pc[p] \notin {"idle", "stopped"}
    /\ crashes' = crashes + 1
    /\ Abandon(p)
    /\ Stop(p)
    /\ UNCHANGED <<ledger, count, keptUntil, now, faults>>

Restart(p) ==
    /\ Supervised /\ pc[p] = "stopped"
    /\ Goto(p, "idle")
    /\ UNCHANGED <<ledger, eff, ver, ord, todo, target, env>>

\* A process is at work on the record of i as it stands.
Owner(p, i) ==
    pc[p] \in Dispatching \cup Probing /\ eff[p] = i /\ ver[p][i] = version[i]

\* Mutant: the stale dispatch is queued for a retry at once.
MarkUnknown_Requeues(i) ==
    /\ Recovery /\ status[i] = "dispatching"
    /\ \/ (\A p \in Procs : ~Owner(p, i)) /\ UNCHANGED env
       \/ (\E p \in Procs : Owner(p, i)) /\ Fault("presumed")
    /\ Write(i, "retryable")
    /\ UNCHANGED <<resolved, local, target>>

\* Mutant: nobody asks whether the worker is still at work.
MarkUnknown_Hasty(i) ==
    /\ Recovery /\ status[i] = "dispatching"
    /\ Write(i, "outcome_unknown")
    /\ UNCHANGED <<resolved, local, target, env>>

\* The worker that took the edge has exited, or is wrongly presumed dead: the
\* call itself only looks at the status.
MarkUnknown(i) ==
    /\ Recovery /\ status[i] = "dispatching"
    /\ \/ (\A p \in Procs : ~Owner(p, i)) /\ UNCHANGED env
       \/ (\E p \in Procs : Owner(p, i)) /\ Fault("presumed")
    /\ Write(i, "outcome_unknown")
    /\ UNCHANGED <<resolved, local, target>>

Tick ==
    /\ now < MaxTime
    /\ now' = now + 1
    /\ requests' = {r \in requests :
                       Lingers(r, now + 1) \/ \E p \in Procs : Awaits(p, r)}
    /\ UNCHANGED <<ledger, local, count, keptUntil, faults, crashes>>

-----------------------------------------------------------------------------
Callers ==
    \E i \in Ids :
        \/ \E c \in Contracts : Submit(i, c)
        \/ Cancel(i)
        \/ \E s \in Resolutions : Resolve(i, s)
        \/ MarkUnknown(i)

\* The steps process p takes by itself.
Step(p) ==
    \/ p \in Workers /\ ClaimDue(p)
    \/ p \in Reconcilers /\ (List(p) \/ Get(p))
    \/ BeginDispatch(p)
    \/ StartAttempt(p)
    \/ Send(p)
    \/ Settle(p)
    \/ BeginProbe(p)
    \/ Probe(p)
    \/ Conclude(p)
    \/ Refused(p)

Mishap(p) ==
    \/ AdapterFactoryFails(p)
    \/ StoreFails(p)
    \/ ProbeFails(p)
    \/ Timeout(p)
    \/ Crash(p)

TargetStep ==
    \E r \in requests :
        Commit(r) \/ CommitUnconfirmed(r) \/ Reject(r) \/ Drop(r)

Next ==
    \/ Callers
    \/ \E p \in Procs : Step(p) \/ Mishap(p) \/ Restart(p)
    \/ \E h \in Handlers, i \in Ids : HandlerGet(h, i)
    \/ TargetStep
    \/ Tick

Spec == Init /\ [][Next]_vars

-----------------------------------------------------------------------------
(* Fairness.  An event loop runs its next step (asyncio.run in cli.py), an *)
(* unanswered request is handled in the end and the clock goes on.  Nothing *)
(* makes a fault, a crash, an API call, a recovery or the restart of a      *)
(* process happen.                                                          *)

Fairness ==
    /\ \A p \in Procs : WF_vars(Step(p))
    /\ WF_vars(\E r \in requests : Commit(r))
    /\ WF_vars(Tick)

FairSpec == Spec /\ Fairness

-----------------------------------------------------------------------------
(* Properties *)

\* p is at work on i, or is a worker that has i in its claimed batch, and the
\* store would still accept p's version.
Holds(p, i) ==
    \/ Owner(p, i)
    \/ /\ p \in Workers /\ (eff[p] = i \/ i \in todo[p])
       /\ ver[p][i] = version[i]

\* Fencing (the CAS of transition and start_attempt): however leases run out
\* and paused workers wake up, at most one process can still write what it
\* learned about an effect, and the ledger then shows the edge it took.
Fenced ==
    \A i \in Ids, p \in Procs :
        /\ \A q \in Procs : Holds(p, i) /\ Holds(q, i) => p = q
        /\ Owner(p, i) =>
              status[i] = IF pc[p] \in Dispatching THEN "dispatching"
                                                  ELSE "reconciling"

\* "no broker-issued duplicate" (README, class unsafe): in every environment,
\* zombies and late deliveries included, an unsafe effect is attempted and
\* performed at most once.
UnsafeAtMostOnce ==
    \A i \in Ids :
        status[i] # "absent" /\ contract[i].safety = "unsafe"
            => attempts[i] <= 1 /\ count[i] <= 1

\* The worker "records DISPATCHING and an attempt row before adapter I/O":
\* what the target did or may still do is covered by recorded attempts.
WriteAhead ==
    \A i \in Ids :
        count[i] + Cardinality({r \in requests : r.id = i}) <= attempts[i]

\* SUCCEEDED is written by the broker only on evidence that is true: unless
\* an operator decided it, the target has performed the effect.
NoFalseSuccess ==
    \A i \in Ids :
        status[i] = "succeeded" /\ i \notin resolved => count[i] > 0

\* The guarantee table of the README: one observable effect while the
\* class's contract holds.
NoDuplicate == \A i \in Ids : count[i] <= 1

\* A terminal failure or a cancellation the broker wrote means the target has
\* not performed the effect and nothing on its way could (for idempotent
\* effects see RetryableIsProven).
NoFalseFailure ==
    \A i \in Ids :
        /\ status[i] \in {"failed_final", "cancelled"} /\ i \notin resolved
        /\ contract[i].safety # "idempotent"
        => count[i] = 0 /\ \A r \in requests : r.id # i

\* While callers and their requests live and die together, no two requests
\* of one effect are under way at once, whatever workers, reconcilers and API
\* sessions do.
SingleFlight == \A r, s \in requests : r.id = s.id => r = s

\* A new attempt on an effect whose target cannot deduplicate starts only when
\* every earlier attempt is known not to have committed (statemachine.py: a
\* blind retry is "exactly the bug the whole project exists to prevent").
NoBlindRetry ==
    [][\A i \in Ids :
          attempts'[i] > attempts[i] /\ contract[i].safety # "idempotent"
              => count[i] = 0 /\ \A r \in requests : r.id # i]_vars

\* The worker's retry limit bounds the attempts of a transactional effect,
\* across workers, crashes and API reconciliations.
RetryBudget ==
    \A i \in Ids :
        status[i] # "absent" /\ contract[i].safety = "transactional"
            => attempts[i] <= 1 \/ attempts[i] <= contract[i].retry_limit

\* DISPATCHING or RECONCILING, and nobody whose next write the store accepts.
Orphaned(i) ==
    status[i] \in {"dispatching", "reconciling"} /\ \A p \in Procs : ~Owner(p, i)

\* Where nothing catches an exception.  The worker's try covers the adapter and
\* the write of SUCCEEDED, not start_attempt and not its own except clauses.
Uncaught(p) ==
    (Dispatching \cup Probing)
        \ (IF p \in Workers THEN {"send", "wait", "committed"} ELSE {"wait"})

\* An effect in work loses its process only when that process itself dies, or
\* meets a failing store, adapter or probe where nothing catches it: never by a
\* conflict, by another worker, loop, session, caller or operator, by the
\* clock, or by a failure inside the worker's try.
OnlyFailuresOrphan ==
    [][\A i \in Ids :
          Orphaned(i)' /\ ~Orphaned(i) =>
              \E p \in Procs :
                  /\ Owner(p, i) /\ pc'[p] \in {"idle", "stopped"}
                  /\ \/ crashes' > crashes
                     \/ faults' > faults /\ pc[p] \in Uncaught(p)]_vars

\* A claim whose lease ends after the clock does: the bound hides the rest.
BeyondHorizon(i) == now = MaxTime /\ lease[i] > now

\* The loops that would take i next have all ended, and the package starts none
\* again; or nobody lists i, an orphan or an unknown effect of another tenant.
NobodyLeft(i) ==
    \/ status[i] \in ClaimableStatuses /\ \A w \in Workers : pc[w] = "stopped"
    \/ /\ status[i] = "outcome_unknown"
       /\ i \in ServedIds => \A r \in Reconcilers : pc[r] = "stopped"
    \/ Orphaned(i)

\* Every accepted effect ends or reaches an operator ("the unknown-outcome
\* resolution loop"), however dispatches, probes, store calls and processes
\* fail, as long as the loop it waits for is alive: no effect is lost to a
\* conflict, an abandoned batch, a lease or a retry.
Resolves ==
    \A i \in Ids :
        status[i] \notin {"absent", "manual_review"} \cup TerminalStatuses
            ~> \/ status[i] \in TerminalStatuses \cup {"manual_review"}
               \/ NobodyLeft(i)
               \/ BeyondHorizon(i)

-----------------------------------------------------------------------------
(* Refinement *)

\* What the ledger tells the caller of effect i.  That an idempotent effect
\* failed or was cancelled tells nothing: an earlier attempt may have committed
\* (RetryableIsProven).
Verdict(i) ==
    IF i \in resolved THEN "decided"
    ELSE CASE status[i] = "absent" -> "none"
           [] status[i] = "succeeded" -> "succeeded"
           [] status[i] = "manual_review" -> "human"
           [] status[i] \in {"failed_final", "cancelled"} ->
                  IF contract[i].safety = "idempotent" THEN "human" ELSE "void"
           [] OTHER -> "open"

Promise == INSTANCE EffectPromise
               WITH verdict <- [i \in Ids |-> Verdict(i)], performed <- count

\* The broker with its workers, reconcilers and API sessions implements the
\* promise made to the caller.
KeepsPromise == Promise!PromiseSpec
=============================================================================
