---------------------------- MODULE PostgresStore ----------------------------
(***************************************************************************)
(* The Postgres store (store/postgres.py): the calls of its clients as     *)
(* transactions at READ COMMITTED, one action per SQL statement.  A        *)
(* statement sees what was committed when it ran and the transaction's own *)
(* writes; UPDATE, SELECT FOR UPDATE and a conflicting INSERT wait for the *)
(* transaction that is in their way and then look again.  Any transaction  *)
(* may fail before its commit, and is rolled back.                         *)
(***************************************************************************)
EXTENDS EffectModel, FiniteSets, FiniteSetsExt, Sequences

CONSTANTS
    Clients,        \* callers of the store, one transaction each at a time
    Effects,        \* effect ids a caller may draw (uuid4)
    Tenants,
    OperationKeys,
    Digests,        \* request hashes
    Targets,        \* statuses callers ask a transition to
    NoRow,          \* no row with that id
    NoEffect,       \* no effect in hand
    Limit,          \* batch size of a claim
    LeaseFor,       \* length of a claim's lease, in ticks
    MaxTime,        \* bound: ticks of the clock
    MaxVersion,     \* bound: version of a row callers still write to
    MaxAttempts     \* bound: attempt rows of an effect

ASSUME StoreAssumption ==
    /\ NoRow \notin [key : Tenants \X OperationKeys, digest : Digests,
                     status : EffectStatus, version : Nat, lease : Nat]
    /\ NoEffect \notin Effects
    /\ Targets \subseteq EffectStatus
    /\ Limit \in Nat \ {0} /\ LeaseFor \in Nat \ {0}
    /\ MaxTime \in Nat /\ MaxVersion \in Nat /\ MaxAttempts \in Nat

Keys == Tenants \X OperationKeys

VARIABLES
    now,        \* the clock of every caller
    tenants,    \* committed rows of the tenants table
    intents,    \* committed rows of effect_intents
    attempts,   \* committed rows of effect_attempts
    events,     \* committed rows of effect_events
    receipts,   \* effects with a committed row in effect_receipts
    pc,         \* the next statement of each client
    call,       \* the arguments of its call
    mem,        \* what it has read
    locks,      \* the intent rows it has locked
    tx          \* what its transaction has written

committed == <<tenants, intents, attempts, events, receipts>>
session == <<pc, call, mem, locks, tx>>
vars == <<now, committed, session>>

Ledger == INSTANCE EffectLedger WITH Times <- 0..MaxTime

-----------------------------------------------------------------------------
(* Types *)

Call ==
    [op : {"none"}]
      \cup [op : {"reserve"}, key : Keys, digest : Digests, effect : Effects]
      \cup [op : {"claim_due"}, now : Nat]
      \cup [op : {"start_attempt"}, effect : Effects, version : Nat]
      \cup [op : {"transition"}, effect : Effects, version : Nat,
            target : EffectStatus]

\* effect: in hand; number: next sequence or ordinal; status: as read;
\* rows: still to visit by the claim's scan; batch: locked, still to update.
Memory ==
    [effect : Effects \cup {NoEffect}, number : Nat,
     status : EffectStatus \cup {"absent"},
     rows : SUBSET Effects, batch : SUBSET Effects]

Statements ==
    {"idle", "tenant", "insert", "existing", "scan", "lock", "claim",
     "select", "count", "attempt", "read", "update", "max", "event",
     "receipt", "commit",
     "replayed", "conflict",  \* the answer of a reservation of a taken key
     "broken"}                \* a constraint failed that never should

TypeOK ==
    /\ now \in 0..MaxTime
    /\ tenants \subseteq Tenants
    /\ Ledger!LedgerType
    /\ receipts \subseteq Effects
    /\ pc \in [Clients -> Statements]
    /\ \A c \in Clients :
        /\ call[c] \in Call /\ mem[c] \in Memory
        /\ locks[c] \subseteq Effects
        /\ tx[c].tenants \subseteq Tenants
        /\ DOMAIN tx[c].intents \subseteq locks[c]
        /\ \A e \in DOMAIN tx[c].intents : tx[c].intents[e] \in Ledger!Row
        /\ tx[c].attempts \subseteq Effects \X Ledger!Attempt
        /\ tx[c].events \subseteq Effects \X Ledger!Event
        /\ tx[c].receipts \subseteq Effects

NoCall == [op |-> "none"]
Fresh == [effect |-> NoEffect, number |-> 0, status |-> "absent",
          rows |-> {}, batch |-> {}]
Nothing == [tenants |-> {}, intents |-> <<>>, attempts |-> {}, events |-> {},
            receipts |-> {}]

\* Tenants may be on record (name, api_key_hash) before their first effect.
Init ==
    /\ now = 0
    /\ tenants \in SUBSET Tenants
    /\ Ledger!LedgerInit
    /\ receipts = {}
    /\ pc = [c \in Clients |-> "idle"]
    /\ call = [c \in Clients |-> NoCall]
    /\ mem = [c \in Clients |-> Fresh]
    /\ locks = [c \in Clients |-> {}]
    /\ tx = [c \in Clients |-> Nothing]

-----------------------------------------------------------------------------
(* Transactions *)

Goto(c, l) == pc' = [pc EXCEPT ![c] = l]

Begin(c, args, e, l) ==
    /\ pc[c] = "idle"
    /\ call' = [call EXCEPT ![c] = args]
    /\ mem' = [mem EXCEPT ![c].effect = e]
    /\ Goto(c, l)
    /\ UNCHANGED <<now, committed, locks, tx>>

\* The transaction is over: its locks are free, its writes gone or committed.
End(c) ==
    /\ Goto(c, "idle")
    /\ call' = [call EXCEPT ![c] = NoCall]
    /\ mem' = [mem EXCEPT ![c] = Fresh]
    /\ locks' = [locks EXCEPT ![c] = {}]
    /\ tx' = [tx EXCEPT ![c] = Nothing]

Rollback(c) == End(c) /\ UNCHANGED <<now, committed>>

\* The row of e as c's statements see it.
View(c, e) == IF e \in DOMAIN tx[c].intents THEN tx[c].intents[e]
                                            ELSE intents[e]

\* The rows of a table of pairs that belong to e.
Of(pairs, e) == {x[2] : x \in {y \in pairs : y[1] = e}}

Trail(c, e) == events[e] \cup Of(tx[c].events, e)

Others(c) == Clients \ {c}

Unlocked(c, e) == \A d \in Others(c) : e \notin locks[d]

Clashes(trail, n) == \E ev \in trail : ev.sequence = n

\* The open transaction of d is in the way of c's next statement: it holds a row
\* c is to lock, or has inserted what c's unique constraint must not see twice.
Blocks(d, c) ==
    LET e == mem[c].effect
    IN  \/ pc[c] = "tenant" /\ call[c].key[1] \in tx[d].tenants
        \/ /\ pc[c] = "insert"
           /\ \E f \in DOMAIN tx[d].intents :
                 intents[f] = NoRow /\ tx[d].intents[f].key = call[c].key
        \/ pc[c] \in {"select", "update"} /\ e \in locks[d]
        \/ pc[c] = "claim" /\ mem[c].batch \cap locks[d] # {}
        \/ /\ pc[c] = "attempt"
           /\ \E a \in Of(tx[d].attempts, e) : a.ordinal = mem[c].number
        \/ pc[c] = "event" /\ Clashes(Of(tx[d].events, e), mem[c].number)
        \/ pc[c] = "receipt" /\ e \in tx[d].receipts

Waits(c) == \E d \in Others(c) : Blocks(d, c)

Lock(c, e) ==
    /\ Unlocked(c, e)
    /\ locks' = [locks EXCEPT ![c] = @ \cup {e}]

\* c writes the row of e, which it has locked or locks with this statement.
Put(c, e, row) ==
    tx' = [tx EXCEPT ![c].intents =
              [f \in DOMAIN @ \cup {e} |-> IF f = e THEN row ELSE @[f]]]

\* Only reads: neither locks nor writes.
Reads == UNCHANGED <<now, committed, call, locks, tx>>

-----------------------------------------------------------------------------
(* reserve *)

BeginReserve(c, k, d, e) ==
    /\ intents[e] = NoRow
    /\ \A b \in Others(c) : call[b].op = "reserve" => call[b].effect # e
    /\ Begin(c, [op |-> "reserve", key |-> k, digest |-> d, effect |-> e],
             e, "tenant")

\* ON CONFLICT DO NOTHING, after whoever is inserting the same tenant.
InsertTenant(c) ==
    LET t == call[c].key[1]
    IN  /\ pc[c] = "tenant"
        /\ ~Waits(c)
        /\ tx' = [tx EXCEPT ![c].tenants = {t} \ tenants]
        /\ Goto(c, "insert")
        /\ UNCHANGED <<now, committed, call, mem, locks>>

NewRow(c) == [key |-> call[c].key, digest |-> call[c].digest,
              status |-> "prepared", version |-> 0, lease |-> 0]

Holding(k) == {e \in Ledger!Reserved : intents[e].key = k}

\* Mutant: looks the key up instead of relying on its unique constraint.
InsertIntent_Unchecked(c) ==
    /\ pc[c] = "insert"
    /\ \/ /\ Holding(call[c].key) = {}
          /\ Put(c, mem[c].effect, NewRow(c))
          /\ Lock(c, mem[c].effect)
          /\ Goto(c, "max")
       \/ /\ Holding(call[c].key) # {}
          /\ Goto(c, "existing")
          /\ UNCHANGED <<locks, tx>>
    /\ UNCHANGED <<now, committed, call, mem>>

\* ON CONFLICT DO NOTHING on the identity, after whoever is inserting it.
InsertIntent(c) ==
    /\ pc[c] = "insert"
    /\ ~Waits(c)
    /\ \/ /\ Holding(call[c].key) = {}
          /\ Put(c, mem[c].effect, NewRow(c))
          /\ Lock(c, mem[c].effect)
          /\ Goto(c, "max")
       \/ /\ Holding(call[c].key) # {}
          /\ Goto(c, "existing")
          /\ UNCHANGED <<locks, tx>>
    /\ UNCHANGED <<now, committed, call, mem>>

\* The row that was in the way: it must still be there.
SelectExisting(c) ==
    /\ pc[c] = "existing"
    /\ IF Holding(call[c].key) = {} THEN Goto(c, "broken") /\ UNCHANGED mem
       ELSE \E e \in Holding(call[c].key) :
              /\ mem' = [mem EXCEPT ![c].effect = e]
              /\ Goto(c, IF intents[e].digest = call[c].digest THEN "replayed"
                                                              ELSE "conflict")
    /\ Reads

\* Reservation(replayed) or PayloadConflictError.
Answer(c) ==
    /\ pc[c] \in {"replayed", "conflict"}
    /\ Rollback(c)

-----------------------------------------------------------------------------
(* claim_due *)

BeginClaim(c) == Begin(c, [op |-> "claim_due", now |-> now], NoEffect, "scan")

\* Postgres takes a lease over strictly after its end.
Due(r, t) == r.status \in ClaimableStatuses /\ (r.lease = 0 \/ r.lease < t)

\* The rows that qualify when the SELECT begins.
Scan(c) ==
    /\ pc[c] = "scan"
    /\ mem' = [mem EXCEPT ![c].rows =
                  {e \in Ledger!Reserved : Due(intents[e], call[c].now)}]
    /\ Goto(c, "lock")
    /\ Reads

\* Mutant: the row is not looked at again once it is locked.
LockRow_Stale(c, e) ==
    /\ pc[c] = "lock" /\ e \in mem[c].rows /\ Cardinality(mem[c].batch) < Limit
    /\ IF Unlocked(c, e)
       THEN /\ mem' = [mem EXCEPT ![c].rows = @ \ {e}, ![c].batch = @ \cup {e}]
            /\ locks' = [locks EXCEPT ![c] = @ \cup {e}]
       ELSE /\ mem' = [mem EXCEPT ![c].rows = @ \ {e}]
            /\ UNCHANGED locks
    /\ UNCHANGED <<now, committed, pc, call, tx>>

\* Mutant: the SELECT leaves the rows unlocked to the UPDATE.
LockRow_Later(c, e) ==
    /\ pc[c] = "lock" /\ e \in mem[c].rows /\ Cardinality(mem[c].batch) < Limit
    /\ IF Unlocked(c, e) /\ Due(intents[e], call[c].now)
       THEN mem' = [mem EXCEPT ![c].rows = @ \ {e}, ![c].batch = @ \cup {e}]
       ELSE mem' = [mem EXCEPT ![c].rows = @ \ {e}]
    /\ UNCHANGED <<now, committed, pc, call, locks, tx>>

\* FOR UPDATE SKIP LOCKED: a row another transaction has locked is skipped, and
\* so is one that, as it is now, does not qualify any more.
LockRow(c, e) ==
    /\ pc[c] = "lock" /\ e \in mem[c].rows /\ Cardinality(mem[c].batch) < Limit
    /\ IF Unlocked(c, e) /\ Due(intents[e], call[c].now)
       THEN /\ mem' = [mem EXCEPT ![c].rows = @ \ {e}, ![c].batch = @ \cup {e}]
            /\ locks' = [locks EXCEPT ![c] = @ \cup {e}]
       ELSE /\ mem' = [mem EXCEPT ![c].rows = @ \ {e}]
            /\ UNCHANGED locks
    /\ UNCHANGED <<now, committed, pc, call, tx>>

EndScan(c) ==
    /\ pc[c] = "lock"
    /\ mem[c].rows = {} \/ Cardinality(mem[c].batch) = Limit
    /\ Goto(c, IF mem[c].batch = {} THEN "commit" ELSE "claim")
    /\ UNCHANGED mem
    /\ Reads

Claimed(r, t) == [r EXCEPT !.version = @ + 1, !.lease = t + LeaseFor]

UpdateClaimed(c, e) ==
    /\ pc[c] = "claim" /\ e \in mem[c].batch
    /\ Lock(c, e)
    /\ Put(c, e, Claimed(View(c, e), call[c].now))
    /\ mem' = [mem EXCEPT ![c].effect = e, ![c].batch = @ \ {e}]
    /\ Goto(c, "max")
    /\ UNCHANGED <<now, committed, call>>

-----------------------------------------------------------------------------
(* start_attempt *)

\* Versions callers hold: the one their own DISPATCHING transition returned.
Dispatched(e) ==
    {ev.version : ev \in {m \in Ledger!Moves(events[e]) :
                             m.data[2] = "dispatching"}}

BeginAttempt(c, e, v) ==
    /\ v \in Dispatched(e) /\ Cardinality(attempts[e]) < MaxAttempts
    /\ Begin(c, [op |-> "start_attempt", effect |-> e, version |-> v],
             e, "select")

\* Mutant: the version is checked without locking the row.
SelectForUpdate_Unlocked(c) ==
    /\ pc[c] = "select"
    /\ \/ /\ intents[mem[c].effect].version = call[c].version
          /\ Goto(c, "count")
          /\ UNCHANGED <<now, committed, call, mem, locks, tx>>
       \/ /\ intents[mem[c].effect].version # call[c].version
          /\ Rollback(c)

SelectForUpdate(c) ==
    /\ pc[c] = "select"
    /\ ~Waits(c)
    /\ \/ /\ intents[mem[c].effect].version = call[c].version
          /\ Lock(c, mem[c].effect)
          /\ Goto(c, "count")
          /\ UNCHANGED <<now, committed, call, mem, tx>>
       \/ /\ intents[mem[c].effect].version # call[c].version
          /\ Rollback(c)

CountAttempts(c) ==
    /\ pc[c] = "count"
    /\ mem' = [mem EXCEPT ![c].number =
                  Cardinality(attempts[mem[c].effect]) + 1]
    /\ Goto(c, "attempt")
    /\ Reads

Taken(c) == \E a \in attempts[mem[c].effect] : a.ordinal = mem[c].number

InsertAttempt(c) ==
    /\ pc[c] = "attempt"
    /\ ~Waits(c)
    /\ Goto(c, IF Taken(c) THEN "broken" ELSE "max")
    /\ tx' = [tx EXCEPT ![c].attempts = @ \cup
          {<<mem[c].effect, [ordinal |-> mem[c].number,
                             version |-> call[c].version]>>}]
    /\ UNCHANGED <<now, committed, call, mem, locks>>

-----------------------------------------------------------------------------
(* transition *)

BeginTransition(c, e, v, target) ==
    /\ e \in Ledger!Reserved /\ v \in 0..intents[e].version /\ v < MaxVersion
    /\ Begin(c, [op |-> "transition", effect |-> e, version |-> v,
                 target |-> target], e, "read")

\* The version and the edge are checked on a row nobody has locked.
Read(c) ==
    LET r == intents[mem[c].effect]
    IN  /\ pc[c] = "read"
        /\ \/ /\ r.version = call[c].version
              /\ IsAllowed(r.status, call[c].target)
              /\ mem' = [mem EXCEPT ![c].status = r.status]
              /\ Goto(c, "update")
              /\ Reads
           \/ /\ \/ r.version # call[c].version
                 \/ ~IsAllowed(r.status, call[c].target)
              /\ Rollback(c)

Moved(r, target) ==
    [r EXCEPT !.status = target, !.version = @ + 1, !.lease = 0]

\* Mutant: the UPDATE has no version in its WHERE.
Update_Unfenced(c) ==
    LET e == mem[c].effect
    IN  /\ pc[c] = "update"
        /\ Lock(c, e)
        /\ Put(c, e, Moved(intents[e], call[c].target))
        /\ Goto(c, "max")
        /\ UNCHANGED <<now, committed, call, mem>>

\* UPDATE ... WHERE version = expected: waits for the row, then looks again.
Update(c) ==
    LET e == mem[c].effect
    IN  /\ pc[c] = "update"
        /\ ~Waits(c)
        /\ \/ /\ intents[e].version = call[c].version
              /\ Lock(c, e)
              /\ Put(c, e, Moved(intents[e], call[c].target))
              /\ Goto(c, "max")
              /\ UNCHANGED <<now, committed, call, mem>>
           \/ /\ intents[e].version # call[c].version
              /\ Rollback(c)

-----------------------------------------------------------------------------
(* _append_event, _insert_receipt and the end of a transaction *)

\* Mutant: the next number is the largest one.
SelectMax_NotNext(c) ==
    /\ pc[c] = "max"
    /\ mem' = [mem EXCEPT ![c].number =
          Max({0} \cup {ev.sequence : ev \in Trail(c, mem[c].effect)})]
    /\ Goto(c, "event")
    /\ Reads

\* SELECT coalesce(max(sequence), 0) + 1.
SelectMax(c) ==
    /\ pc[c] = "max"
    /\ mem' = [mem EXCEPT ![c].number =
          Max({0} \cup {ev.sequence : ev \in Trail(c, mem[c].effect)}) + 1]
    /\ Goto(c, "event")
    /\ Reads

\* What c's call writes to the trail of the effect in hand.
EventOf(c) ==
    LET type == CASE call[c].op = "reserve" -> "reserved"
                  [] call[c].op = "claim_due" -> "claimed"
                  [] call[c].op = "start_attempt" -> "attempt_started"
                  [] OTHER -> "transition"
    IN  [sequence |-> mem[c].number, type |-> type,
         version |-> View(c, mem[c].effect).version,
         data |-> CASE type = "reserved" -> <<"prepared">>
                    [] type = "transition" ->
                           <<mem[c].status, call[c].target>>
                    [] OTHER -> <<>>]

AfterEvent(c) ==
    IF call[c].op = "transition" /\ call[c].target = "succeeded"
    THEN "receipt"
    ELSE IF mem[c].batch # {} THEN "claim" ELSE "commit"

\* The primary key makes it wait for an event with the same number.
InsertEvent(c) ==
    LET e == mem[c].effect
        n == mem[c].number
    IN  /\ pc[c] = "event"
        /\ ~Waits(c)
        /\ Goto(c, IF Clashes(Trail(c, e), n) THEN "broken" ELSE AfterEvent(c))
        /\ tx' = [tx EXCEPT ![c].events = @ \cup {<<e, EventOf(c)>>}]
        /\ UNCHANGED <<now, committed, call, mem, locks>>

InsertReceipt(c) ==
    LET e == mem[c].effect
    IN  /\ pc[c] = "receipt"
        /\ ~Waits(c)
        /\ Goto(c, IF e \in receipts THEN "broken" ELSE "commit")
        /\ tx' = [tx EXCEPT ![c].receipts = @ \cup {e}]
        /\ UNCHANGED <<now, committed, call, mem, locks>>

\* Mutant: the receipt is left to a later transaction.
Commit_WithoutReceipt(c) ==
    /\ pc[c] = "commit"
    /\ tenants' = tenants \cup tx[c].tenants
    /\ intents' = [e \in Effects |-> View(c, e)]
    /\ attempts' = [e \in Effects |-> attempts[e] \cup Of(tx[c].attempts, e)]
    /\ events' = [e \in Effects |-> Trail(c, e)]
    /\ End(c)
    /\ UNCHANGED <<now, receipts>>

\* Whether or not the caller hears of it.
Commit(c) ==
    /\ pc[c] = "commit"
    /\ tenants' = tenants \cup tx[c].tenants
    /\ intents' = [e \in Effects |-> View(c, e)]
    /\ attempts' = [e \in Effects |-> attempts[e] \cup Of(tx[c].attempts, e)]
    /\ events' = [e \in Effects |-> Trail(c, e)]
    /\ receipts' = receipts \cup tx[c].receipts
    /\ End(c)
    /\ UNCHANGED now

\* Mutant: the connection goes back to its pool inside the transaction.
Fail_KeepsLocks(c) ==
    /\ pc[c] # "idle"
    /\ Goto(c, "idle")
    /\ call' = [call EXCEPT ![c] = NoCall]
    /\ mem' = [mem EXCEPT ![c] = Fresh]
    /\ UNCHANGED <<now, committed, locks, tx>>

\* The client dies or loses its connection before the commit.
Fail(c) == pc[c] # "idle" /\ Rollback(c)

-----------------------------------------------------------------------------
Tick ==
    /\ now < MaxTime
    /\ now' = now + 1
    /\ UNCHANGED <<committed, session>>

BeginCall(c) ==
    \/ \E k \in Keys, d \in Digests, e \in Effects : BeginReserve(c, k, d, e)
    \/ BeginClaim(c)
    \/ \E e \in Effects :
         \/ \E v \in 0..MaxVersion : BeginAttempt(c, e, v)
         \/ \E v \in 0..MaxVersion, t \in Targets : BeginTransition(c, e, v, t)

Statement(c) ==
    \/ InsertTenant(c) \/ InsertIntent(c) \/ SelectExisting(c) \/ Answer(c)
    \/ Scan(c) \/ EndScan(c)
    \/ \E e \in Effects : LockRow(c, e) \/ UpdateClaimed(c, e)
    \/ SelectForUpdate(c) \/ CountAttempts(c) \/ InsertAttempt(c)
    \/ Read(c) \/ Update(c)
    \/ SelectMax(c) \/ InsertEvent(c) \/ InsertReceipt(c) \/ Commit(c)

Next ==
    \/ \E c \in Clients : BeginCall(c) \/ Statement(c) \/ Fail(c)
    \/ Tick

Spec == Init /\ [][Next]_vars

-----------------------------------------------------------------------------
(* Properties *)

\* The constraints never fail and a row that was in the way is there (uq and pk
\* violations, "disappeared"): the row locks order the reads of MAX and COUNT
\* and the inserts that use them.
NeverBroken == \A c \in Clients : pc[c] # "broken"

\* Every transaction can go on without any of them failing: no two wait for
\* each other, and none waits for locks nobody will release.
NeverStuck ==
    (\E c \in Clients : pc[c] # "idle")
        => ENABLED (\E c \in Clients : Statement(c))

\* Who waits, waits for a transaction at work, and nobody waits for one that
\* waits itself: no circle of transactions, however many there are, and no wait
\* for one that has ended.  A reservation inserts its tenant, its key and its
\* row in this order, and a claim has all its rows before its first UPDATE.
NobodyWaitsInLine ==
    \A c \in Clients : \A d \in Others(c) :
        Blocks(d, c) => pc[d] # "idle" /\ ~Waits(d)

\* The trail is the whole story of an effect: numbered without gaps, each event
\* with the version and the "from" of its moment, and it ends in the row.
TrailTells ==
    \A e \in Ledger!Reserved :
        /\ {ev.sequence : ev \in events[e]} = 1..Cardinality(events[e])
        /\ \A ev \in events[e] :
              /\ ev.version = Ledger!VersionTold(Ledger!Upto(events[e], ev.sequence))
              /\ ev.type = "transition" => ev.data[1] =
                    Ledger!StatusTold(Ledger!Upto(events[e], ev.sequence - 1))
        /\ intents[e].version = Ledger!VersionTold(events[e])
        /\ intents[e].status = Ledger!StatusTold(events[e])

\* The receipts table says what the in-memory and SQLite stores read in the
\* trail: a receipt for each success, in the same commit, and for nothing else.
ReceiptsAgree ==
    \A e \in Effects :
        /\ e \in receipts <=> Ledger!Receipted(e)
        /\ e \in receipts => intents[e].status = "succeeded"

\* "Reusing an operation key with a different hash is a conflict": one intent
\* per key, and a reservation is replayed only for the payload on record.
ReservationsBind ==
    /\ \A e, f \in Ledger!Reserved : intents[e].key = intents[f].key => e = f
    /\ \A c \in Clients :
          /\ pc[c] = "replayed" => intents[mem[c].effect].digest = call[c].digest
          /\ pc[c] = "conflict" => intents[mem[c].effect].digest # call[c].digest

\* The store implements the atomic ledger (no lost update, no claim of a leased
\* or moved row, no transition off the graph, each call all or nothing).
IsAtomicLedger == Ledger!LedgerSpec
=============================================================================
