----------------------------- MODULE EffectLedger -----------------------------
(***************************************************************************)
(* What every store promises (store/base.py): each call is one atomic      *)
(* step on the intents, the attempt rows and the append-only trail of      *)
(* events.  The in-memory store (under its lock) and the SQLite store      *)
(* (BEGIN IMMEDIATE) are this by construction; PostgresStore implements    *)
(* it with statements of concurrent transactions.                          *)
(***************************************************************************)
EXTENDS EffectModel, FiniteSets, Sequences

CONSTANTS
    Effects,    \* effect ids that may be generated
    Keys,       \* identities: a tenant with an operation key
    Digests,    \* request hashes
    NoRow,      \* no row with that id
    Limit,      \* batch size of a claim
    LeaseFor,   \* length of a lease
    Times       \* readings of the clock

VARIABLES
    intents,    \* the row of each effect, or NoRow
    attempts,   \* attempt rows of each effect
    events      \* trail of each effect

Row ==
    [key : Keys, digest : Digests, status : EffectStatus, version : Nat,
     lease : Nat]   \* 0: no lease

EventTypes == {"reserved", "claimed", "attempt_started", "transition"}

Attempt == [ordinal : Nat \ {0}, version : Nat]

\* data: the status of a reservation, the two ends of a transition.
Event ==
    [sequence : Nat \ {0}, type : EventTypes, version : Nat,
     data : Seq(EffectStatus)]

LedgerType ==
    /\ intents \in [Effects -> Row \cup {NoRow}]
    /\ \A e \in Effects : /\ attempts[e] \subseteq Attempt
                          /\ events[e] \subseteq Event

LedgerInit ==
    /\ intents = [e \in Effects |-> NoRow]
    /\ attempts = [e \in Effects |-> {}]
    /\ events = [e \in Effects |-> {}]

Reserved == {e \in Effects : intents[e] # NoRow}

\* The trail of e with one more event.
Appended(e, type, version, data) ==
    events[e] \cup {[sequence |-> Cardinality(events[e]) + 1, type |-> type,
                     version |-> version, data |-> data]}

Recorded(e, type, version, data) ==
    events' = [events EXCEPT ![e] = Appended(e, type, version, data)]

Reserve(e, k, d) ==
    /\ intents[e] = NoRow
    /\ \A f \in Reserved : intents[f].key # k
    /\ intents' = [intents EXCEPT ![e] =
          [key |-> k, digest |-> d, status |-> "prepared", version |-> 0,
           lease |-> 0]]
    /\ Recorded(e, "reserved", 0, <<"prepared">>)
    /\ UNCHANGED attempts

Due(r, now) == r.status \in ClaimableStatuses /\ r.lease <= now

Claimed(r, now) == [r EXCEPT !.version = @ + 1, !.lease = now + LeaseFor]

ClaimDue(S, now) ==
    /\ S # {} /\ Cardinality(S) <= Limit
    /\ \A e \in S : Due(intents[e], now)
    /\ intents' = [e \in Effects |-> IF e \in S THEN Claimed(intents[e], now)
                                                ELSE intents[e]]
    /\ events' = [e \in Effects |->
          IF e \in S
          THEN Appended(e, "claimed", intents[e].version + 1, <<>>)
          ELSE events[e]]
    /\ UNCHANGED attempts

StartAttempt(e) ==
    /\ attempts' = [attempts EXCEPT ![e] = @ \cup
          {[ordinal |-> Cardinality(@) + 1, version |-> intents[e].version]}]
    /\ Recorded(e, "attempt_started", intents[e].version, <<>>)
    /\ UNCHANGED intents

\* The in-memory store keeps the lease of a row that becomes claimable again.
Moved(r, target) ==
    [r EXCEPT !.status = target, !.version = @ + 1,
              !.lease = IF target \in ClaimableStatuses THEN @ ELSE 0]

Transition(e, target) ==
    /\ IsAllowed(intents[e].status, target)
    /\ intents' = [intents EXCEPT ![e] = Moved(@, target)]
    /\ Recorded(e, "transition", intents[e].version + 1,
              <<intents[e].status, target>>)
    /\ UNCHANGED attempts

LedgerNext ==
    \/ \E e \in Effects, k \in Keys, d \in Digests : Reserve(e, k, d)
    \/ \E S \in SUBSET Reserved, now \in Times : ClaimDue(S, now)
    \/ \E e \in Reserved : StartAttempt(e)
    \/ \E e \in Reserved, target \in EffectStatus : Transition(e, target)

LedgerSpec == LedgerInit /\ [][LedgerNext]_<<intents, attempts, events>>

-----------------------------------------------------------------------------
(* What the trail tells of the rows *)

Moves(trail) == {ev \in trail : ev.type = "transition"}

Upto(trail, n) == {ev \in trail : ev.sequence <= n}

\* The status a trail ends in.
StatusTold(trail) ==
    IF Moves(trail) = {} THEN "prepared"
    ELSE (CHOOSE ev \in Moves(trail) :
            \A o \in Moves(trail) : o.sequence <= ev.sequence).data[2]

\* The version a trail ends in: claims and transitions count.
VersionTold(trail) ==
    Cardinality({ev \in trail : ev.type \in {"claimed", "transition"}})

\* A receipt as the in-memory and SQLite stores find it, in the trail.
Receipted(e) == \E ev \in Moves(events[e]) : ev.data[2] = "succeeded"
=============================================================================
