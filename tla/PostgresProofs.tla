---------------------------- MODULE PostgresProofs ----------------------------
(***************************************************************************)
(* The Postgres store for any number of clients, effects, keys and tenants *)
(* and any batch size: the statements of concurrent READ COMMITTED         *)
(* transactions, with their row locks and unique constraints, implement    *)
(* the atomic ledger, and what follows for its rows, trail and receipts.   *)
(*                                                                         *)
(* The first section is about the ledger alone: a row, its attempt rows    *)
(* and its trail, and what one call makes of them.  The second follows     *)
(* what the transaction of a client has written so far, which is a         *)
(* function of the rows it has locked.  The third shows that other         *)
(* clients cannot disturb it, and the fourth that a commit is one step of  *)
(* the ledger and everything else is none.  The last is about who waits    *)
(* for whom.                                                               *)
(***************************************************************************)
EXTENDS PostgresStore, FiniteSetTheorems, TLAPS

-----------------------------------------------------------------------------
(* The ledger *)

\* Sequence numbers run from 1 without gaps or repetitions.
Numbered(T) ==
    /\ IsFiniteSet(T)
    /\ {ev.sequence : ev \in T} = 1..Cardinality(T)
    /\ \A x, y \in T : x.sequence = y.sequence => x = y

\* So do ordinals, of which only the bound matters.
Counted(A) ==
    /\ IsFiniteSet(A)
    /\ \A a \in A : a.ordinal <= Cardinality(A)

\* Each event has the version and the "from" of its moment.
Truthful(T) ==
    \A ev \in T :
        /\ ev.version = Ledger!VersionTold(Ledger!Upto(T, ev.sequence))
        /\ ev.type = "transition" =>
               ev.data[1] = Ledger!StatusTold(Ledger!Upto(T, ev.sequence - 1))

Succeeded(T) == \E ev \in Ledger!Moves(T) : ev.data[2] = "succeeded"

\* A row with its attempt rows and its trail.
Consistent(r, A, T) ==
    /\ r \in Ledger!Row \cup {NoRow}
    /\ A \in SUBSET Ledger!Attempt /\ T \in SUBSET Ledger!Event
    /\ Numbered(T) /\ Truthful(T) /\ Counted(A)
    /\ r = NoRow => T = {} /\ A = {}
    /\ r # NoRow =>
        /\ r.version = Ledger!VersionTold(T)
        /\ r.status = Ledger!StatusTold(T)
        /\ r.lease # 0 => r.status \in ClaimableStatuses
        /\ Succeeded(T) => r.status = "succeeded"

LedgerInv ==
    /\ intents \in [Effects -> Ledger!Row \cup {NoRow}]
    /\ attempts \in [Effects -> SUBSET Ledger!Attempt]
    /\ events \in [Effects -> SUBSET Ledger!Event]
    /\ \A e \in Effects : Consistent(intents[e], attempts[e], events[e])
    /\ \A e, f \in Ledger!Reserved : intents[e].key = intents[f].key => e = f

\* The ledger's copy of the effect model is the store's.
LEMMA LedgerTerms ==
    /\ Ledger!EffectStatus = EffectStatus
    /\ Ledger!ClaimableStatuses = ClaimableStatuses
    /\ \A s, t : Ledger!IsAllowed(s, t) <=> IsAllowed(s, t)
BY DEF Ledger!EffectStatus, EffectStatus, Ledger!ClaimableStatuses,
       ClaimableStatuses, Ledger!IsAllowed, IsAllowed, Ledger!Resolutions,
       Resolutions

LEMMA LedgerCounts == \A S : Ledger!Cardinality(S) = Cardinality(S)
BY Zenon DEF Ledger!Cardinality, Cardinality

LEMMA NoRowIsNone ==
    ASSUME StoreAssumption PROVE NoRow \notin Ledger!Row
BY LedgerTerms DEF StoreAssumption, Ledger!Row, Keys

\* The last move of a trail, which StatusTold looks for.
Last(S) == CHOOSE ev \in S : \A o \in S : o.sequence <= ev.sequence

LEMMA StatusToldIsLast ==
    ASSUME NEW T
    PROVE  Ledger!StatusTold(T) =
               IF Ledger!Moves(T) = {} THEN "prepared"
               ELSE Last(Ledger!Moves(T)).data[2]
BY Zenon DEF Ledger!StatusTold, Last

\* A trail stays numbered when the next event is added.
LEMMA NumberedGrows ==
    ASSUME NEW T \in SUBSET Ledger!Event, Numbered(T),
           NEW ev \in Ledger!Event, ev.sequence = Cardinality(T) + 1
    PROVE  /\ Cardinality(T) \in Nat /\ ev \notin T
           /\ \A x \in T : x.sequence \in 1..Cardinality(T)
           /\ Cardinality(T \cup {ev}) = Cardinality(T) + 1
           /\ Numbered(T \cup {ev})
<1> DEFINE n == Cardinality(T)
           U == T \cup {ev}
<1>1. n \in Nat
    BY FS_CardinalityType DEF Numbered
<1>2. \A x \in T : x.sequence \in 1..n
    BY DEF Numbered
<1>3. ev \notin T
    BY <1>1, <1>2
<1>4. IsFiniteSet(U) /\ Cardinality(U) = n + 1
    BY <1>3, FS_AddElement DEF Numbered
<1>5. {x.sequence : x \in U} = 1..(n + 1)
    <2>1. {x.sequence : x \in U} = {x.sequence : x \in T} \cup {n + 1}
        OBVIOUS
    <2>2. {x.sequence : x \in T} = 1..n
        BY DEF Numbered
    <2>3. (1..n) \cup {n + 1} = 1..(n + 1)
        BY <1>1
    <2> HIDE DEF U, n
    <2> QED BY <2>1, <2>2, <2>3
<1>6. \A x, y \in U : x.sequence = y.sequence => x = y
    BY <1>1, <1>2 DEF Numbered
<1> QED BY <1>1, <1>2, <1>3, <1>4, <1>5, <1>6 DEF Numbered

\* What the trail tells changes with the last event only.
LEMMA ToldGrows ==
    ASSUME NEW T \in SUBSET Ledger!Event, Numbered(T),
           NEW ev \in Ledger!Event, ev.sequence = Cardinality(T) + 1
    PROVE  /\ \A n \in Int : n <= Cardinality(T)
                  => Ledger!Upto(T \cup {ev}, n) = Ledger!Upto(T, n)
           /\ Ledger!Upto(T, Cardinality(T)) = T
           /\ Ledger!Upto(T \cup {ev}, ev.sequence) = T \cup {ev}
           /\ Ledger!VersionTold(T) \in Nat
           /\ Ledger!VersionTold(T \cup {ev}) =
                  IF ev.type \in {"claimed", "transition"}
                  THEN Ledger!VersionTold(T) + 1 ELSE Ledger!VersionTold(T)
           /\ Ledger!StatusTold(T \cup {ev}) =
                  IF ev.type = "transition"
                  THEN ev.data[2] ELSE Ledger!StatusTold(T)
<1> DEFINE U == T \cup {ev}
           Counts(S) == {x \in S : x.type \in {"claimed", "transition"}}
<1>1. /\ Cardinality(T) \in Nat /\ ev \notin T
      /\ \A x \in T : x.sequence \in 1..Cardinality(T)
    BY NumberedGrows
<1>2. \A n \in Int : n <= Cardinality(T) => Ledger!Upto(U, n) = Ledger!Upto(T, n)
    BY <1>1 DEF Ledger!Upto
<1>3. Ledger!Upto(T, Cardinality(T)) = T
    BY <1>1 DEF Ledger!Upto
<1>4. Ledger!Upto(U, ev.sequence) = U
    BY <1>1 DEF Ledger!Upto
<1>5. IsFiniteSet(Counts(T)) /\ Cardinality(Counts(T)) \in Nat
    <2>1. IsFiniteSet(T) /\ Counts(T) \subseteq T
        BY DEF Numbered
    <2> HIDE DEF Counts
    <2> QED BY <2>1, FS_Subset, FS_CardinalityType
<1>6. Cardinality(Counts(U)) =
          IF ev.type \in {"claimed", "transition"}
          THEN Cardinality(Counts(T)) + 1 ELSE Cardinality(Counts(T))
    <2>1. CASE ev.type \in {"claimed", "transition"}
        <3>1. Counts(U) = Counts(T) \cup {ev} /\ ev \notin Counts(T)
            BY <1>1, <2>1
        <3> HIDE DEF Counts
        <3>2. Cardinality(Counts(T) \cup {ev}) = Cardinality(Counts(T)) + 1
            BY <1>5, <3>1, FS_AddElement
        <3> QED BY <2>1, <3>1, <3>2
    <2>2. CASE ev.type \notin {"claimed", "transition"}
        <3>1. Counts(U) = Counts(T)
            BY <2>2
        <3> HIDE DEF Counts
        <3> QED BY <2>2, <3>1
    <2> QED BY <2>1, <2>2
<1>7. Ledger!StatusTold(U) =
          IF ev.type = "transition" THEN ev.data[2] ELSE Ledger!StatusTold(T)
    <2>1. CASE ev.type = "transition"
        <3>1. ev \in Ledger!Moves(U)
            BY <2>1 DEF Ledger!Moves
        <3>2. \A o \in Ledger!Moves(U) : o.sequence <= ev.sequence
            BY <1>1 DEF Ledger!Moves
        <3>3. \A m \in Ledger!Moves(U) : ev.sequence <= m.sequence => m = ev
            BY <1>1 DEF Ledger!Moves
        <3>4. ev = Last(Ledger!Moves(U))
            BY <3>1, <3>2, <3>3 DEF Last
        <3> QED BY <2>1, <3>1, <3>4, StatusToldIsLast
    <2>2. CASE ev.type # "transition"
        <3>1. Ledger!Moves(U) = Ledger!Moves(T)
            BY <2>2 DEF Ledger!Moves
        <3> QED BY <2>2, <3>1, StatusToldIsLast
    <2> QED BY <2>1, <2>2
<1>8. /\ Ledger!VersionTold(T) = Cardinality(Counts(T))
      /\ Ledger!VersionTold(U) = Cardinality(Counts(U))
    BY Zenon, LedgerCounts DEF Ledger!VersionTold
<1> HIDE DEF Counts
<1> QED BY <1>2, <1>3, <1>4, <1>5, <1>6, <1>7, <1>8

\* A truthful trail stays truthful if its next event is.
LEMMA TruthfulGrows ==
    ASSUME NEW T \in SUBSET Ledger!Event, Numbered(T), Truthful(T),
           NEW ev \in Ledger!Event, ev.sequence = Cardinality(T) + 1,
           ev.version = IF ev.type \in {"claimed", "transition"}
                        THEN Ledger!VersionTold(T) + 1 ELSE Ledger!VersionTold(T),
           ev.type = "transition" => ev.data[1] = Ledger!StatusTold(T)
    PROVE  Truthful(T \cup {ev})
<1> DEFINE U == T \cup {ev}
<1>1. /\ Cardinality(T) \in Nat
      /\ \A x \in T : x.sequence \in 1..Cardinality(T)
    BY NumberedGrows
<1>0. /\ \A n \in Int : n <= Cardinality(T)
             => Ledger!Upto(U, n) = Ledger!Upto(T, n)
      /\ Ledger!Upto(T, Cardinality(T)) = T
      /\ Ledger!Upto(U, ev.sequence) = U
      /\ Ledger!VersionTold(U) =
             IF ev.type \in {"claimed", "transition"}
             THEN Ledger!VersionTold(T) + 1 ELSE Ledger!VersionTold(T)
    BY ToldGrows
<1>2. ASSUME NEW x \in T
      PROVE  /\ x.version = Ledger!VersionTold(Ledger!Upto(U, x.sequence))
             /\ x.type = "transition" =>
                    x.data[1] = Ledger!StatusTold(Ledger!Upto(U, x.sequence - 1))
    <2>1. /\ Ledger!Upto(U, x.sequence) = Ledger!Upto(T, x.sequence)
          /\ Ledger!Upto(U, x.sequence - 1) = Ledger!Upto(T, x.sequence - 1)
        <3>1. x.sequence \in Int /\ x.sequence - 1 \in Int
            BY <1>1
        <3> HIDE DEF U
        <3> QED BY <1>1, <1>0, <3>1
    <2> QED BY <2>1 DEF Truthful
<1>3. /\ ev.version = Ledger!VersionTold(Ledger!Upto(U, ev.sequence))
      /\ ev.type = "transition" =>
             ev.data[1] = Ledger!StatusTold(Ledger!Upto(U, ev.sequence - 1))
    <2>1. Ledger!Upto(U, ev.sequence - 1) = T
        BY <1>1, <1>0
    <2> QED BY <2>1, <1>0
<1> QED BY <1>2, <1>3 DEF Truthful

LEMMA RowChanged ==
    ASSUME NEW r \in Ledger!Row, NEW s \in EffectStatus, NEW v \in Nat, NEW l \in Nat
    PROVE  [r EXCEPT !.status = s, !.version = v, !.lease = l] \in Ledger!Row
<1>1. s \in Ledger!EffectStatus
    BY LedgerTerms
<1> QED BY <1>1 DEF Ledger!Row

LEMMA RowLeased ==
    ASSUME NEW r \in Ledger!Row, NEW v \in Nat, NEW l \in Nat
    PROVE  [r EXCEPT !.version = v, !.lease = l] \in Ledger!Row
BY DEF Ledger!Row

\* One more event that fits the row, with the attempts at that time.
LEMMA ConsistentGrows ==
    ASSUME StoreAssumption, NEW r, NEW A, NEW T, Consistent(r, A, T),
           NEW q \in Ledger!Row, NEW B \in SUBSET Ledger!Attempt, Counted(B),
           NEW ev \in Ledger!Event,
           ev.sequence = Cardinality(T) + 1, ev.version = q.version,
           q.version = IF ev.type \in {"claimed", "transition"}
                       THEN Ledger!VersionTold(T) + 1 ELSE Ledger!VersionTold(T),
           q.status = IF ev.type = "transition"
                      THEN ev.data[2] ELSE Ledger!StatusTold(T),
           ev.type = "transition" => /\ ev.data[1] = Ledger!StatusTold(T)
                                     /\ ev.data[1] # "succeeded",
           q.lease # 0 => q.status \in ClaimableStatuses
    PROVE  Consistent(q, B, T \cup {ev})
<1> DEFINE U == T \cup {ev}
<1>1. /\ T \in SUBSET Ledger!Event /\ Numbered(T) /\ Truthful(T)
      /\ U \in SUBSET Ledger!Event
    BY DEF Consistent
<1>2. Numbered(U) /\ Truthful(U)
    BY <1>1, NumberedGrows, TruthfulGrows
<1>3. /\ q.version = Ledger!VersionTold(U)
      /\ q.status = Ledger!StatusTold(U)
    BY <1>1, ToldGrows
<1>4. Succeeded(U) => q.status = "succeeded"
    <2>1. ASSUME NEW m \in Ledger!Moves(T), m.data[2] = "succeeded"
          PROVE  q.status = "succeeded"
        <3>1. Ledger!StatusTold(T) = "succeeded"
            BY <2>1 DEF Consistent, Succeeded, Ledger!Moves
        <3> QED BY <3>1
    <2>2. ev \in Ledger!Moves(U) /\ ev.data[2] = "succeeded"
              => q.status = "succeeded"
        BY DEF Ledger!Moves
    <2> QED BY <2>1, <2>2 DEF Succeeded, Ledger!Moves
<1>5. q # NoRow
    BY NoRowIsNone
<1> QED BY <1>1, <1>2, <1>3, <1>4, <1>5 DEF Consistent

\* One effect moves as the lemma says, no other does.
LEMMA LedgerInvGrows ==
    ASSUME StoreAssumption, LedgerInv, NEW S \in SUBSET Effects,
           intents' \in [Effects -> Ledger!Row \cup {NoRow}],
           attempts' \in [Effects -> SUBSET Ledger!Attempt],
           events' \in [Effects -> SUBSET Ledger!Event],
           \A e \in S : Consistent(intents'[e], attempts'[e], events'[e]),
           \A e \in Effects \ S : /\ intents'[e] = intents[e]
                                  /\ attempts'[e] = attempts[e]
                                  /\ events'[e] = events[e],
           \A e, f \in Ledger!Reserved' :
               intents'[e].key = intents'[f].key => e = f
    PROVE  LedgerInv'
BY DEF LedgerInv

LEMMA SameKeys ==
    ASSUME LedgerInv,
           \A e \in Effects : \/ intents'[e] = intents[e]
                              \/ /\ intents[e] # NoRow /\ intents'[e] # NoRow
                                 /\ intents'[e].key = intents[e].key
    PROVE  \A e, f \in Ledger!Reserved' :
               intents'[e].key = intents'[f].key => e = f
BY DEF LedgerInv, Ledger!Reserved

LEMMA ReserveConsistent ==
    ASSUME StoreAssumption, LedgerInv,
           NEW e \in Effects, NEW k \in Keys, NEW d \in Digests,
           Ledger!Reserve(e, k, d)
    PROVE  LedgerInv'
<1> DEFINE q == [key |-> k, digest |-> d, status |-> "prepared",
                 version |-> 0, lease |-> 0]
           ev == [sequence |-> Cardinality({}) + 1, type |-> "reserved",
                  version |-> 0, data |-> <<"prepared">>]
<1>1. /\ intents[e] = NoRow /\ events[e] = {} /\ attempts[e] = {}
      /\ \A f \in Ledger!Reserved : intents[f].key # k
      /\ intents' = [intents EXCEPT ![e] = q]
      /\ events' = [events EXCEPT ![e] = {} \cup {ev}]
      /\ attempts' = attempts
    BY LedgerCounts DEF Ledger!Reserve, Ledger!Recorded, Ledger!Appended,
        LedgerInv, Consistent
<1>2. q \in Ledger!Row
    BY LedgerTerms DEF Ledger!Row, EffectStatus
<1>3. ev \in Ledger!Event
    BY FS_EmptySet, LedgerTerms
    DEF Ledger!Event, Ledger!EventTypes, EffectStatus
<1>4. /\ Ledger!VersionTold({}) = 0 /\ Ledger!StatusTold({}) = "prepared"
      /\ Consistent(NoRow, {}, {})
    <2>1. {x \in {} : x.type \in {"claimed", "transition"}} = {}
        OBVIOUS
    <2>2. Ledger!VersionTold({}) = 0
        BY <2>1, FS_EmptySet, LedgerCounts DEF Ledger!VersionTold
    <2>3. Ledger!StatusTold({}) = "prepared"
        BY DEF Ledger!StatusTold, Ledger!Moves
    <2> QED BY <1>1, <2>2, <2>3 DEF LedgerInv
<1>5. Consistent(q, {}, {} \cup {ev})
    <2>1. Counted({})
        BY <1>4 DEF Consistent
    <2> QED BY <1>2, <1>3, <1>4, <2>1, ConsistentGrows
<1>6. /\ intents' \in [Effects -> Ledger!Row \cup {NoRow}]
      /\ attempts' \in [Effects -> SUBSET Ledger!Attempt]
      /\ events' \in [Effects -> SUBSET Ledger!Event]
    BY <1>1, <1>2, <1>3 DEF LedgerInv
<1>7. /\ Consistent(intents'[e], attempts'[e], events'[e])
      /\ \A f \in Effects \ {e} : /\ intents'[f] = intents[f]
                                  /\ attempts'[f] = attempts[f]
                                  /\ events'[f] = events[f]
    BY <1>1, <1>5 DEF LedgerInv
<1>8. \A f, g \in Ledger!Reserved' : intents'[f].key = intents'[g].key => f = g
    BY <1>1 DEF LedgerInv, Ledger!Reserved
<1>9. /\ {e} \in SUBSET Effects
      /\ \A f \in {e} : Consistent(intents'[f], attempts'[f], events'[f])
    BY <1>7
<1> QED BY <1>6, <1>7, <1>8, <1>9, LedgerInvGrows

LEMMA ClaimConsistent ==
    ASSUME StoreAssumption, LedgerInv,
           NEW S \in SUBSET Ledger!Reserved, NEW t \in 0..MaxTime,
           Ledger!ClaimDue(S, t)
    PROVE  LedgerInv'
<1>1. /\ \A e \in S : /\ Ledger!Due(intents[e], t)
                      /\ intents[e] \in Ledger!Row /\ e \in Effects
      /\ intents' = [e \in Effects |-> IF e \in S THEN Ledger!Claimed(intents[e], t)
                                                  ELSE intents[e]]
      /\ events' = [e \in Effects |->
            IF e \in S
            THEN Ledger!Appended(e, "claimed", intents[e].version + 1, <<>>)
            ELSE events[e]]
      /\ attempts' = attempts
    BY DEF Ledger!ClaimDue, LedgerInv, Ledger!Reserved
<1>2. ASSUME NEW e \in S
      PROVE  /\ intents'[e] \in Ledger!Row
             /\ intents'[e].key = intents[e].key
             /\ events'[e] \subseteq Ledger!Event
             /\ Consistent(intents'[e], attempts'[e], events'[e])
    <2> DEFINE r == intents[e]
               q == Ledger!Claimed(r, t)
               ev == [sequence |-> Cardinality(events[e]) + 1, type |-> "claimed",
                      version |-> r.version + 1, data |-> <<>>]
    <2>1. /\ r \in Ledger!Row /\ r # NoRow
          /\ Consistent(r, attempts[e], events[e])
        BY <1>1, NoRowIsNone DEF LedgerInv
    <2>2. /\ q \in Ledger!Row /\ q.version = r.version + 1
          /\ q.status = r.status /\ q.key = r.key
          /\ r.status \in ClaimableStatuses
        <3>1. t \in Nat /\ t + LeaseFor \in Nat
            BY DEF StoreAssumption
        <3>2. Ledger!Due(r, t) /\ q = [r EXCEPT !.version = @ + 1,
                                               !.lease = t + LeaseFor]
            BY <1>1 DEF Ledger!Claimed
        <3>3. /\ r.version + 1 \in Nat /\ r.status \in ClaimableStatuses
              /\ q = [r EXCEPT !.version = r.version + 1, !.lease = t + LeaseFor]
            BY <2>1, <3>2, LedgerTerms DEF Ledger!Row, Ledger!Due
        <3>4. q \in Ledger!Row
            <4> HIDE DEF r, q
            <4> QED BY <2>1, <3>1, <3>3, RowLeased
        <3>5. q.version = r.version + 1 /\ q.status = r.status /\ q.key = r.key
            <4> HIDE DEF r, q
            <4> QED BY <2>1, <3>3 DEF Ledger!Row
        <3> QED BY <3>3, <3>4, <3>5
    <2>3. ev \in Ledger!Event
        BY <2>1, FS_CardinalityType
        DEF Consistent, Numbered, Ledger!Event, Ledger!EventTypes, Ledger!Row
    <2>4. /\ intents'[e] = q /\ attempts'[e] = attempts[e]
          /\ events'[e] = events[e] \cup {ev}
        BY <1>1, LedgerCounts DEF Ledger!Appended
    <2>5. Consistent(q, attempts[e], events[e] \cup {ev})
        <3>1. /\ Counted(attempts[e]) /\ attempts[e] \in SUBSET Ledger!Attempt
              /\ r.version = Ledger!VersionTold(events[e])
              /\ r.status = Ledger!StatusTold(events[e])
            BY <2>1 DEF Consistent
        <3> HIDE DEF r, q
        <3> QED BY <2>1, <2>2, <2>3, <3>1, ConsistentGrows
    <2> QED BY <2>1, <2>2, <2>3, <2>4, <2>5 DEF Consistent
<1>3. /\ intents' \in [Effects -> Ledger!Row \cup {NoRow}]
      /\ attempts' \in [Effects -> SUBSET Ledger!Attempt]
      /\ events' \in [Effects -> SUBSET Ledger!Event]
    <2>1. \A e \in Effects : /\ intents'[e] \in Ledger!Row \cup {NoRow}
                             /\ events'[e] \in SUBSET Ledger!Event
        BY <1>1, <1>2 DEF LedgerInv
    <2> QED BY <1>1, <2>1 DEF LedgerInv
<1>4. \A e \in Effects \ S : /\ intents'[e] = intents[e]
                             /\ attempts'[e] = attempts[e]
                             /\ events'[e] = events[e]
    BY <1>1
<1>5. \A e, f \in Ledger!Reserved' : intents'[e].key = intents'[f].key => e = f
    BY <1>1, <1>2, <1>4, NoRowIsNone, SameKeys
<1>6. S \in SUBSET Effects
    BY <1>1
<1> QED BY <1>2, <1>3, <1>4, <1>5, <1>6, LedgerInvGrows

LEMMA AttemptConsistent ==
    ASSUME StoreAssumption, LedgerInv, NEW e \in Ledger!Reserved,
           Ledger!StartAttempt(e)
    PROVE  LedgerInv'
<1> DEFINE r == intents[e]
           a == [ordinal |-> Cardinality(attempts[e]) + 1, version |-> r.version]
           B == attempts[e] \cup {a}
           ev == [sequence |-> Cardinality(events[e]) + 1,
                  type |-> "attempt_started", version |-> r.version, data |-> <<>>]
<1>1. /\ e \in Effects /\ r \in Ledger!Row /\ r # NoRow
      /\ Consistent(r, attempts[e], events[e])
      /\ attempts[e] \subseteq Ledger!Attempt
    BY DEF LedgerInv, Ledger!Reserved
<1>2. /\ intents' = intents
      /\ attempts' = [attempts EXCEPT ![e] = B]
      /\ events' = [events EXCEPT ![e] = events[e] \cup {ev}]
    BY <1>1, LedgerCounts
    DEF Ledger!StartAttempt, Ledger!Recorded, Ledger!Appended, LedgerInv
<1>3. /\ a \in Ledger!Attempt /\ Counted(B)
    <2>1. /\ IsFiniteSet(attempts[e]) /\ Cardinality(attempts[e]) \in Nat
          /\ \A b \in attempts[e] : b.ordinal <= Cardinality(attempts[e])
        BY <1>1, FS_CardinalityType DEF Consistent, Counted
    <2>2. a \in Ledger!Attempt
        BY <1>1, <2>1 DEF Ledger!Attempt, Ledger!Row
    <2>3. a \notin attempts[e]
        BY <2>1
    <2>4. IsFiniteSet(B) /\ Cardinality(B) = Cardinality(attempts[e]) + 1
        <3> HIDE DEF a
        <3> QED BY <2>1, <2>3, FS_AddElement
    <2>5. \A b \in B : b.ordinal <= Cardinality(attempts[e]) + 1
        BY <1>1, <2>1 DEF Ledger!Attempt
    <2> HIDE DEF B
    <2> QED BY <2>2, <2>4, <2>5 DEF Counted
<1>4. ev \in Ledger!Event
    BY <1>1, FS_CardinalityType
    DEF Consistent, Numbered, Ledger!Event, Ledger!EventTypes, Ledger!Row
<1>5. Consistent(r, B, events[e] \cup {ev})
    <2>1. /\ r.version = Ledger!VersionTold(events[e])
          /\ r.status = Ledger!StatusTold(events[e])
          /\ r.lease # 0 => r.status \in ClaimableStatuses
        BY <1>1 DEF Consistent
    <2>2. B \in SUBSET Ledger!Attempt
        BY <1>1, <1>3
    <2> HIDE DEF r, B
    <2> QED BY <1>1, <1>3, <1>4, <2>1, <2>2, ConsistentGrows
<1>6. /\ intents' \in [Effects -> Ledger!Row \cup {NoRow}]
      /\ attempts' \in [Effects -> SUBSET Ledger!Attempt]
      /\ events' \in [Effects -> SUBSET Ledger!Event]
    BY <1>1, <1>2, <1>3, <1>4 DEF LedgerInv
<1>7. /\ Consistent(intents'[e], attempts'[e], events'[e])
      /\ \A f \in Effects \ {e} : /\ intents'[f] = intents[f]
                                  /\ attempts'[f] = attempts[f]
                                  /\ events'[f] = events[f]
    BY <1>1, <1>2, <1>5 DEF LedgerInv
<1>8. \A f, g \in Ledger!Reserved' : intents'[f].key = intents'[g].key => f = g
    BY <1>2, SameKeys
<1>9. /\ {e} \in SUBSET Effects
      /\ \A f \in {e} : Consistent(intents'[f], attempts'[f], events'[f])
    BY <1>1, <1>7
<1> QED BY <1>6, <1>7, <1>8, <1>9, LedgerInvGrows

LEMMA TransitionConsistent ==
    ASSUME StoreAssumption, LedgerInv, NEW e \in Ledger!Reserved,
           NEW target \in EffectStatus, Ledger!Transition(e, target)
    PROVE  LedgerInv'
<1> DEFINE r == intents[e]
           q == [r EXCEPT !.status = target, !.version = @ + 1,
                          !.lease = IF target \in ClaimableStatuses THEN @ ELSE 0]
           ev == [sequence |-> Cardinality(events[e]) + 1, type |-> "transition",
                  version |-> r.version + 1, data |-> <<r.status, target>>]
<1>1. /\ e \in Effects /\ r \in Ledger!Row /\ r # NoRow
      /\ Consistent(r, attempts[e], events[e])
    BY DEF LedgerInv, Ledger!Reserved
<1>2. /\ IsAllowed(r.status, target)
      /\ intents' = [intents EXCEPT ![e] = q]
      /\ attempts' = attempts
      /\ events' = [events EXCEPT ![e] = events[e] \cup {ev}]
    <2>1. Ledger!IsAllowed(r.status, target) /\ attempts' = attempts
        BY DEF Ledger!Transition
    <2>2. events' = [events EXCEPT ![e] = events[e] \cup {ev}]
        BY LedgerCounts DEF Ledger!Transition, Ledger!Recorded, Ledger!Appended
    <2>3. intents' = [intents EXCEPT ![e] = q]
        BY LedgerTerms DEF Ledger!Transition, Ledger!Moved
    <2> QED BY <2>1, <2>2, <2>3, LedgerTerms
<1>3. /\ q \in Ledger!Row /\ q.key = r.key
      /\ q.version = r.version + 1 /\ q.status = target
      /\ q.lease # 0 => q.status \in ClaimableStatuses
    <2> DEFINE l == IF target \in ClaimableStatuses THEN r.lease ELSE 0
    <2>1. l \in Nat /\ target \in Ledger!EffectStatus
        BY <1>1, LedgerTerms DEF Ledger!Row
    <2>2. q = [r EXCEPT !.status = target, !.version = @ + 1, !.lease = l]
        OBVIOUS
    <2>3. l # 0 => target \in ClaimableStatuses
        OBVIOUS
    <2>4. /\ r.version + 1 \in Nat
          /\ q = [r EXCEPT !.status = target, !.version = r.version + 1, !.lease = l]
        BY <1>1, <2>2 DEF Ledger!Row
    <2> HIDE DEF l, q, r
    <2>5. q \in Ledger!Row
        BY <1>1, <2>1, <2>4, RowChanged
    <2>6. q.key = r.key /\ q.version = r.version + 1 /\ q.status = target /\ q.lease = l
        BY <1>1, <2>4 DEF Ledger!Row
    <2> QED BY <2>3, <2>5, <2>6
<1>4. ev \in Ledger!Event /\ r.status # "succeeded"
    <2>1. Cardinality(events[e]) \in Nat
        BY <1>1, FS_CardinalityType DEF Consistent, Numbered
    <2>2. r.status \in EffectStatus /\ r.version \in Nat
        BY <1>1, LedgerTerms DEF Ledger!Row
    <2>3. <<r.status, target>> \in Seq(EffectStatus)
        BY <2>2
    <2>4. ev \in Ledger!Event
        BY <2>1, <2>2, <2>3, LedgerTerms DEF Ledger!Event, Ledger!EventTypes
    <2> QED BY <1>2, <2>4 DEF IsAllowed
<1>5. Consistent(q, attempts[e], events[e] \cup {ev})
    <2>1. /\ r.version = Ledger!VersionTold(events[e])
          /\ r.status = Ledger!StatusTold(events[e])
          /\ attempts[e] \in SUBSET Ledger!Attempt /\ Counted(attempts[e])
        BY <1>1 DEF Consistent
    <2>2. /\ ev.sequence = Cardinality(events[e]) + 1 /\ ev.type = "transition"
          /\ ev.version = r.version + 1
          /\ ev.data[1] = r.status /\ ev.data[2] = target
        OBVIOUS
    <2> HIDE DEF r, q, ev
    <2> QED BY <1>1, <1>3, <1>4, <2>1, <2>2, ConsistentGrows
<1>6. /\ intents' \in [Effects -> Ledger!Row \cup {NoRow}]
      /\ attempts' \in [Effects -> SUBSET Ledger!Attempt]
      /\ events' \in [Effects -> SUBSET Ledger!Event]
    <2> HIDE DEF q, ev
    <2> QED BY <1>1, <1>2, <1>3, <1>4 DEF LedgerInv
<1>7. /\ Consistent(intents'[e], attempts'[e], events'[e])
      /\ intents'[e] # NoRow /\ intents'[e].key = intents[e].key
      /\ \A f \in Effects \ {e} : /\ intents'[f] = intents[f]
                                  /\ attempts'[f] = attempts[f]
                                  /\ events'[f] = events[f]
    <2> HIDE DEF q, ev
    <2> QED BY <1>1, <1>2, <1>3, <1>5, NoRowIsNone DEF LedgerInv
<1>8. \A f, g \in Ledger!Reserved' : intents'[f].key = intents'[g].key => f = g
    BY <1>1, <1>7, SameKeys
<1>9. /\ {e} \in SUBSET Effects
      /\ \A f \in {e} : Consistent(intents'[f], attempts'[f], events'[f])
    BY <1>1, <1>7
<1> QED BY <1>6, <1>7, <1>8, <1>9, LedgerInvGrows

\* The ledger's own invariant: every call keeps rows, attempts and trails
\* consistent and keys unique.
LEMMA LedgerStep ==
    ASSUME StoreAssumption, LedgerInv,
           [Ledger!LedgerNext]_<<intents, attempts, events>>
    PROVE  LedgerInv'
<1>1. CASE UNCHANGED <<intents, attempts, events>>
    BY <1>1 DEF LedgerInv, Ledger!Reserved
<1>2. CASE Ledger!LedgerNext
    BY <1>2, ReserveConsistent, ClaimConsistent, AttemptConsistent,
       TransitionConsistent, LedgerTerms DEF Ledger!LedgerNext
<1> QED BY <1>1, <1>2

-----------------------------------------------------------------------------
(* What a transaction has written *)

Rows == UNION {[D -> Ledger!Row] : D \in SUBSET Effects}

Writes ==
    [tenants : SUBSET Tenants, intents : Rows,
     attempts : SUBSET (Effects \X Ledger!Attempt),
     events : SUBSET (Effects \X Ledger!Event), receipts : SUBSET Effects]

SessionType ==
    /\ pc \in [Clients -> Statements \ {"broken"}]
    /\ call \in [Clients -> Call]
    /\ mem \in [Clients -> Memory]
    /\ locks \in [Clients -> SUBSET Effects]
    /\ tx \in [Clients -> Writes]

\* Rows c has locked and is done with or has in hand; rows whose event it has
\* inserted.
Touched(c) == locks[c] \ mem[c].batch

Told(c) ==
    IF pc[c] \in {"count", "attempt", "max", "event"}
    THEN Touched(c) \ {mem[c].effect} ELSE Touched(c)

\* What c's call makes of the row of e, and the event it records.
RowFor(c, e) ==
    CASE call[c].op = "reserve" -> NewRow(c)
      [] call[c].op = "claim_due" -> Claimed(intents[e], call[c].now)
      [] call[c].op = "start_attempt" -> intents[e]
      [] OTHER -> Moved(intents[e], call[c].target)

EventFor(c, e) ==
    [sequence |-> Cardinality(events[e]) + 1,
     type |-> CASE call[c].op = "reserve" -> "reserved"
                [] call[c].op = "claim_due" -> "claimed"
                [] call[c].op = "start_attempt" -> "attempt_started"
                [] OTHER -> "transition",
     version |-> RowFor(c, e).version,
     data |-> CASE call[c].op = "reserve" -> <<"prepared">>
                [] call[c].op = "transition" ->
                       <<intents[e].status, call[c].target>>
                [] OTHER -> <<>>]

AttemptFor(e) ==
    [ordinal |-> Cardinality(attempts[e]) + 1, version |-> intents[e].version]

\* The writes of c are those its call makes on the rows it has touched.
Written(c) ==
    /\ DOMAIN tx[c].intents =
           IF call[c].op = "start_attempt" THEN {} ELSE Touched(c)
    /\ \A e \in DOMAIN tx[c].intents : tx[c].intents[e] = RowFor(c, e)
    /\ tx[c].events = {<<e, EventFor(c, e)>> : e \in Told(c)}
    /\ tx[c].attempts =
           IF call[c].op = "start_attempt" /\ pc[c] \in {"max", "event", "commit"}
           THEN {<<mem[c].effect, AttemptFor(mem[c].effect)>>} ELSE {}
    /\ tx[c].receipts =
           IF /\ call[c].op = "transition" /\ call[c].target = "succeeded"
              /\ pc[c] = "commit"
           THEN {mem[c].effect} ELSE {}

\* Where c is in its call, what it has locked and what it knows.
Resting(c) ==
    /\ pc[c] = "idle" <=> call[c].op = "none"
    /\ pc[c] = "idle" => locks[c] = {} /\ mem[c] = Fresh

Inserted == {"max", "event", "commit"}

Reserving(c) ==
    call[c].op = "reserve" =>
        /\ pc[c] \in {"tenant", "insert", "existing", "replayed", "conflict"}
                         \cup Inserted
        /\ intents[call[c].effect] = NoRow
        /\ mem[c].batch = {}
        /\ locks[c] = IF pc[c] \in Inserted THEN {mem[c].effect} ELSE {}
        /\ pc[c] \in {"tenant", "insert"} \cup Inserted
               => mem[c].effect = call[c].effect
        /\ pc[c] \in Inserted => Holding(call[c].key) = {}
        /\ pc[c] = "existing" => Holding(call[c].key) # {}
        /\ pc[c] \in {"replayed", "conflict"} =>
               /\ mem[c].effect \in Ledger!Reserved
               /\ pc[c] = "replayed" <=>
                      intents[mem[c].effect].digest = call[c].digest

Claiming(c) ==
    call[c].op = "claim_due" =>
        /\ pc[c] \in {"scan", "lock", "claim", "max", "event", "commit"}
        /\ call[c].now \in 0..MaxTime
        /\ mem[c].rows \subseteq Ledger!Reserved
        /\ IsFiniteSet(locks[c]) /\ Cardinality(locks[c]) <= Limit
        /\ mem[c].batch \subseteq locks[c]
        /\ \A e \in locks[c] : /\ e \in Ledger!Reserved
                               /\ Ledger!Due(intents[e], call[c].now)
        /\ pc[c] \in {"scan", "lock"} => locks[c] = mem[c].batch
        /\ pc[c] \in {"max", "event"} => mem[c].effect \in Touched(c)
        /\ pc[c] = "commit" => mem[c].batch = {}

Attempting(c) ==
    call[c].op = "start_attempt" =>
        /\ pc[c] \in {"select", "count", "attempt", "max", "event", "commit"}
        /\ mem[c].batch = {} /\ mem[c].effect \in Ledger!Reserved
        /\ locks[c] = IF pc[c] = "select" THEN {} ELSE {mem[c].effect}
        /\ pc[c] # "select" => intents[mem[c].effect].version = call[c].version
        /\ pc[c] = "attempt"
               => mem[c].number = Cardinality(attempts[mem[c].effect]) + 1

\* A row with the version read is the row read.
Moving(c) ==
    LET r == intents[mem[c].effect]
    IN  call[c].op = "transition" =>
        /\ pc[c] \in {"read", "update", "max", "event", "receipt", "commit"}
        /\ mem[c].batch = {} /\ mem[c].effect \in Ledger!Reserved
        /\ locks[c] = IF pc[c] \in {"read", "update"} THEN {} ELSE {mem[c].effect}
        /\ pc[c] # "read" =>
               /\ IsAllowed(mem[c].status, call[c].target)
               /\ r.version = call[c].version => r.status = mem[c].status
        /\ pc[c] = "update" => r.version >= call[c].version
        /\ pc[c] \notin {"read", "update"} => r.version = call[c].version
        /\ pc[c] = "receipt" => call[c].target = "succeeded"

Counting(c) ==
    pc[c] = "event" => mem[c].number = Cardinality(events[mem[c].effect]) + 1

Local(c) ==
    /\ Written(c) /\ Resting(c) /\ Counting(c)
    /\ Reserving(c) /\ Claiming(c) /\ Attempting(c) /\ Moving(c)

\* No two clients hold a row, draw an id or insert a key.
Apart(c, d) ==
    /\ locks[c] \cap locks[d] = {}
    /\ call[c].op = "reserve" /\ call[d].op = "reserve" =>
           /\ call[c].effect # call[d].effect
           /\ pc[c] \in Inserted /\ pc[d] \in Inserted
                  => call[c].key # call[d].key

StoreInv ==
    /\ now \in 0..MaxTime /\ tenants \subseteq Tenants
    /\ LedgerInv
    /\ receipts \subseteq Effects
    /\ \A e \in Effects : e \in receipts <=> Succeeded(events[e])
    /\ SessionType
    /\ \A c \in Clients : Local(c)
    /\ \A c, d \in Clients : c # d => Apart(c, d)
-----------------------------------------------------------------------------
(* Steps that commit nothing *)

\* Where a client stands says which call it makes, and that which arguments.
LEMMA CallOf ==
    ASSUME StoreInv, NEW c \in Clients
    PROVE  /\ pc[c] \in {"tenant", "insert", "existing", "replayed", "conflict"}
                  => call[c].op = "reserve"
           /\ pc[c] \in {"scan", "lock", "claim"} => call[c].op = "claim_due"
           /\ pc[c] \in {"select", "count", "attempt"}
                  => call[c].op = "start_attempt"
           /\ pc[c] \in {"read", "update", "receipt"}
                  => call[c].op = "transition"
           /\ pc[c] \in {"max", "event", "commit"} =>
                  call[c].op \in {"reserve", "claim_due", "start_attempt",
                                  "transition"}
<1>1. call[c].op \in {"none", "reserve", "claim_due", "start_attempt",
                      "transition"}
    BY DEF StoreInv, SessionType, Call
<1>2. /\ Resting(c) /\ Reserving(c) /\ Claiming(c) /\ Attempting(c)
      /\ Moving(c)
    BY DEF StoreInv, Local
<1> QED BY <1>1, <1>2
    DEF Resting, Reserving, Claiming, Attempting, Moving, Inserted

LEMMA CallFields ==
    ASSUME StoreInv, NEW c \in Clients
    PROVE  /\ call[c].op = "reserve" =>
                  /\ call[c].key \in Keys /\ call[c].digest \in Digests
                  /\ call[c].effect \in Effects
           /\ call[c].op = "claim_due" => call[c].now \in Nat
           /\ call[c].op = "start_attempt" =>
                  call[c].effect \in Effects /\ call[c].version \in Nat
           /\ call[c].op = "transition" =>
                  /\ call[c].effect \in Effects /\ call[c].version \in Nat
                  /\ call[c].target \in EffectStatus
BY DEF StoreInv, SessionType, Call

\* A step of c in which nothing is committed.
Quiet(c) ==
    /\ UNCHANGED <<now, committed>>
    /\ SessionType'
    /\ \A d \in Others(c) :
          /\ pc'[d] = pc[d] /\ call'[d] = call[d] /\ mem'[d] = mem[d]
          /\ locks'[d] = locks[d] /\ tx'[d] = tx[d]

\* A client that does nothing stays where it is while nothing is committed.
LEMMA LocalStays ==
    ASSUME NEW d, Local(d), UNCHANGED committed,
           pc'[d] = pc[d], call'[d] = call[d], mem'[d] = mem[d],
           locks'[d] = locks[d], tx'[d] = tx[d]
    PROVE  Local(d)'
<1>1. /\ intents' = intents /\ attempts' = attempts /\ events' = events
      /\ Touched(d)' = Touched(d) /\ Told(d)' = Told(d)
    BY DEF committed, Touched, Told
<1>2. \A e : /\ RowFor(d, e)' = RowFor(d, e)
             /\ EventFor(d, e)' = EventFor(d, e)
             /\ AttemptFor(e)' = AttemptFor(e)
    BY <1>1 DEF RowFor, EventFor, AttemptFor, NewRow
<1>3. Written(d)'
    <2>1. {<<e, EventFor(d, e)'>> : e \in Told(d)'}
              = {<<e, EventFor(d, e)>> : e \in Told(d)}
        BY <1>1, <1>2
    <2>2. Written(d)
        BY DEF Local
    <2> QED BY <1>1, <1>2, <2>1, <2>2 DEF Written
<1>4. Ledger!Reserved' = Ledger!Reserved
    BY <1>1 DEF Ledger!Reserved
<1>5. \A k : Holding(k)' = Holding(k)
    BY <1>1, <1>4 DEF Holding
<1>6. Resting(d)' /\ Counting(d)'
    BY <1>1 DEF Local, Resting, Counting
<1>7. Reserving(d)'
    BY <1>1, <1>4, <1>5 DEF Local, Reserving
<1>8. Claiming(d)'
    BY <1>1, <1>4 DEF Local, Claiming
<1>9. Attempting(d)' /\ Moving(d)'
    BY <1>1, <1>4 DEF Local, Attempting, Moving
<1> QED BY <1>3, <1>6, <1>7, <1>8, <1>9 DEF Local

LEMMA QuietKeeps ==
    ASSUME StoreInv, NEW c \in Clients, Quiet(c), Local(c)',
           \A d \in Others(c) : Apart(c, d)'
    PROVE  StoreInv' /\ UNCHANGED <<intents, attempts, events>>
<1>1. \A d \in Clients : Local(d)'
    BY LocalStays DEF StoreInv, Quiet, Others
<1>2. \A d, f \in Clients : d # f => Apart(d, f)'
    <2>1. ASSUME NEW d \in Others(c), NEW f \in Others(c), d # f
          PROVE  Apart(d, f)'
        BY <2>1 DEF StoreInv, Quiet, Others, Apart
    <2>2. ASSUME NEW d \in Others(c)
          PROVE  Apart(d, c)'
        BY <2>2 DEF Apart
    <2> QED BY <2>1, <2>2 DEF Others
<1>3. /\ now' = now /\ tenants' = tenants /\ intents' = intents
      /\ attempts' = attempts /\ events' = events /\ receipts' = receipts
    BY DEF Quiet, committed
<1>4. LedgerInv'
    BY <1>3 DEF StoreInv, LedgerInv, Ledger!Reserved
<1> QED BY <1>1, <1>2, <1>3, <1>4 DEF StoreInv, Quiet

\* A client without locks that has not finished has written nothing.
Clean(c) ==
    /\ locks[c] = {} /\ DOMAIN tx[c].intents = {} /\ tx[c].events = {}
    /\ tx[c].attempts = {} /\ tx[c].receipts = {}

LEMMA CleanIsWritten ==
    ASSUME NEW c, Clean(c)', pc'[c] \notin Inserted
    PROVE  Written(c)'
<1>1. Touched(c)' = {} /\ Told(c)' = {}
    BY DEF Clean, Touched, Told
<1>2. {<<e, EventFor(c, e)'>> : e \in {}} = {}
    OBVIOUS
<1> QED BY <1>1, <1>2 DEF Written, Clean, Inserted

LEMMA WrittenIsClean ==
    ASSUME NEW c, Written(c), locks[c] = {}, pc[c] \notin Inserted
    PROVE  Clean(c)
<1>1. Touched(c) = {} /\ Told(c) = {}
    BY DEF Touched, Told
<1>2. {<<e, EventFor(c, e)>> : e \in {}} = {}
    OBVIOUS
<1> QED BY <1>1, <1>2 DEF Written, Clean, Inserted

\* What is to be shown of a client that makes a call of each kind.
LEMMA LocalByCall ==
    ASSUME NEW c, Written(c)', Counting(c)'
    PROVE  /\ pc'[c] # "idle" /\ call'[c].op = "reserve" /\ Reserving(c)'
                  => Local(c)'
           /\ pc'[c] # "idle" /\ call'[c].op = "claim_due" /\ Claiming(c)'
                  => Local(c)'
           /\ pc'[c] # "idle" /\ call'[c].op = "start_attempt"
                /\ Attempting(c)' => Local(c)'
           /\ pc'[c] # "idle" /\ call'[c].op = "transition" /\ Moving(c)'
                  => Local(c)'
BY DEF Local, Resting, Reserving, Claiming, Attempting, Moving

\* A client that takes no lock and keeps its call stays apart from the others.
LEMMA ApartStays ==
    ASSUME StoreInv, NEW c \in Clients, Quiet(c), NEW d \in Others(c),
           locks'[c] \subseteq locks[c],
           call'[c].op = "reserve" => /\ call'[c] = call[c]
                                      /\ pc'[c] \in Inserted => pc[c] \in Inserted
    PROVE  Apart(c, d)'
<1>1. Apart(c, d) /\ d \in Clients
    BY DEF StoreInv, Others
<1> QED BY <1>1 DEF Apart, Quiet

LEMMA NothingIsWritten == Nothing \in Writes /\ DOMAIN Nothing.intents = {}
<1>1. <<>> \in [{} -> Ledger!Row] /\ DOMAIN <<>> = {}
    OBVIOUS
<1>2. <<>> \in Rows
    BY <1>1 DEF Rows
<1> QED BY <1>1, <1>2 DEF Nothing, Writes

LEMMA EndLocal ==
    ASSUME StoreInv, NEW c \in Clients, End(c)
    PROVE  /\ Local(c)' /\ SessionType' /\ locks'[c] = {}
           /\ call'[c].op = "none"
           /\ \A d \in Others(c) :
                 /\ pc'[d] = pc[d] /\ call'[d] = call[d] /\ mem'[d] = mem[d]
                 /\ locks'[d] = locks[d] /\ tx'[d] = tx[d]
<1>1. /\ pc' = [pc EXCEPT ![c] = "idle"]
      /\ call' = [call EXCEPT ![c] = NoCall]
      /\ mem' = [mem EXCEPT ![c] = Fresh]
      /\ locks' = [locks EXCEPT ![c] = {}]
      /\ tx' = [tx EXCEPT ![c] = Nothing]
    BY DEF End, Goto
<1>2. NoCall \in Call /\ Fresh \in Memory /\ "idle" \in Statements \ {"broken"}
    BY DEF NoCall, Call, Fresh, Memory, Statements
<1>3. SessionType /\ SessionType'
    BY <1>1, <1>2, NothingIsWritten DEF StoreInv, SessionType
<1>4. /\ pc'[c] = "idle" /\ call'[c] = NoCall /\ mem'[c] = Fresh
      /\ locks'[c] = {} /\ tx'[c] = Nothing
    BY <1>1, <1>3 DEF SessionType
<1>5. Written(c)'
    <2>1. Clean(c)'
        BY <1>4, NothingIsWritten DEF Clean, Nothing
    <2> QED BY <1>4, <2>1, CleanIsWritten DEF Inserted
<1>6. Local(c)'
    BY <1>4, <1>5 DEF Local, Resting, Counting, Reserving, Claiming,
        Attempting, Moving, NoCall
<1> QED BY <1>1, <1>3, <1>4, <1>6 DEF SessionType, Others, NoCall

\* A failed, refused or answered call: its transaction never was.
LEMMA RollbackKeeps ==
    ASSUME StoreInv, NEW c \in Clients, Rollback(c)
    PROVE  StoreInv' /\ UNCHANGED <<intents, attempts, events>>
<1>1. Quiet(c) /\ Local(c)' /\ locks'[c] = {} /\ call'[c].op = "none"
    BY EndLocal DEF Rollback, Quiet
<1>2. \A d \in Others(c) : Apart(c, d)'
    BY <1>1, ApartStays
<1> QED BY <1>1, <1>2, QuietKeeps

\* A call begins with nothing locked, nothing written and nothing read.
LEMMA BeginFresh ==
    ASSUME StoreInv, NEW c \in Clients, NEW args \in Call,
           NEW e \in Effects \cup {NoEffect},
           NEW l \in {"tenant", "scan", "select", "read"}, Begin(c, args, e, l)
    PROVE  /\ Quiet(c) /\ Written(c)' /\ Counting(c)'
           /\ pc'[c] = l /\ call'[c] = args /\ locks'[c] = {}
           /\ locks[c] = {} /\ mem'[c] = [Fresh EXCEPT !.effect = e]
<1>1. /\ pc[c] = "idle"
      /\ pc' = [pc EXCEPT ![c] = l]
      /\ call' = [call EXCEPT ![c] = args]
      /\ mem' = [mem EXCEPT ![c].effect = e]
      /\ UNCHANGED <<now, committed, locks, tx>>
    BY DEF Begin, Goto
<1>2. /\ SessionType /\ locks[c] = {} /\ mem[c] = Fresh /\ Written(c)
    BY <1>1 DEF StoreInv, Local, Resting
<1>3. /\ pc'[c] = l /\ call'[c] = args /\ mem'[c] = [Fresh EXCEPT !.effect = e]
      /\ locks' = locks /\ tx' = tx
    BY <1>1, <1>2 DEF SessionType
<1>4. [Fresh EXCEPT !.effect = e] \in Memory /\ l \in Statements \ {"broken"}
    BY DEF Fresh, Memory, Statements
<1>5. SessionType'
    BY <1>1, <1>2, <1>4 DEF SessionType
<1>6. Clean(c)'
    BY <1>1, <1>2, <1>3, WrittenIsClean DEF Clean, Inserted
<1> QED BY <1>1, <1>2, <1>3, <1>5, <1>6, CleanIsWritten
        DEF Quiet, SessionType, Others, Counting, Inserted

LEMMA BeginReserveKeeps ==
    ASSUME StoreInv, NEW c \in Clients, NEW k \in Keys, NEW d \in Digests,
           NEW e \in Effects, BeginReserve(c, k, d, e)
    PROVE  StoreInv' /\ UNCHANGED <<intents, attempts, events>>
<1> DEFINE args == [op |-> "reserve", key |-> k, digest |-> d, effect |-> e]
<1>1. args \in Call
    BY DEF Call
<1>2. /\ Quiet(c) /\ Written(c)' /\ Counting(c)'
      /\ pc'[c] = "tenant" /\ call'[c] = args /\ locks'[c] = {}
      /\ mem'[c] = [Fresh EXCEPT !.effect = e]
    BY <1>1, BeginFresh DEF BeginReserve
<1>3. intents[e] = NoRow /\ intents' = intents
    BY <1>2 DEF BeginReserve, Quiet, committed
<1>4. Reserving(c)'
    BY <1>2, <1>3 DEF Reserving, Inserted, Fresh
<1>5. \A b \in Others(c) : Apart(c, b)'
    BY <1>2 DEF BeginReserve, Apart, Quiet, Inserted
<1> QED BY <1>2, <1>4, <1>5, LocalByCall, QuietKeeps

LEMMA BeginOtherKeeps ==
    ASSUME StoreInv, NEW c \in Clients,
           \/ BeginClaim(c)
           \/ \E e \in Effects, v \in 0..MaxVersion :
                 \/ BeginAttempt(c, e, v)
                 \/ \E t \in Targets : BeginTransition(c, e, v, t),
           StoreAssumption
    PROVE  StoreInv' /\ UNCHANGED <<intents, attempts, events>>
<1>1. CASE BeginClaim(c)
    <2> DEFINE args == [op |-> "claim_due", now |-> now]
    <2>1. args \in Call /\ now \in 0..MaxTime
        BY DEF Call, StoreInv, StoreAssumption
    <2>2. /\ Quiet(c) /\ Written(c)' /\ Counting(c)'
          /\ pc'[c] = "scan" /\ call'[c] = args /\ locks'[c] = {}
          /\ mem'[c] = [Fresh EXCEPT !.effect = NoEffect]
        BY <1>1, <2>1, BeginFresh DEF BeginClaim
    <2>3. IsFiniteSet({}) /\ Cardinality({}) <= Limit
        BY FS_EmptySet DEF StoreAssumption
    <2>4. Claiming(c)'
        BY <2>1, <2>2, <2>3 DEF Claiming, Fresh
    <2>5. \A d \in Others(c) : Apart(c, d)'
        BY <2>2, ApartStays
    <2> QED BY <2>2, <2>4, <2>5, LocalByCall, QuietKeeps
<1>2. ASSUME NEW e \in Effects, NEW v \in 0..MaxVersion, BeginAttempt(c, e, v)
      PROVE  StoreInv' /\ UNCHANGED <<intents, attempts, events>>
    <2> DEFINE args == [op |-> "start_attempt", effect |-> e, version |-> v]
    <2>1. args \in Call
        BY DEF Call
    <2>2. /\ Quiet(c) /\ Written(c)' /\ Counting(c)'
          /\ pc'[c] = "select" /\ call'[c] = args /\ locks'[c] = {}
          /\ mem'[c] = [Fresh EXCEPT !.effect = e]
        BY <1>2, <2>1, BeginFresh DEF BeginAttempt
    <2>3. e \in Ledger!Reserved /\ intents' = intents
        BY <1>2, <2>2 DEF BeginAttempt, Dispatched, Ledger!Moves, Ledger!Reserved,
            StoreInv, LedgerInv, Consistent, Quiet, committed
    <2>4. Attempting(c)'
        BY <2>2, <2>3 DEF Attempting, Fresh, Ledger!Reserved
    <2>5. \A d \in Others(c) : Apart(c, d)'
        BY <2>2, ApartStays
    <2> QED BY <2>2, <2>4, <2>5, LocalByCall, QuietKeeps
<1>3. ASSUME NEW e \in Effects, NEW v \in 0..MaxVersion, NEW t \in Targets,
             BeginTransition(c, e, v, t)
      PROVE  StoreInv' /\ UNCHANGED <<intents, attempts, events>>
    <2> DEFINE args == [op |-> "transition", effect |-> e, version |-> v,
                        target |-> t]
    <2>1. args \in Call
        BY DEF Call, StoreAssumption
    <2>2. /\ Quiet(c) /\ Written(c)' /\ Counting(c)'
          /\ pc'[c] = "read" /\ call'[c] = args /\ locks'[c] = {}
          /\ mem'[c] = [Fresh EXCEPT !.effect = e]
        BY <1>3, <2>1, BeginFresh DEF BeginTransition
    <2>3. e \in Ledger!Reserved /\ intents' = intents
        BY <1>3, <2>2 DEF BeginTransition, Quiet, committed
    <2>4. Moving(c)'
        BY <2>2, <2>3 DEF Moving, Fresh, Ledger!Reserved
    <2>5. \A d \in Others(c) : Apart(c, d)'
        BY <2>2, ApartStays
    <2> QED BY <2>2, <2>4, <2>5, LocalByCall, QuietKeeps
<1> QED BY <1>1, <1>2, <1>3

LEMMA SameCall ==
    ASSUME NEW c, UNCHANGED <<committed, call>>
    PROVE  /\ intents' = intents /\ attempts' = attempts /\ events' = events
           /\ Ledger!Reserved' = Ledger!Reserved
           /\ \A k : Holding(k)' = Holding(k)
           /\ \A e : /\ RowFor(c, e)' = RowFor(c, e)
                     /\ EventFor(c, e)' = EventFor(c, e)
                     /\ AttemptFor(e)' = AttemptFor(e)
<1>1. /\ intents' = intents /\ attempts' = attempts /\ events' = events
      /\ call' = call
    BY DEF committed
<1>2. Ledger!Reserved' = Ledger!Reserved
    BY <1>1 DEF Ledger!Reserved
<1>3. \A e : /\ RowFor(c, e)' = RowFor(c, e)
             /\ EventFor(c, e)' = EventFor(c, e)
             /\ AttemptFor(e)' = AttemptFor(e)
    BY <1>1 DEF RowFor, EventFor, AttemptFor, NewRow
<1> QED BY <1>1, <1>2, <1>3 DEF Holding

\* A statement that writes none of the rows, events, attempts and receipts.
LEMMA WrittenStays ==
    ASSUME NEW c, Written(c), UNCHANGED <<committed, call>>,
           tx'[c].intents = tx[c].intents, tx'[c].events = tx[c].events,
           tx'[c].attempts = tx[c].attempts, tx'[c].receipts = tx[c].receipts,
           call[c].op # "start_attempt" => Touched(c)' = Touched(c),
           Told(c)' = Told(c),
           call[c].op = "start_attempt" =>
               /\ mem'[c].effect = mem[c].effect
               /\ pc'[c] \in Inserted <=> pc[c] \in Inserted,
           call[c].op = "transition" =>
               /\ mem'[c].effect = mem[c].effect
               /\ pc'[c] = "commit" <=> pc[c] = "commit"
    PROVE  Written(c)'
<1>1. /\ call' = call
      /\ \A e : /\ RowFor(c, e)' = RowFor(c, e)
                /\ EventFor(c, e)' = EventFor(c, e)
                /\ AttemptFor(e)' = AttemptFor(e)
    BY SameCall
<1>2. {<<e, EventFor(c, e)'>> : e \in Told(c)'}
          = {<<e, EventFor(c, e)>> : e \in Told(c)}
    BY <1>1
<1> QED BY <1>1, <1>2 DEF Written, Inserted

\* A statement that only reads.
LEMMA ReadsQuiet ==
    ASSUME StoreInv, NEW c \in Clients, NEW l \in Statements \ {"broken"},
           Goto(c, l), Reads, mem' \in [Clients -> Memory],
           \A d \in Others(c) : mem'[d] = mem[d]
    PROVE  /\ Quiet(c) /\ pc'[c] = l /\ UNCHANGED <<committed, call>>
           /\ locks' = locks /\ tx' = tx
BY DEF StoreInv, SessionType, Goto, Reads, Quiet, Others

\* The row in hand while a client records its event.
LEMMA InHand ==
    ASSUME StoreInv, NEW c \in Clients,
           pc[c] \in {"count", "attempt", "max", "event", "receipt"}
    PROVE  /\ mem[c].effect \in Touched(c) /\ mem[c].effect \in Effects
           /\ mem[c].effect \in locks[c]
<1>1. /\ Reserving(c) /\ Claiming(c) /\ Attempting(c) /\ Moving(c)
      /\ locks[c] \subseteq Effects
    BY DEF StoreInv, Local, SessionType
<1> QED BY <1>1, CallOf
    DEF Reserving, Claiming, Attempting, Moving, Inserted, Touched

\* What a client reads of a row's trail before it has written to it.
LEMMA TrailRead ==
    ASSUME StoreInv, NEW c \in Clients, NEW e \in Effects, e \notin Told(c)
    PROVE  /\ Trail(c, e) = events[e]
           /\ Max({0} \cup {ev.sequence : ev \in Trail(c, e)})
                  = Cardinality(events[e])
           /\ Cardinality(events[e]) \in Nat
<1>1. Trail(c, e) = events[e]
    <2>1. tx[c].events = {<<f, EventFor(c, f)>> : f \in Told(c)}
        BY DEF StoreInv, Local, Written
    <2>2. Of(tx[c].events, e) = {}
        <3> QED BY <2>1 DEF Of
    <2> QED BY <2>2 DEF Trail
<1>2. Numbered(events[e])
    BY DEF StoreInv, LedgerInv, Consistent
<1>3. Cardinality(events[e]) \in Nat
    BY <1>2, FS_CardinalityType DEF Numbered
<1>4. {0} \cup {ev.sequence : ev \in events[e]} = 0..Cardinality(events[e])
    <2>1. {ev.sequence : ev \in events[e]} = 1..Cardinality(events[e])
        BY <1>2 DEF Numbered
    <2> QED BY <1>3, <2>1
<1>5. Max(0..Cardinality(events[e])) = Cardinality(events[e])
    BY <1>3 DEF Max
<1> QED BY <1>1, <1>3, <1>4, <1>5

LEMMA InsertTenantKeeps ==
    ASSUME StoreInv, NEW c \in Clients, InsertTenant(c)
    PROVE  StoreInv' /\ UNCHANGED <<intents, attempts, events>>
<1>1. /\ pc[c] = "tenant" /\ call[c].op = "reserve" /\ call[c].key[1] \in Tenants
      /\ pc' = [pc EXCEPT ![c] = "insert"]
      /\ tx' = [tx EXCEPT ![c].tenants = {call[c].key[1]} \ tenants]
      /\ UNCHANGED <<now, committed, call, mem, locks>>
    BY CallOf, CallFields DEF InsertTenant, Goto, Keys
<1>2. SessionType /\ SessionType'
    <2>1. SessionType
        BY DEF StoreInv
    <2>2. [tx[c] EXCEPT !.tenants = {call[c].key[1]} \ tenants] \in Writes
        <3>1. tx[c] \in Writes /\ {call[c].key[1]} \ tenants \in SUBSET Tenants
            BY <1>1, <2>1 DEF SessionType
        <3> QED BY <3>1 DEF Writes
    <2>3. tx' \in [Clients -> Writes]
        BY <1>1, <2>1, <2>2 DEF SessionType
    <2>4. pc' \in [Clients -> Statements \ {"broken"}]
        BY <1>1, <2>1 DEF SessionType, Statements
    <2> QED BY <1>1, <2>1, <2>3, <2>4 DEF SessionType
<1>3. /\ Quiet(c) /\ pc'[c] = "insert"
      /\ tx'[c].intents = tx[c].intents /\ tx'[c].events = tx[c].events
      /\ tx'[c].attempts = tx[c].attempts /\ tx'[c].receipts = tx[c].receipts
    BY <1>1, <1>2 DEF SessionType, Quiet, Others, Writes
<1>4. /\ Local(c) /\ Reserving(c) /\ Written(c)
    BY DEF StoreInv, Local
<1>5. Written(c)'
    <2>1. Touched(c)' = Touched(c) /\ Told(c)' = Told(c)
        BY <1>1, <1>3 DEF Touched, Told
    <2> QED BY <1>1, <1>3, <1>4, <2>1, WrittenStays DEF Inserted
<1>6. Reserving(c)'
    <2>1. UNCHANGED <<intents, call, mem, locks>>
        BY <1>1 DEF committed
    <2> QED BY <1>1, <1>3, <1>4, <2>1 DEF Reserving, Inserted
<1>7. \A d \in Others(c) : Apart(c, d)'
    BY <1>1, <1>3, ApartStays DEF Inserted
<1>8. Counting(c)' /\ pc'[c] # "idle" /\ call'[c].op = "reserve"
    BY <1>1, <1>3 DEF Counting
<1> QED BY <1>3, <1>5, <1>6, <1>7, <1>8, LocalByCall, QuietKeeps

LEMMA SelectExistingKeeps ==
    ASSUME StoreInv, NEW c \in Clients, SelectExisting(c)
    PROVE  StoreInv' /\ UNCHANGED <<intents, attempts, events>>
<1>1. /\ pc[c] = "existing" /\ call[c].op = "reserve"
      /\ Reserving(c) /\ Written(c) /\ SessionType
    BY CallOf DEF SelectExisting, StoreInv, Local
<1>2. Holding(call[c].key) # {}
    BY <1>1 DEF Reserving
<1>3. PICK e \in Holding(call[c].key) :
          /\ mem' = [mem EXCEPT ![c].effect = e]
          /\ Goto(c, IF intents[e].digest = call[c].digest THEN "replayed"
                                                          ELSE "conflict")
    BY <1>2 DEF SelectExisting
<1>4. Reads /\ e \in Ledger!Reserved /\ e \in Effects
    BY DEF SelectExisting, Holding, Ledger!Reserved
<1> DEFINE l == IF intents[e].digest = call[c].digest THEN "replayed"
                                                      ELSE "conflict"
<1>5. /\ mem' \in [Clients -> Memory] /\ \A d \in Others(c) : mem'[d] = mem[d]
      /\ mem'[c] = [mem[c] EXCEPT !.effect = e]
    BY <1>1, <1>3, <1>4 DEF SessionType, Memory, Others
<1>6. l \in Statements \ {"broken"}
    BY DEF Statements
<1>7. /\ Quiet(c) /\ pc'[c] = l /\ UNCHANGED <<committed, call>>
      /\ locks' = locks /\ tx' = tx
    BY <1>3, <1>4, <1>5, <1>6, ReadsQuiet
<1>8. mem'[c].effect = e /\ mem'[c].batch = mem[c].batch
    BY <1>1, <1>5 DEF SessionType, Memory
<1>9. Written(c)'
    <2>1. Touched(c)' = Touched(c) /\ Told(c)' = Told(c)
        BY <1>1, <1>7, <1>8 DEF Touched, Told
    <2> QED BY <1>1, <1>7, <2>1, WrittenStays
<1>10. Reserving(c)'
    <2>1. UNCHANGED <<intents, call, locks>> /\ Ledger!Reserved' = Ledger!Reserved
        BY <1>7, SameCall
    <2> QED BY <1>1, <1>4, <1>7, <1>8, <2>1 DEF Reserving, Inserted
<1>11. \A d \in Others(c) : Apart(c, d)'
    BY <1>1, <1>7, ApartStays DEF Inserted
<1>12. Counting(c)' /\ pc'[c] # "idle" /\ call'[c].op = "reserve"
    BY <1>1, <1>7 DEF Counting
<1> QED BY <1>7, <1>9, <1>10, <1>11, <1>12, LocalByCall, QuietKeeps

LEMMA ScanKeeps ==
    ASSUME StoreInv, NEW c \in Clients, Scan(c)
    PROVE  StoreInv' /\ UNCHANGED <<intents, attempts, events>>
<1> DEFINE R == {e \in Ledger!Reserved : Due(intents[e], call[c].now)}
<1>1. /\ pc[c] = "scan" /\ call[c].op = "claim_due"
      /\ Claiming(c) /\ Written(c) /\ SessionType
      /\ Reads /\ Goto(c, "lock") /\ mem' = [mem EXCEPT ![c].rows = R]
    BY CallOf DEF Scan, StoreInv, Local
<1>2. R \subseteq Ledger!Reserved /\ R \subseteq Effects
    BY DEF Ledger!Reserved
<1> HIDE DEF R
<1>3. /\ mem' \in [Clients -> Memory] /\ \A d \in Others(c) : mem'[d] = mem[d]
      /\ mem'[c] = [mem[c] EXCEPT !.rows = R]
    BY <1>1, <1>2 DEF SessionType, Memory, Others
<1>4. /\ Quiet(c) /\ pc'[c] = "lock" /\ UNCHANGED <<committed, call>>
      /\ locks' = locks /\ tx' = tx
    <2>1. "lock" \in Statements \ {"broken"}
        BY DEF Statements
    <2> QED BY <1>1, <1>3, <2>1, ReadsQuiet
<1>5. mem'[c].rows = R /\ mem'[c].batch = mem[c].batch
    BY <1>1, <1>3 DEF SessionType, Memory
<1>6. Written(c)'
    <2>1. Touched(c)' = Touched(c) /\ Told(c)' = Told(c)
        BY <1>1, <1>4, <1>5 DEF Touched, Told
    <2> QED BY <1>1, <1>4, <2>1, WrittenStays
<1>7. Claiming(c)'
    <2>1. UNCHANGED <<intents, call, locks>> /\ Ledger!Reserved' = Ledger!Reserved
        BY <1>4, SameCall
    <2> QED BY <1>1, <1>2, <1>4, <1>5, <2>1 DEF Claiming
<1>8. \A d \in Others(c) : Apart(c, d)'
    BY <1>1, <1>4, ApartStays
<1>9. Counting(c)' /\ pc'[c] # "idle" /\ call'[c].op = "claim_due"
    BY <1>1, <1>4 DEF Counting
<1> QED BY <1>4, <1>6, <1>7, <1>8, <1>9, LocalByCall, QuietKeeps

LEMMA EndScanKeeps ==
    ASSUME StoreInv, NEW c \in Clients, EndScan(c)
    PROVE  StoreInv' /\ UNCHANGED <<intents, attempts, events>>
<1> DEFINE l == IF mem[c].batch = {} THEN "commit" ELSE "claim"
<1>1. /\ pc[c] = "lock" /\ call[c].op = "claim_due"
      /\ Claiming(c) /\ Written(c) /\ SessionType
      /\ Reads /\ Goto(c, l) /\ mem' = mem
    BY CallOf DEF EndScan, StoreInv, Local
<1>2. /\ Quiet(c) /\ pc'[c] = l /\ UNCHANGED <<committed, call>>
      /\ locks' = locks /\ tx' = tx
    <2>1. l \in Statements \ {"broken"}
        BY DEF Statements
    <2> HIDE DEF l
    <2> QED BY <1>1, <2>1, ReadsQuiet DEF SessionType
<1>3. Written(c)'
    <2>1. Touched(c)' = Touched(c) /\ Told(c)' = Told(c)
        BY <1>1, <1>2 DEF Touched, Told
    <2> QED BY <1>1, <1>2, <2>1, WrittenStays
<1>4. Claiming(c)'
    <2>1. UNCHANGED <<intents, call, locks>> /\ Ledger!Reserved' = Ledger!Reserved
        BY <1>2, SameCall
    <2> QED BY <1>1, <1>2, <2>1 DEF Claiming
<1>5. \A d \in Others(c) : Apart(c, d)'
    BY <1>1, <1>2, ApartStays
<1>6. Counting(c)' /\ pc'[c] # "idle" /\ call'[c].op = "claim_due"
    BY <1>1, <1>2 DEF Counting
<1> QED BY <1>2, <1>3, <1>4, <1>5, <1>6, LocalByCall, QuietKeeps

LEMMA CountAttemptsKeeps ==
    ASSUME StoreInv, NEW c \in Clients, CountAttempts(c)
    PROVE  StoreInv' /\ UNCHANGED <<intents, attempts, events>>
<1> DEFINE n == Cardinality(attempts[mem[c].effect]) + 1
<1>1. /\ pc[c] = "count" /\ call[c].op = "start_attempt"
      /\ Attempting(c) /\ Written(c) /\ SessionType
      /\ Reads /\ Goto(c, "attempt") /\ mem' = [mem EXCEPT ![c].number = n]
    BY CallOf DEF CountAttempts, StoreInv, Local
<1>2. n \in Nat
    BY InHand, <1>1, FS_CardinalityType
    DEF StoreInv, LedgerInv, Consistent, Counted
<1> HIDE DEF n
<1>3. /\ mem' \in [Clients -> Memory] /\ \A d \in Others(c) : mem'[d] = mem[d]
      /\ mem'[c] = [mem[c] EXCEPT !.number = n]
    BY <1>1, <1>2 DEF SessionType, Memory, Others
<1>4. /\ Quiet(c) /\ pc'[c] = "attempt" /\ UNCHANGED <<committed, call>>
      /\ locks' = locks /\ tx' = tx
    <2>1. "attempt" \in Statements \ {"broken"}
        BY DEF Statements
    <2> QED BY <1>1, <1>3, <2>1, ReadsQuiet
<1>5. /\ mem'[c].number = n /\ mem'[c].batch = mem[c].batch
      /\ mem'[c].effect = mem[c].effect
    BY <1>1, <1>3 DEF SessionType, Memory
<1>6. Written(c)'
    <2>1. Touched(c)' = Touched(c) /\ Told(c)' = Told(c)
        BY <1>1, <1>4, <1>5 DEF Touched, Told
    <2> QED BY <1>1, <1>4, <1>5, <2>1, WrittenStays DEF Inserted
<1>7. Attempting(c)'
    <2>1. /\ UNCHANGED <<intents, attempts, call, locks>>
          /\ Ledger!Reserved' = Ledger!Reserved
        BY <1>4, SameCall
    <2> QED BY <1>1, <1>4, <1>5, <2>1 DEF Attempting, n
<1>8. \A d \in Others(c) : Apart(c, d)'
    BY <1>1, <1>4, ApartStays
<1>9. Counting(c)' /\ pc'[c] # "idle" /\ call'[c].op = "start_attempt"
    BY <1>1, <1>4 DEF Counting
<1> QED BY <1>4, <1>6, <1>7, <1>8, <1>9, LocalByCall, QuietKeeps

LEMMA ReadKeeps ==
    ASSUME StoreInv, NEW c \in Clients, Read(c)
    PROVE  StoreInv' /\ UNCHANGED <<intents, attempts, events>>
<1> DEFINE e == mem[c].effect
           s == intents[e].status
<1>1. /\ pc[c] = "read" /\ call[c].op = "transition"
      /\ Moving(c) /\ Written(c) /\ SessionType
    BY CallOf DEF Read, StoreInv, Local
<1>2. CASE Rollback(c)
    BY <1>2, RollbackKeeps
<1>3. CASE /\ intents[e].version = call[c].version
           /\ IsAllowed(s, call[c].target)
           /\ mem' = [mem EXCEPT ![c].status = s]
           /\ Goto(c, "update")
           /\ Reads
    <2>1. e \in Ledger!Reserved /\ intents[e] \in Ledger!Row
        BY <1>1 DEF Moving, Ledger!Reserved, StoreInv, LedgerInv
    <2>2. s \in EffectStatus /\ intents[e].version \in Nat
        BY <2>1, LedgerTerms DEF Ledger!Row
    <2> HIDE DEF s
    <2>3. /\ mem' \in [Clients -> Memory] /\ \A d \in Others(c) : mem'[d] = mem[d]
          /\ mem'[c] = [mem[c] EXCEPT !.status = s]
        BY <1>1, <1>3, <2>2 DEF SessionType, Memory, Others
    <2>4. /\ Quiet(c) /\ pc'[c] = "update" /\ UNCHANGED <<committed, call>>
          /\ locks' = locks /\ tx' = tx
        <3>1. "update" \in Statements \ {"broken"}
            BY DEF Statements
        <3> QED BY <1>3, <2>3, <3>1, ReadsQuiet
    <2>5. /\ mem'[c].status = s /\ mem'[c].batch = mem[c].batch
          /\ mem'[c].effect = mem[c].effect
        BY <1>1, <2>3 DEF SessionType, Memory
    <2>6. Written(c)'
        <3>1. Touched(c)' = Touched(c) /\ Told(c)' = Told(c)
            BY <1>1, <2>4, <2>5 DEF Touched, Told
        <3> QED BY <1>1, <2>4, <2>5, <3>1, WrittenStays DEF Inserted
    <2>7. Moving(c)'
        <3>1. /\ UNCHANGED <<intents, call, locks>>
              /\ Ledger!Reserved' = Ledger!Reserved
            BY <2>4, SameCall
        <3> QED BY <1>1, <1>3, <2>2, <2>4, <2>5, <3>1 DEF Moving, s
    <2>8. \A d \in Others(c) : Apart(c, d)'
        BY <1>1, <2>4, ApartStays
    <2>9. Counting(c)' /\ pc'[c] # "idle" /\ call'[c].op = "transition"
        BY <1>1, <2>4 DEF Counting
    <2> QED BY <2>4, <2>6, <2>7, <2>8, <2>9, LocalByCall, QuietKeeps
<1> QED BY <1>2, <1>3 DEF Read

\* The lock on its row makes the number that a client computes the next one.
LEMMA SelectMaxKeeps ==
    ASSUME StoreInv, NEW c \in Clients, SelectMax(c)
    PROVE  StoreInv' /\ UNCHANGED <<intents, attempts, events>>
<1> DEFINE e == mem[c].effect
           n == Cardinality(events[e]) + 1
<1>1. /\ pc[c] = "max" /\ Local(c) /\ Written(c) /\ SessionType
      /\ Reads /\ Goto(c, "event")
      /\ call[c].op \in {"reserve", "claim_due", "start_attempt", "transition"}
    BY CallOf DEF SelectMax, StoreInv, Local
<1>2. n \in Nat /\ mem' = [mem EXCEPT ![c].number = n]
    <2>1. e \in Effects /\ e \notin Told(c)
        BY <1>1, InHand DEF Told
    <2> DEFINE m == Max({0} \cup {ev.sequence : ev \in Trail(c, e)})
    <2>2. m = Cardinality(events[e]) /\ Cardinality(events[e]) \in Nat
        BY <2>1, TrailRead
    <2>3. mem' = [mem EXCEPT ![c].number = m + 1]
        BY DEF SelectMax
    <2> HIDE DEF m
    <2> QED BY <2>2, <2>3
<1> HIDE DEF n
<1>3. /\ mem' \in [Clients -> Memory] /\ \A d \in Others(c) : mem'[d] = mem[d]
      /\ mem'[c] = [mem[c] EXCEPT !.number = n]
    BY <1>1, <1>2 DEF SessionType, Memory, Others
<1>4. /\ Quiet(c) /\ pc'[c] = "event" /\ UNCHANGED <<committed, call>>
      /\ locks' = locks /\ tx' = tx
    <2>1. "event" \in Statements \ {"broken"}
        BY DEF Statements
    <2> QED BY <1>1, <1>3, <2>1, ReadsQuiet
<1>5. /\ mem'[c].number = n /\ mem'[c].batch = mem[c].batch
      /\ mem'[c].effect = mem[c].effect /\ mem'[c].rows = mem[c].rows
      /\ mem'[c].status = mem[c].status
    BY <1>1, <1>3 DEF SessionType, Memory
<1>6. Touched(c)' = Touched(c) /\ Told(c)' = Told(c)
    BY <1>1, <1>4, <1>5 DEF Touched, Told
<1>7. Written(c)'
    BY <1>1, <1>4, <1>5, <1>6, WrittenStays DEF Inserted
<1>8. /\ UNCHANGED <<intents, events, attempts, call, locks>>
      /\ Ledger!Reserved' = Ledger!Reserved
      /\ \A k : Holding(k)' = Holding(k)
    BY <1>4, SameCall
<1>9. Counting(c)' /\ pc'[c] # "idle" /\ call'[c] = call[c]
    BY <1>4, <1>5, <1>8 DEF Counting, n
<1>10. \A d \in Others(c) : Apart(c, d)'
    BY <1>1, <1>4, ApartStays DEF Inserted
<1>11. CASE call[c].op = "reserve"
    <2>1. Reserving(c)'
        BY <1>1, <1>11, <1>4, <1>5, <1>8 DEF Local, Reserving, Inserted
    <2> QED BY <1>4, <1>7, <1>9, <1>10, <1>11, <2>1, LocalByCall, QuietKeeps
<1>12. CASE call[c].op = "claim_due"
    <2>1. Claiming(c)'
        BY <1>1, <1>12, <1>4, <1>5, <1>6, <1>8 DEF Local, Claiming
    <2> QED BY <1>4, <1>7, <1>9, <1>10, <1>12, <2>1, LocalByCall, QuietKeeps
<1>13. CASE call[c].op = "start_attempt"
    <2>1. Attempting(c)'
        BY <1>1, <1>13, <1>4, <1>5, <1>8 DEF Local, Attempting
    <2> QED BY <1>4, <1>7, <1>9, <1>10, <1>13, <2>1, LocalByCall, QuietKeeps
<1>14. CASE call[c].op = "transition"
    <2>1. Moving(c)'
        BY <1>1, <1>14, <1>4, <1>5, <1>8 DEF Local, Moving
    <2> QED BY <1>4, <1>7, <1>9, <1>10, <1>14, <2>1, LocalByCall, QuietKeeps
<1> QED BY <1>1, <1>11, <1>12, <1>13, <1>14

\* A client that locks a row nobody has locked stays apart from the others.
LEMMA ApartLocked ==
    ASSUME StoreInv, NEW c \in Clients, Quiet(c), NEW d \in Others(c),
           NEW e, Unlocked(c, e), locks'[c] = locks[c] \cup {e},
           call'[c] = call[c],
           call[c].op = "reserve" /\ call[d].op = "reserve" /\ pc[d] \in Inserted
               => pc[c] \in Inserted \/ call[d].key # call[c].key
    PROVE  Apart(c, d)'
<1>1. Apart(c, d) /\ e \notin locks[d]
    BY DEF StoreInv, Others, Unlocked
<1>2. /\ pc'[d] = pc[d] /\ call'[d] = call[d] /\ locks'[d] = locks[d]
    BY DEF Quiet
<1> QED BY <1>1, <1>2 DEF Apart

LEMMA LockRowKeeps ==
    ASSUME StoreAssumption, StoreInv, NEW c \in Clients, NEW e \in Effects,
           LockRow(c, e)
    PROVE  StoreInv' /\ UNCHANGED <<intents, attempts, events>>
<1>1. /\ pc[c] = "lock" /\ e \in mem[c].rows /\ Cardinality(mem[c].batch) < Limit
      /\ UNCHANGED <<now, committed, pc, call, tx>>
      /\ call[c].op = "claim_due"
      /\ Claiming(c) /\ Written(c) /\ SessionType
    BY CallOf DEF LockRow, StoreInv, Local
<1>2. /\ locks[c] = mem[c].batch /\ e \in Ledger!Reserved
      /\ intents[e] \in Ledger!Row
    BY <1>1 DEF Claiming, Ledger!Reserved, StoreInv, LedgerInv
<1>3. CASE /\ Unlocked(c, e) /\ Due(intents[e], call[c].now)
           /\ mem' = [mem EXCEPT ![c].rows = @ \ {e}, ![c].batch = @ \cup {e}]
           /\ locks' = [locks EXCEPT ![c] = @ \cup {e}]
    <2>1. mem'[c] = [mem[c] EXCEPT !.rows = mem[c].rows \ {e},
                                   !.batch = mem[c].batch \cup {e}]
        BY <1>1, <1>3 DEF SessionType, Memory
    <2>2. /\ mem'[c].rows = mem[c].rows \ {e}
          /\ mem'[c].batch = mem[c].batch \cup {e}
          /\ mem'[c] \in Memory
        <3> DEFINE R == mem[c].rows \ {e}
                   B == mem[c].batch \cup {e}
        <3>1. R \in SUBSET Effects /\ B \in SUBSET Effects /\ mem[c] \in Memory
            BY <1>1 DEF SessionType, Memory
        <3> HIDE DEF R, B
        <3>2. mem'[c] = [mem[c] EXCEPT !.rows = R, !.batch = B]
            BY <2>1 DEF R, B
        <3>3. mem'[c].rows = R /\ mem'[c].batch = B /\ mem'[c] \in Memory
            BY <3>1, <3>2 DEF Memory
        <3> QED BY <3>3 DEF R, B
    <2>3. /\ locks'[c] = locks[c] \cup {e}
          /\ \A d \in Others(c) : mem'[d] = mem[d] /\ locks'[d] = locks[d]
        BY <1>1, <1>3 DEF SessionType, Others
    <2>4. SessionType'
        <3>1. mem' \in [Clients -> Memory] /\ locks' \in [Clients -> SUBSET Effects]
            BY <1>1, <1>3, <2>2 DEF SessionType
        <3> QED BY <1>1, <3>1 DEF SessionType
    <2>5. Quiet(c)
        BY <1>1, <2>3, <2>4 DEF Quiet
    <2>6. Touched(c) = {} /\ Touched(c)' = {} /\ Told(c) = {} /\ Told(c)' = {}
        BY <1>1, <1>2, <2>2, <2>3 DEF Touched, Told
    <2>7. Written(c)'
        BY <1>1, <2>6, WrittenStays
    <2>8. IsFiniteSet(locks'[c]) /\ Cardinality(locks'[c]) <= Limit
        <3>1. IsFiniteSet(locks[c]) /\ Cardinality(locks[c]) \in Nat
            BY <1>1, FS_CardinalityType DEF Claiming
        <3>2. Cardinality(locks[c]) < Limit /\ Limit \in Nat
            BY <1>1, <1>2 DEF StoreAssumption
        <3>3. CASE e \in locks[c]
            <4>1. locks'[c] = locks[c]
                BY <2>3, <3>3
            <4> QED BY <3>1, <3>2, <4>1
        <3>4. CASE e \notin locks[c]
            <4>1. /\ IsFiniteSet(locks[c] \cup {e})
                  /\ Cardinality(locks[c] \cup {e}) = Cardinality(locks[c]) + 1
                BY <3>1, <3>4, FS_AddElement
            <4> QED BY <2>3, <3>1, <3>2, <4>1
        <3> QED BY <3>3, <3>4
    <2>9. Ledger!Due(intents[e], call[c].now)
        <3>1. call[c].now \in Nat
            BY <1>1, CallFields
        <3> QED BY <1>2, <1>3, <3>1, LedgerTerms DEF Due, Ledger!Due, Ledger!Row
    <2>10. Claiming(c)'
        <3>1. /\ UNCHANGED <<intents, call>> /\ Ledger!Reserved' = Ledger!Reserved
            BY <1>1, SameCall
        <3> QED BY <1>1, <1>2, <2>2, <2>3, <2>8, <2>9, <3>1 DEF Claiming
    <2>11. \A d \in Others(c) : Apart(c, d)'
        BY <1>1, <1>3, <2>3, <2>5, ApartLocked
    <2>12. Counting(c)' /\ pc'[c] # "idle" /\ call'[c].op = "claim_due"
        BY <1>1 DEF Counting
    <2> QED BY <2>5, <2>7, <2>10, <2>11, <2>12, LocalByCall, QuietKeeps
<1>4. CASE /\ mem' = [mem EXCEPT ![c].rows = @ \ {e}]
           /\ locks' = locks
    <2>1. mem'[c] = [mem[c] EXCEPT !.rows = mem[c].rows \ {e}]
        BY <1>1, <1>4 DEF SessionType, Memory
    <2>2. /\ mem'[c].rows = mem[c].rows \ {e}
          /\ mem'[c].batch = mem[c].batch
          /\ mem'[c] \in Memory
        BY <1>1, <2>1 DEF SessionType, Memory
    <2>3. \A d \in Others(c) : mem'[d] = mem[d]
        BY <1>1, <1>4 DEF SessionType, Others
    <2>4. SessionType'
        <3>1. mem' \in [Clients -> Memory]
            BY <1>1, <1>4, <2>2 DEF SessionType
        <3> QED BY <1>1, <1>4, <3>1 DEF SessionType
    <2>5. Quiet(c)
        BY <1>1, <1>4, <2>3, <2>4 DEF Quiet
    <2>6. Touched(c)' = Touched(c) /\ Told(c)' = Told(c)
        BY <1>1, <1>4, <2>2 DEF Touched, Told
    <2>7. Written(c)'
        BY <1>1, <2>6, WrittenStays
    <2>8. Claiming(c)'
        <3>1. /\ UNCHANGED <<intents, call>> /\ Ledger!Reserved' = Ledger!Reserved
            BY <1>1, SameCall
        <3> QED BY <1>1, <1>4, <2>2, <3>1 DEF Claiming
    <2>9. \A d \in Others(c) : Apart(c, d)'
        BY <1>1, <1>4, <2>5, ApartStays
    <2>10. Counting(c)' /\ pc'[c] # "idle" /\ call'[c].op = "claim_due"
        BY <1>1 DEF Counting
    <2> QED BY <2>5, <2>7, <2>8, <2>9, <2>10, LocalByCall, QuietKeeps
<1> QED BY <1>3, <1>4 DEF LockRow

\* The version and the edge of the row that start_attempt goes by are those of
\* the row it has locked.
LEMMA SelectForUpdateKeeps ==
    ASSUME StoreInv, NEW c \in Clients, SelectForUpdate(c)
    PROVE  StoreInv' /\ UNCHANGED <<intents, attempts, events>>
<1> DEFINE e == mem[c].effect
<1>1. /\ pc[c] = "select" /\ call[c].op = "start_attempt"
      /\ Attempting(c) /\ Written(c) /\ SessionType
    BY CallOf DEF SelectForUpdate, StoreInv, Local
<1>2. CASE Rollback(c)
    BY <1>2, RollbackKeeps
<1>3. CASE /\ intents[e].version = call[c].version
           /\ Lock(c, e)
           /\ Goto(c, "count")
           /\ UNCHANGED <<now, committed, call, mem, tx>>
    <2>1. /\ pc' = [pc EXCEPT ![c] = "count"]
          /\ locks' = [locks EXCEPT ![c] = @ \cup {e}] /\ Unlocked(c, e)
          /\ e \in Effects /\ locks[c] = {} /\ "count" \in Statements \ {"broken"}
        BY <1>1, <1>3 DEF Lock, Goto, Attempting, Ledger!Reserved, Statements
    <2>2. SessionType'
        BY <1>1, <1>3, <2>1 DEF SessionType
    <2>3. /\ Quiet(c) /\ pc'[c] = "count" /\ locks'[c] = {e}
        BY <1>1, <1>3, <2>1, <2>2 DEF Quiet, SessionType, Others
    <2>4. Told(c) = {} /\ Told(c)' = {}
        BY <1>1, <1>3, <2>1, <2>3 DEF Told, Touched
    <2>5. Written(c)'
        BY <1>1, <1>3, <2>3, <2>4, WrittenStays DEF Inserted
    <2>6. Attempting(c)'
        <3>1. /\ UNCHANGED <<intents, call>> /\ Ledger!Reserved' = Ledger!Reserved
            BY <1>3, SameCall
        <3> QED BY <1>1, <1>3, <2>3, <3>1 DEF Attempting
    <2>7. \A d \in Others(c) : Apart(c, d)'
        BY <1>1, <1>3, <2>1, <2>3, ApartLocked
    <2>8. Counting(c)' /\ pc'[c] # "idle" /\ call'[c].op = "start_attempt"
        BY <1>1, <1>3, <2>3 DEF Counting
    <2> QED BY <2>3, <2>5, <2>6, <2>7, <2>8, LocalByCall, QuietKeeps
<1> QED BY <1>2, <1>3 DEF SelectForUpdate

LEMMA PutRow ==
    ASSUME StoreInv, NEW c \in Clients, NEW e \in Effects, NEW row \in Ledger!Row,
           Put(c, e, row)
    PROVE  /\ tx' \in [Clients -> Writes]
           /\ \A d \in Others(c) : tx'[d] = tx[d]
           /\ DOMAIN tx'[c].intents = DOMAIN tx[c].intents \cup {e}
           /\ \A f \in DOMAIN tx'[c].intents :
                 tx'[c].intents[f] = IF f = e THEN row ELSE tx[c].intents[f]
           /\ tx'[c].events = tx[c].events /\ tx'[c].attempts = tx[c].attempts
           /\ tx'[c].receipts = tx[c].receipts
<1> DEFINE D == DOMAIN tx[c].intents \cup {e}
           F == [f \in D |-> IF f = e THEN row ELSE tx[c].intents[f]]
<1>1. tx \in [Clients -> Writes] /\ tx[c] \in Writes
    BY DEF StoreInv, SessionType
<1>2. F \in Rows
    <2>1. tx[c].intents \in Rows
        BY <1>1 DEF Writes
    <2>2. /\ DOMAIN tx[c].intents \in SUBSET Effects
          /\ \A f \in DOMAIN tx[c].intents : tx[c].intents[f] \in Ledger!Row
        BY <2>1 DEF Rows
    <2>3. D \in SUBSET Effects /\ F \in [D -> Ledger!Row]
        BY <2>2
    <2> HIDE DEF D, F
    <2> QED BY <2>3 DEF Rows
<1>3. tx' = [tx EXCEPT ![c].intents = F]
    BY <1>1 DEF Put
<1>4. DOMAIN F = D /\ \A f \in D : F[f] = IF f = e THEN row ELSE tx[c].intents[f]
    OBVIOUS
<1> HIDE DEF F
<1>5. tx'[c] = [tx[c] EXCEPT !.intents = F] /\ \A d \in Others(c) : tx'[d] = tx[d]
    BY <1>1, <1>3 DEF Others
<1>6. /\ tx'[c].intents = F /\ tx'[c] \in Writes
      /\ tx'[c].events = tx[c].events /\ tx'[c].attempts = tx[c].attempts
      /\ tx'[c].receipts = tx[c].receipts
    BY <1>1, <1>2, <1>5 DEF Writes
<1>7. tx' \in [Clients -> Writes]
    BY <1>1, <1>3, <1>6
<1> QED BY <1>4, <1>5, <1>6, <1>7

\* The row of a call is written once, when it is in hand.
LEMMA PutIsWritten ==
    ASSUME StoreInv, NEW c \in Clients, NEW e \in Effects, NEW row \in Ledger!Row,
           Put(c, e, row), row = RowFor(c, e), UNCHANGED <<committed, call>>,
           call[c].op # "start_attempt",
           pc[c] \in {"insert", "claim", "update"}, pc'[c] = "max",
           mem'[c].effect = e,
           e \notin Touched(c), Touched(c)' = Touched(c) \cup {e}
    PROVE  Written(c)'
<1>1. Written(c)
    BY DEF StoreInv, Local
<1>2. /\ call' = call
      /\ \A f : /\ RowFor(c, f)' = RowFor(c, f)
                /\ EventFor(c, f)' = EventFor(c, f)
    BY SameCall
<1>3. /\ DOMAIN tx'[c].intents = Touched(c)'
      /\ \A f \in DOMAIN tx'[c].intents : tx'[c].intents[f] = RowFor(c, f)
      /\ tx'[c].events = tx[c].events /\ tx'[c].attempts = tx[c].attempts
      /\ tx'[c].receipts = tx[c].receipts
    <2>1. /\ DOMAIN tx'[c].intents = DOMAIN tx[c].intents \cup {e}
          /\ \A f \in DOMAIN tx'[c].intents :
                tx'[c].intents[f] = IF f = e THEN row ELSE tx[c].intents[f]
          /\ tx'[c].events = tx[c].events /\ tx'[c].attempts = tx[c].attempts
          /\ tx'[c].receipts = tx[c].receipts
        BY PutRow
    <2> QED BY <1>1, <2>1 DEF Written
<1>4. Told(c)' = Told(c)
    BY DEF Told
<1>5. {<<f, EventFor(c, f)'>> : f \in Told(c)'}
          = {<<f, EventFor(c, f)>> : f \in Told(c)}
    BY <1>2, <1>4
<1> QED BY <1>1, <1>2, <1>3, <1>5 DEF Written

LEMMA InsertIntentKeeps ==
    ASSUME StoreAssumption, StoreInv, NEW c \in Clients, InsertIntent(c)
    PROVE  StoreInv' /\ UNCHANGED <<intents, attempts, events>>
<1> DEFINE e == mem[c].effect
           k == call[c].key
<1>1. /\ pc[c] = "insert" /\ call[c].op = "reserve"
      /\ UNCHANGED <<now, committed, call, mem>>
      /\ Reserving(c) /\ Written(c) /\ SessionType
      /\ k \in Keys /\ call[c].digest \in Digests
    BY CallOf, CallFields DEF InsertIntent, StoreInv, Local
<1>2. /\ UNCHANGED <<intents, call>> /\ Ledger!Reserved' = Ledger!Reserved
      /\ \A f : Holding(f)' = Holding(f)
    BY <1>1, SameCall
<1>3. /\ e = call[c].effect /\ e \in Effects /\ locks[c] = {}
      /\ mem[c].batch = {} /\ Touched(c) = {}
    BY <1>1, CallFields DEF Reserving, Inserted, Touched
<1>4. CASE /\ Holding(k) = {}
           /\ Put(c, e, NewRow(c))
           /\ Lock(c, e)
           /\ Goto(c, "max")
    <2>1. /\ pc' = [pc EXCEPT ![c] = "max"]
          /\ locks' = [locks EXCEPT ![c] = @ \cup {e}] /\ Unlocked(c, e)
          /\ "max" \in Statements \ {"broken"}
        BY <1>4 DEF Lock, Goto, Statements
    <2>2. NewRow(c) \in Ledger!Row /\ NewRow(c) = RowFor(c, e)
        BY <1>1, LedgerTerms DEF NewRow, RowFor, Ledger!Row, EffectStatus
    <2>3. tx' \in [Clients -> Writes] /\ \A d \in Others(c) : tx'[d] = tx[d]
        BY <1>3, <1>4, <2>2, PutRow
    <2>4. SessionType'
        BY <1>1, <1>3, <2>1, <2>3 DEF SessionType
    <2>5. /\ Quiet(c) /\ pc'[c] = "max" /\ locks'[c] = {e}
        BY <1>1, <1>3, <2>1, <2>3, <2>4 DEF Quiet, SessionType, Others
    <2>6. Touched(c)' = Touched(c) \cup {e}
        BY <1>1, <1>3, <2>5 DEF Touched
    <2>7. Written(c)'
        BY <1>1, <1>3, <1>4, <2>2, <2>5, <2>6, PutIsWritten
    <2>8. Reserving(c)'
        BY <1>1, <1>2, <1>3, <1>4, <2>5 DEF Reserving, Inserted
    <2>9. ASSUME NEW d \in Others(c)
          PROVE  Apart(c, d)'
        <3>1. ASSUME call[d].op = "reserve", pc[d] \in Inserted
              PROVE  call[d].key # k
            <4> DEFINE f == call[d].effect
            <4>1. /\ intents[f] = NoRow /\ f \in DOMAIN tx[d].intents
                  /\ tx[d].intents[f] = RowFor(d, f)
                <5>1. Reserving(d) /\ Written(d)
                    BY DEF StoreInv, Local, Others
                <5>2. f \in Touched(d)
                    BY <3>1, <5>1 DEF Reserving, Touched, Inserted
                <5> QED BY <3>1, <5>1, <5>2 DEF Reserving, Written
            <4>2. tx[d].intents[f].key = call[d].key
                BY <3>1, <4>1 DEF RowFor, NewRow
            <4>3. tx[d].intents[f].key # k
                BY <1>1, <4>1 DEF InsertIntent, Waits, Blocks
            <4> QED BY <4>2, <4>3
        <3>2. locks'[c] = locks[c] \cup {e} /\ call'[c] = call[c]
            BY <1>2, <1>3, <2>5
        <3> QED BY <2>1, <2>5, <3>1, <3>2, ApartLocked
    <2>10. Counting(c)' /\ pc'[c] # "idle" /\ call'[c].op = "reserve"
        BY <1>1, <2>5 DEF Counting
    <2> QED BY <2>5, <2>7, <2>8, <2>9, <2>10, LocalByCall, QuietKeeps
<1>5. CASE /\ Holding(k) # {}
           /\ Goto(c, "existing")
           /\ UNCHANGED <<locks, tx>>
    <2>1. Reads /\ "existing" \in Statements \ {"broken"}
        BY <1>1, <1>5 DEF Reads, Statements
    <2>2. /\ Quiet(c) /\ pc'[c] = "existing"
        BY <1>1, <1>5, <2>1, ReadsQuiet DEF SessionType
    <2>3. Written(c)'
        <3>1. Touched(c)' = Touched(c) /\ Told(c)' = Told(c)
            BY <1>1, <1>5, <2>2 DEF Touched, Told
        <3> QED BY <1>1, <1>5, <3>1, WrittenStays
    <2>4. Reserving(c)'
        BY <1>1, <1>2, <1>3, <1>5, <2>2 DEF Reserving, Inserted
    <2>5. \A d \in Others(c) : Apart(c, d)'
        BY <1>1, <1>5, <2>2, ApartStays DEF Inserted
    <2>6. Counting(c)' /\ pc'[c] # "idle" /\ call'[c].op = "reserve"
        BY <1>1, <2>2 DEF Counting
    <2> QED BY <2>2, <2>3, <2>4, <2>5, <2>6, LocalByCall, QuietKeeps
<1> QED BY <1>4, <1>5 DEF InsertIntent

LEMMA UpdateClaimedKeeps ==
    ASSUME StoreAssumption, StoreInv, NEW c \in Clients, NEW e \in Effects,
           UpdateClaimed(c, e)
    PROVE  StoreInv' /\ UNCHANGED <<intents, attempts, events>>
<1> DEFINE row == Claimed(View(c, e), call[c].now)
<1>1. /\ pc[c] = "claim" /\ e \in mem[c].batch /\ call[c].op = "claim_due"
      /\ UNCHANGED <<now, committed, call, locks>> /\ Put(c, e, row)
      /\ mem' = [mem EXCEPT ![c].effect = e, ![c].batch = @ \ {e}]
      /\ pc' = [pc EXCEPT ![c] = "max"]
      /\ Claiming(c) /\ Written(c) /\ SessionType
    <2>1. /\ pc[c] = "claim" /\ e \in mem[c].batch
          /\ Claiming(c) /\ Written(c) /\ SessionType
        BY DEF UpdateClaimed, StoreInv, Local
    <2>2. call[c].op = "claim_due" /\ e \in locks[c]
        BY <2>1, CallOf DEF Claiming
    <2>3. locks' = locks
        BY <2>1, <2>2 DEF UpdateClaimed, Lock, SessionType
    <2> QED BY <2>1, <2>2, <2>3 DEF UpdateClaimed, Goto
<1>2. /\ UNCHANGED <<intents, call>> /\ Ledger!Reserved' = Ledger!Reserved
    BY <1>1, SameCall
<1>3. /\ e \in locks[c] /\ e \notin Touched(c) /\ mem[c].batch \subseteq Effects
    BY <1>1 DEF Claiming, Touched, SessionType, Memory
<1>4. row = RowFor(c, e) /\ row \in Ledger!Row
    <2>1. row = Claimed(intents[e], call[c].now)
        BY <1>1, <1>3 DEF View, Written
    <2>2. intents[e] \in Ledger!Row /\ call[c].now + LeaseFor \in Nat
        BY <1>1, <1>3, CallFields
        DEF Claiming, Ledger!Reserved, StoreInv, LedgerInv, StoreAssumption
    <2> DEFINE r == intents[e]
               l == call[c].now + LeaseFor
    <2>3. r.version + 1 \in Nat
        BY <2>2 DEF Ledger!Row
    <2>4. Claimed(r, call[c].now) = [r EXCEPT !.version = r.version + 1, !.lease = l]
        BY <2>2 DEF Claimed, Ledger!Row
    <2>5. row \in Ledger!Row
        <3>1. row = [r EXCEPT !.version = r.version + 1, !.lease = l]
            BY <2>1, <2>4
        <3>2. r \in Ledger!Row /\ l \in Nat
            BY <2>2
        <3> HIDE DEF r, l, row
        <3> QED BY <2>3, <3>1, <3>2, RowLeased
    <2> QED BY <1>1, <2>1, <2>5 DEF RowFor
<1> HIDE DEF row
<1>5. /\ mem'[c].effect = e /\ mem'[c].batch = mem[c].batch \ {e}
      /\ mem'[c].rows = mem[c].rows
      /\ mem'[c] \in Memory /\ \A d \in Others(c) : mem'[d] = mem[d]
    <2> DEFINE B == mem[c].batch \ {e}
    <2>1. B \in SUBSET Effects /\ mem[c] \in Memory
        BY <1>1, <1>3 DEF SessionType
    <2>2. /\ mem'[c] = [mem[c] EXCEPT !.effect = e, !.batch = B]
          /\ \A d \in Others(c) : mem'[d] = mem[d]
        BY <1>1 DEF SessionType, Memory, Others
    <2> HIDE DEF B
    <2>3. /\ mem'[c].effect = e /\ mem'[c].batch = B /\ mem'[c] \in Memory
          /\ mem'[c].rows = mem[c].rows
        BY <2>1, <2>2 DEF Memory
    <2> QED BY <2>2, <2>3 DEF B
<1>6. SessionType'
    <2>1. mem' \in [Clients -> Memory]
        BY <1>1, <1>5 DEF SessionType
    <2>2. tx' \in [Clients -> Writes]
        BY <1>1, <1>4, PutRow
    <2> QED BY <1>1, <2>1, <2>2 DEF SessionType, Statements
<1>7. Quiet(c) /\ pc'[c] = "max"
    <2>1. \A d \in Others(c) : tx'[d] = tx[d]
        BY <1>1, <1>4, PutRow
    <2> QED BY <1>1, <1>5, <1>6, <2>1 DEF Quiet, SessionType, Others
<1>8. Touched(c)' = Touched(c) \cup {e}
    BY <1>1, <1>3, <1>5 DEF Touched
<1>9. Written(c)'
    BY <1>1, <1>3, <1>4, <1>5, <1>7, <1>8, PutIsWritten
<1>10. Claiming(c)'
    BY <1>1, <1>2, <1>5, <1>7, <1>8 DEF Claiming
<1>11. \A d \in Others(c) : Apart(c, d)'
    BY <1>1, <1>7, ApartStays
<1>12. Counting(c)' /\ pc'[c] # "idle" /\ call'[c].op = "claim_due"
    BY <1>1, <1>7 DEF Counting
<1> QED BY <1>7, <1>9, <1>10, <1>11, <1>12, LocalByCall, QuietKeeps

LEMMA MovedRow ==
    ASSUME NEW r \in Ledger!Row, NEW target \in EffectStatus
    PROVE  /\ Moved(r, target) \in Ledger!Row
           /\ Moved(r, target).key = r.key /\ Moved(r, target).digest = r.digest
           /\ Moved(r, target).status = target /\ Moved(r, target).lease = 0
           /\ Moved(r, target).version = r.version + 1
<1>1. r.version + 1 \in Nat
    BY DEF Ledger!Row
<1>2. Moved(r, target) = [r EXCEPT !.status = target, !.version = r.version + 1,
                                   !.lease = 0]
    BY DEF Moved, Ledger!Row
<1>3. Moved(r, target) \in Ledger!Row
    <2> DEFINE v == r.version + 1
               q == Moved(r, target)
    <2>1. /\ target \in Ledger!EffectStatus /\ v \in Nat
          /\ q = [r EXCEPT !.status = target, !.version = v, !.lease = 0]
        BY <1>1, <1>2, LedgerTerms
    <2> HIDE DEF v, q
    <2>2. q \in Ledger!Row
        BY <2>1 DEF Ledger!Row
    <2> QED BY <2>2 DEF q
<1> QED BY <1>2, <1>3 DEF Ledger!Row

\* The fence: the row that is written is the one that was checked, or none is.
LEMMA UpdateKeeps ==
    ASSUME StoreInv, NEW c \in Clients, Update(c)
    PROVE  StoreInv' /\ UNCHANGED <<intents, attempts, events>>
<1> DEFINE e == mem[c].effect
           row == Moved(intents[e], call[c].target)
<1>1. /\ pc[c] = "update" /\ call[c].op = "transition"
      /\ Moving(c) /\ Written(c) /\ SessionType
    BY CallOf DEF Update, StoreInv, Local
<1>2. CASE Rollback(c)
    BY <1>2, RollbackKeeps
<1>3. CASE /\ intents[e].version = call[c].version
           /\ Lock(c, e)
           /\ Put(c, e, row)
           /\ Goto(c, "max")
           /\ UNCHANGED <<now, committed, call, mem>>
    <2>1. /\ pc' = [pc EXCEPT ![c] = "max"]
          /\ locks' = [locks EXCEPT ![c] = @ \cup {e}] /\ Unlocked(c, e)
          /\ e \in Effects /\ locks[c] = {} /\ "max" \in Statements \ {"broken"}
        BY <1>1, <1>3 DEF Lock, Goto, Moving, Ledger!Reserved, Statements
    <2>2. row = RowFor(c, e) /\ row \in Ledger!Row
        <3>1. intents[e] \in Ledger!Row /\ call[c].target \in EffectStatus
            BY <1>1, CallFields DEF Moving, Ledger!Reserved, StoreInv, LedgerInv
        <3> QED BY <1>1, <3>1, MovedRow DEF RowFor
    <2> HIDE DEF row
    <2>3. tx' \in [Clients -> Writes] /\ \A d \in Others(c) : tx'[d] = tx[d]
        BY <1>3, <2>1, <2>2, PutRow
    <2>4. SessionType'
        BY <1>1, <1>3, <2>1, <2>3 DEF SessionType
    <2>5. /\ Quiet(c) /\ pc'[c] = "max" /\ locks'[c] = {e}
        BY <1>1, <1>3, <2>1, <2>3, <2>4 DEF Quiet, SessionType, Others
    <2>6. Touched(c) = {} /\ Touched(c)' = Touched(c) \cup {e}
        BY <1>1, <1>3, <2>1, <2>5 DEF Touched, Moving
    <2>7. Written(c)'
        BY <1>1, <1>3, <2>1, <2>2, <2>5, <2>6, PutIsWritten
    <2>8. Moving(c)'
        <3>1. /\ UNCHANGED <<intents, call>> /\ Ledger!Reserved' = Ledger!Reserved
            BY <1>3, SameCall
        <3> QED BY <1>1, <1>3, <2>5, <3>1 DEF Moving
    <2>9. \A d \in Others(c) : Apart(c, d)'
        BY <1>1, <1>3, <2>1, <2>5, ApartLocked
    <2>10. Counting(c)' /\ pc'[c] # "idle" /\ call'[c].op = "transition"
        BY <1>1, <1>3, <2>5 DEF Counting
    <2> QED BY <2>5, <2>7, <2>8, <2>9, <2>10, LocalByCall, QuietKeeps
<1> QED BY <1>2, <1>3 DEF Update

\* COUNT(*) + 1 under the row's lock is an ordinal nobody has: no constraint
\* fails.
LEMMA InsertAttemptKeeps ==
    ASSUME StoreInv, NEW c \in Clients, InsertAttempt(c)
    PROVE  StoreInv' /\ UNCHANGED <<intents, attempts, events>>
<1> DEFINE e == mem[c].effect
           a == [ordinal |-> mem[c].number, version |-> call[c].version]
<1>1. /\ pc[c] = "attempt" /\ call[c].op = "start_attempt"
      /\ UNCHANGED <<now, committed, call, mem, locks>>
      /\ tx' = [tx EXCEPT ![c].attempts = @ \cup {<<e, a>>}]
      /\ Attempting(c) /\ Written(c) /\ SessionType
    BY CallOf DEF InsertAttempt, StoreInv, Local
<1>2. /\ e \in Effects /\ intents[e].version = call[c].version
      /\ mem[c].number = Cardinality(attempts[e]) + 1
      /\ Cardinality(attempts[e]) \in Nat /\ call[c].version \in Nat
      /\ \A b \in attempts[e] : b.ordinal <= Cardinality(attempts[e])
      /\ attempts[e] \subseteq Ledger!Attempt
    BY <1>1, CallFields, FS_CardinalityType
    DEF Attempting, Ledger!Reserved, StoreInv, LedgerInv, Consistent, Counted
<1>3. pc' = [pc EXCEPT ![c] = "max"]
    <2>1. ~Taken(c)
        BY <1>2 DEF Taken, Ledger!Attempt
    <2> QED BY <2>1 DEF InsertAttempt, Goto
<1>4. a = AttemptFor(e) /\ <<e, a>> \in Effects \X Ledger!Attempt
    BY <1>2 DEF AttemptFor, Ledger!Attempt
<1> HIDE DEF a
<1>5. /\ tx'[c].attempts = {<<e, a>>}
      /\ tx'[c].intents = tx[c].intents /\ tx'[c].events = tx[c].events
      /\ tx'[c].receipts = tx[c].receipts
      /\ tx'[c] \in Writes /\ \A d \in Others(c) : tx'[d] = tx[d]
    <2>1. tx[c] \in Writes /\ tx[c].attempts = {}
        BY <1>1 DEF SessionType, Written
    <2>2. /\ tx'[c] = [tx[c] EXCEPT !.attempts = {<<e, a>>}]
          /\ \A d \in Others(c) : tx'[d] = tx[d]
        BY <1>1, <2>1 DEF SessionType, Others
    <2> DEFINE X == {<<e, a>>}
    <2>3. X \in SUBSET (Effects \X Ledger!Attempt)
        BY <1>4
    <2> HIDE DEF X
    <2> QED BY <2>1, <2>2, <2>3 DEF Writes, X
<1>6. SessionType'
    <2>1. tx' \in [Clients -> Writes]
        BY <1>1, <1>5 DEF SessionType
    <2> QED BY <1>1, <1>3, <2>1 DEF SessionType, Statements
<1>7. Quiet(c) /\ pc'[c] = "max"
    BY <1>1, <1>3, <1>5, <1>6 DEF Quiet, SessionType, Others
<1>8. /\ UNCHANGED <<intents, attempts, call>> /\ Ledger!Reserved' = Ledger!Reserved
      /\ \A f : AttemptFor(f)' = AttemptFor(f)
      /\ \A f : EventFor(c, f)' = EventFor(c, f)
    BY <1>1, SameCall
<1>9. Written(c)'
    <2>1. Told(c) = {} /\ Told(c)' = {}
        BY <1>1, <1>7 DEF Attempting, Told, Touched
    <2>2. {<<f, EventFor(c, f)>> : f \in {}} = {}
        OBVIOUS
    <2>3. {<<f, EventFor(c, f)'>> : f \in {}} = {}
        OBVIOUS
    <2> QED BY <1>1, <1>4, <1>5, <1>7, <1>8, <2>1, <2>2, <2>3 DEF Written
<1>10. Attempting(c)'
    BY <1>1, <1>2, <1>7, <1>8 DEF Attempting
<1>11. \A d \in Others(c) : Apart(c, d)'
    BY <1>1, <1>7, ApartStays
<1>12. Counting(c)' /\ pc'[c] # "idle" /\ call'[c].op = "start_attempt"
    BY <1>1, <1>7 DEF Counting
<1> QED BY <1>7, <1>9, <1>10, <1>11, <1>12, LocalByCall, QuietKeeps

\* A move to "succeeded" starts elsewhere, so its receipt is the first.
LEMMA InsertReceiptKeeps ==
    ASSUME StoreInv, NEW c \in Clients, InsertReceipt(c)
    PROVE  StoreInv' /\ UNCHANGED <<intents, attempts, events>>
<1> DEFINE e == mem[c].effect
<1>1. /\ pc[c] = "receipt" /\ call[c].op = "transition"
      /\ UNCHANGED <<now, committed, call, mem, locks>>
      /\ tx' = [tx EXCEPT ![c].receipts = @ \cup {e}]
      /\ Moving(c) /\ Written(c) /\ SessionType
    BY CallOf DEF InsertReceipt, StoreInv, Local
<1>2. /\ e \in Effects /\ e \in Ledger!Reserved /\ call[c].target = "succeeded"
      /\ IsAllowed(intents[e].status, "succeeded")
    BY <1>1 DEF Moving, Ledger!Reserved
<1>3. pc' = [pc EXCEPT ![c] = "commit"]
    <2>1. intents[e].status # "succeeded"
        BY <1>2 DEF IsAllowed
    <2>2. e \notin receipts
        BY <1>2, <2>1 DEF StoreInv, LedgerInv, Consistent, Ledger!Reserved
    <2> QED BY <2>2 DEF InsertReceipt, Goto
<1>4. /\ tx'[c].receipts = {e}
      /\ tx'[c].intents = tx[c].intents /\ tx'[c].events = tx[c].events
      /\ tx'[c].attempts = tx[c].attempts
      /\ tx'[c] \in Writes /\ \A d \in Others(c) : tx'[d] = tx[d]
    <2>1. tx[c] \in Writes /\ tx[c].receipts = {}
        BY <1>1 DEF SessionType, Written
    <2>2. /\ tx'[c] = [tx[c] EXCEPT !.receipts = {e}]
          /\ \A d \in Others(c) : tx'[d] = tx[d]
        BY <1>1, <2>1 DEF SessionType, Others
    <2> QED BY <1>2, <2>1, <2>2 DEF Writes
<1>5. SessionType'
    <2>1. tx' \in [Clients -> Writes]
        BY <1>1, <1>4 DEF SessionType
    <2> QED BY <1>1, <1>3, <2>1 DEF SessionType, Statements
<1>6. Quiet(c) /\ pc'[c] = "commit"
    BY <1>1, <1>3, <1>4, <1>5 DEF Quiet, SessionType, Others
<1>7. /\ UNCHANGED <<intents, attempts, call>> /\ Ledger!Reserved' = Ledger!Reserved
      /\ \A f : RowFor(c, f)' = RowFor(c, f)
      /\ \A f : EventFor(c, f)' = EventFor(c, f)
    BY <1>1, SameCall
<1>8. Written(c)'
    <2>1. Told(c)' = Told(c) /\ Touched(c)' = Touched(c)
        BY <1>1, <1>6 DEF Told, Touched
    <2>2. {<<f, EventFor(c, f)'>> : f \in Told(c)'}
              = {<<f, EventFor(c, f)>> : f \in Told(c)}
        BY <1>7, <2>1
    <2>3. /\ DOMAIN tx'[c].intents = Touched(c)'
          /\ \A f \in DOMAIN tx'[c].intents : tx'[c].intents[f] = RowFor(c, f)'
        BY <1>1, <1>4, <1>7, <2>1 DEF Written
    <2>4. tx'[c].events = {<<f, EventFor(c, f)'>> : f \in Told(c)'}
        BY <1>1, <1>4, <2>2 DEF Written
    <2>5. tx'[c].attempts = {} /\ tx'[c].receipts = {mem'[c].effect}
        BY <1>1, <1>4 DEF Written
    <2>6. call'[c].op = "transition" /\ call'[c].target = "succeeded"
        BY <1>1, <1>2
    <2> QED BY <1>6, <2>3, <2>4, <2>5, <2>6 DEF Written
<1>9. Moving(c)'
    BY <1>1, <1>6, <1>7 DEF Moving
<1>10. \A d \in Others(c) : Apart(c, d)'
    BY <1>1, <1>6, ApartStays
<1>11. Counting(c)' /\ pc'[c] # "idle" /\ call'[c].op = "transition"
    BY <1>1, <1>6 DEF Counting
<1> QED BY <1>6, <1>8, <1>9, <1>10, <1>11, LocalByCall, QuietKeeps

\* The row in hand as its writer sees it, and the event the writer records.
LEMMA EventOfIsEventFor ==
    ASSUME StoreInv, NEW c \in Clients, pc[c] = "event"
    PROVE  /\ EventOf(c) = EventFor(c, mem[c].effect)
           /\ EventFor(c, mem[c].effect) \in Ledger!Event
<1> DEFINE e == mem[c].effect
           n == Cardinality(events[e])
<1>1. /\ Local(c) /\ Written(c) /\ Counting(c) /\ SessionType
      /\ call[c].op \in {"reserve", "claim_due", "start_attempt", "transition"}
      /\ e \in Touched(c) /\ e \in Effects
    BY CallOf, InHand DEF StoreInv, Local
<1>2. View(c, e) = RowFor(c, e) /\ RowFor(c, e) \in Ledger!Row
    <2>1. CASE call[c].op = "start_attempt"
        <3>1. e \notin DOMAIN tx[c].intents /\ e \in Ledger!Reserved
            BY <1>1, <2>1 DEF Written, Local, Attempting
        <3>2. intents[e] \in Ledger!Row
            BY <3>1 DEF Ledger!Reserved, StoreInv, LedgerInv
        <3> QED BY <2>1, <3>1, <3>2 DEF View, RowFor
    <2>2. CASE call[c].op # "start_attempt"
        <3>1. e \in DOMAIN tx[c].intents /\ tx[c].intents[e] = RowFor(c, e)
            BY <1>1, <2>2 DEF Written
        <3>2. tx[c].intents[e] \in Ledger!Row
            BY <1>1, <3>1 DEF SessionType, Writes, Rows
        <3> QED BY <3>1, <3>2 DEF View
    <2> QED BY <2>1, <2>2
<1>3. n \in Nat /\ mem[c].number = n + 1
    BY <1>1, FS_CardinalityType
    DEF Counting, StoreInv, LedgerInv, Consistent, Numbered
<1>4. call[c].op = "transition" =>
          /\ mem[c].status = intents[e].status
          /\ call[c].target \in EffectStatus /\ intents[e].status \in EffectStatus
    <2>1. CASE call[c].op = "transition"
        <3>1. e \in Ledger!Reserved /\ intents[e].status = mem[c].status
            BY <1>1, <2>1 DEF Local, Moving
        <3>2. intents[e] \in Ledger!Row
            BY <3>1 DEF Ledger!Reserved, StoreInv, LedgerInv
        <3> QED BY <2>1, <3>1, <3>2, CallFields, LedgerTerms DEF Ledger!Row
    <2> QED BY <2>1
<1> DEFINE v == RowFor(c, e).version
<1>5. v \in Nat /\ View(c, e).version = v
    BY <1>2 DEF Ledger!Row
<1> HIDE DEF v
<1>6. EventOf(c) = EventFor(c, e)
    BY <1>1, <1>3, <1>4, <1>5 DEF EventOf, EventFor, v
<1>7. /\ EventFor(c, e).sequence = n + 1 /\ EventFor(c, e).version = v
      /\ EventFor(c, e) \in Ledger!Event
    <2> DEFINE d == CASE call[c].op = "reserve" -> <<"prepared">>
                      [] call[c].op = "transition" ->
                             <<intents[e].status, call[c].target>>
                      [] OTHER -> <<>>
               t == CASE call[c].op = "reserve" -> "reserved"
                      [] call[c].op = "claim_due" -> "claimed"
                      [] call[c].op = "start_attempt" -> "attempt_started"
                      [] OTHER -> "transition"
    <2>1. d \in Seq(EffectStatus)
        <3>1. "prepared" \in EffectStatus
            BY DEF EffectStatus
        <3>2. <<"prepared">> \in Seq(EffectStatus) /\ <<>> \in Seq(EffectStatus)
            BY <3>1
        <3>3. call[c].op = "transition" =>
                  <<intents[e].status, call[c].target>> \in Seq(EffectStatus)
            BY <1>4
        <3> QED BY <1>1, <3>2, <3>3
    <2>2. t \in Ledger!EventTypes
        BY <1>1 DEF Ledger!EventTypes
    <2>3. EventFor(c, e) = [sequence |-> n + 1, type |-> t, version |-> v, data |-> d]
        BY DEF EventFor, v
    <2>4. d \in Seq(Ledger!EffectStatus) /\ n + 1 \in Nat \ {0}
        BY <1>3, <2>1, LedgerTerms
    <2> HIDE DEF d, t, n
    <2> QED BY <1>5, <2>2, <2>3, <2>4 DEF Ledger!Event
<1> QED BY <1>6, <1>7

LEMMA InsertEventKeeps ==
    ASSUME StoreInv, NEW c \in Clients, InsertEvent(c)
    PROVE  StoreInv' /\ UNCHANGED <<intents, attempts, events>>
<1> DEFINE e == mem[c].effect
           n == mem[c].number
           ev == EventFor(c, e)
<1>1. /\ pc[c] = "event"
      /\ UNCHANGED <<now, committed, call, mem, locks>>
      /\ Local(c) /\ Written(c) /\ SessionType
      /\ call[c].op \in {"reserve", "claim_due", "start_attempt", "transition"}
      /\ e \in Effects /\ e \in Touched(c) /\ e \notin Told(c)
      /\ EventOf(c) = ev /\ ev \in Ledger!Event
    BY CallOf, InHand, EventOfIsEventFor DEF InsertEvent, StoreInv, Local, Told
<1>2. tx' = [tx EXCEPT ![c].events = @ \cup {<<e, ev>>}]
    <2> HIDE DEF ev
    <2> QED BY <1>1 DEF InsertEvent
<1>3. AfterEvent(c) \in {"receipt", "claim", "commit"}
    BY DEF AfterEvent
<1>4. pc' = [pc EXCEPT ![c] = AfterEvent(c)]
    <2>1. Trail(c, e) = events[e] /\ n = Cardinality(events[e]) + 1
        BY <1>1, TrailRead DEF Local, Counting
    <2>2. /\ \A x \in events[e] : x.sequence <= Cardinality(events[e])
          /\ \A x \in events[e] : x.sequence \in Nat
          /\ Cardinality(events[e]) \in Nat
        <3>1. /\ {x.sequence : x \in events[e]} = 1..Cardinality(events[e])
              /\ IsFiniteSet(events[e]) /\ events[e] \in SUBSET Ledger!Event
            BY <1>1 DEF StoreInv, LedgerInv, Consistent, Numbered
        <3>2. Cardinality(events[e]) \in Nat
            BY <3>1, FS_CardinalityType
        <3>3. \A x \in events[e] : x.sequence \in 1..Cardinality(events[e])
            BY <3>1
        <3> QED BY <3>2, <3>3
    <2>3. ~Clashes(Trail(c, e), n)
        BY <2>1, <2>2 DEF Clashes
    <2> QED BY <2>3 DEF InsertEvent, Goto
<1> HIDE DEF ev
<1>5. /\ tx'[c].events = tx[c].events \cup {<<e, ev>>}
      /\ tx'[c].intents = tx[c].intents /\ tx'[c].attempts = tx[c].attempts
      /\ tx'[c].receipts = tx[c].receipts
      /\ tx'[c] \in Writes /\ \A d \in Others(c) : tx'[d] = tx[d]
    <2> DEFINE X == tx[c].events \cup {<<e, ev>>}
    <2>1. tx[c] \in Writes /\ tx[c].events \in SUBSET (Effects \X Ledger!Event)
        BY <1>1 DEF SessionType, Writes
    <2>2. X \in SUBSET (Effects \X Ledger!Event)
        BY <1>1, <2>1
    <2>3. /\ tx'[c] = [tx[c] EXCEPT !.events = X]
          /\ \A d \in Others(c) : tx'[d] = tx[d]
        BY <1>1, <1>2, <2>1 DEF SessionType, Others
    <2> HIDE DEF X
    <2>4. /\ tx'[c].events = X
          /\ tx'[c].intents = tx[c].intents /\ tx'[c].attempts = tx[c].attempts
          /\ tx'[c].receipts = tx[c].receipts /\ tx'[c] \in Writes
        BY <2>1, <2>2, <2>3 DEF Writes
    <2> QED BY <2>3, <2>4 DEF X
<1>6. SessionType'
    <2>1. tx' \in [Clients -> Writes]
        BY <1>1, <1>2, <1>5 DEF SessionType
    <2>2. AfterEvent(c) \in Statements \ {"broken"}
        BY <1>3 DEF Statements
    <2> QED BY <1>1, <1>4, <2>1, <2>2 DEF SessionType
<1>7. Quiet(c) /\ pc'[c] = AfterEvent(c)
    BY <1>1, <1>4, <1>5, <1>6 DEF Quiet, SessionType, Others
<1>8. /\ UNCHANGED <<intents, attempts, events, call, locks, mem>>
      /\ Ledger!Reserved' = Ledger!Reserved
      /\ \A k : Holding(k)' = Holding(k)
      /\ \A f : RowFor(c, f)' = RowFor(c, f)
      /\ \A f : EventFor(c, f)' = EventFor(c, f)
      /\ \A f : AttemptFor(f)' = AttemptFor(f)
    BY <1>1, SameCall
<1>9. Touched(c)' = Touched(c) /\ Told(c)' = Told(c) \cup {e}
    BY <1>1, <1>3, <1>7 DEF Told, Touched
<1>10. /\ pc'[c] \in {"receipt", "claim", "commit"}
       /\ call[c].op \in {"reserve", "start_attempt"} => pc'[c] = "commit"
       /\ call[c].op = "claim_due" =>
              pc'[c] = IF mem[c].batch # {} THEN "claim" ELSE "commit"
       /\ call[c].op = "transition" =>
              pc'[c] = IF call[c].target = "succeeded" THEN "receipt" ELSE "commit"
    BY <1>1, <1>3, <1>7 DEF AfterEvent, Local, Reserving, Attempting, Moving
<1>11. Written(c)'
    <2>1. {<<f, EventFor(c, f)'>> : f \in Told(c)'}
              = {<<f, EventFor(c, f)>> : f \in Told(c)} \cup {<<e, ev>>}
        BY <1>8, <1>9 DEF ev
    <2>2. DOMAIN tx'[c].intents =
              IF call[c].op = "start_attempt" THEN {} ELSE Touched(c)
        BY <1>1, <1>5 DEF Written
    <2>3. \A f \in DOMAIN tx'[c].intents : tx'[c].intents[f] = RowFor(c, f)
        BY <1>1, <1>5 DEF Written
    <2>4. tx'[c].attempts =
           IF call[c].op = "start_attempt" /\ pc'[c] \in {"max", "event", "commit"}
           THEN {<<e, AttemptFor(e)>>} ELSE {}
        BY <1>1, <1>5, <1>10 DEF Written
    <2>5. tx'[c].receipts = {} /\ tx'[c].events =
              {<<f, EventFor(c, f)>> : f \in Told(c)} \cup {<<e, ev>>}
        BY <1>1, <1>5 DEF Written
    <2> QED BY <1>8, <1>9, <1>10, <2>1, <2>2, <2>3, <2>4, <2>5 DEF Written
<1>12. \A d \in Others(c) : Apart(c, d)'
    BY <1>1, <1>7, ApartStays DEF Inserted
<1>13. Counting(c)' /\ pc'[c] # "idle" /\ call'[c] = call[c]
    BY <1>8, <1>10 DEF Counting
<1>14. CASE call[c].op = "reserve"
    <2>1. Reserving(c)'
        BY <1>1, <1>14, <1>8, <1>10 DEF Local, Reserving, Inserted
    <2> QED BY <1>7, <1>11, <1>12, <1>13, <1>14, <2>1, LocalByCall, QuietKeeps
<1>15. CASE call[c].op = "claim_due"
    <2>1. Claiming(c)'
        BY <1>1, <1>15, <1>8, <1>10 DEF Local, Claiming
    <2> QED BY <1>7, <1>11, <1>12, <1>13, <1>15, <2>1, LocalByCall, QuietKeeps
<1>16. CASE call[c].op = "start_attempt"
    <2>1. Attempting(c)'
        BY <1>1, <1>16, <1>8, <1>10 DEF Local, Attempting
    <2> QED BY <1>7, <1>11, <1>12, <1>13, <1>16, <2>1, LocalByCall, QuietKeeps
<1>17. CASE call[c].op = "transition"
    <2>1. Moving(c)'
        BY <1>1, <1>17, <1>8, <1>10 DEF Local, Moving
    <2> QED BY <1>7, <1>11, <1>12, <1>13, <1>17, <2>1, LocalByCall, QuietKeeps
<1> QED BY <1>1, <1>14, <1>15, <1>16, <1>17

LEMMA TickKeeps ==
    ASSUME StoreAssumption, StoreInv, Tick
    PROVE  StoreInv' /\ UNCHANGED <<intents, attempts, events>>
<1>1. /\ now' \in 0..MaxTime /\ UNCHANGED <<committed, session>>
    BY DEF Tick, StoreInv, StoreAssumption
<1>2. \A c \in Clients : Local(c)'
    BY <1>1, LocalStays DEF StoreInv, session
<1>3. \A c, d \in Clients : c # d => Apart(c, d)'
    BY <1>1 DEF StoreInv, session, Apart
<1>4. /\ tenants' = tenants /\ intents' = intents /\ attempts' = attempts
      /\ events' = events /\ receipts' = receipts
    BY <1>1 DEF committed
<1>5. LedgerInv' /\ SessionType'
    BY <1>1, <1>4 DEF StoreInv, LedgerInv, Ledger!Reserved, SessionType, session
<1> QED BY <1>1, <1>2, <1>3, <1>4, <1>5 DEF StoreInv

-----------------------------------------------------------------------------
(* A commit *)

\* What a transaction commits: its row, event and attempt for each effect it
\* has locked, and nothing for any other.
LEMMA CommitWrites ==
    ASSUME StoreInv, NEW c \in Clients, Commit(c)
    PROVE  /\ intents' = [e \in Effects |->
                  IF e \in locks[c] THEN RowFor(c, e) ELSE intents[e]]
           /\ events' = [e \in Effects |->
                  IF e \in locks[c] THEN events[e] \cup {EventFor(c, e)}
                                    ELSE events[e]]
           /\ attempts' = [e \in Effects |->
                  IF call[c].op = "start_attempt" /\ e = mem[c].effect
                  THEN attempts[e] \cup {AttemptFor(e)} ELSE attempts[e]]
           /\ receipts' = receipts \cup
                  IF call[c].op = "transition" /\ call[c].target = "succeeded"
                  THEN {mem[c].effect} ELSE {}
           /\ now' = now /\ tenants' \subseteq Tenants
<1>1. /\ pc[c] = "commit" /\ Local(c) /\ Written(c) /\ SessionType
      /\ call[c].op \in {"reserve", "claim_due", "start_attempt", "transition"}
    BY CallOf DEF Commit, StoreInv, Local
<1>2. Touched(c) = locks[c] /\ Told(c) = locks[c]
    BY <1>1
    DEF Touched, Told, Local, Reserving, Claiming, Attempting, Moving
<1>3. /\ DOMAIN tx[c].intents =
             IF call[c].op = "start_attempt" THEN {} ELSE locks[c]
      /\ \A e \in DOMAIN tx[c].intents : tx[c].intents[e] = RowFor(c, e)
      /\ tx[c].events = {<<e, EventFor(c, e)>> : e \in locks[c]}
      /\ tx[c].attempts = IF call[c].op = "start_attempt"
             THEN {<<mem[c].effect, AttemptFor(mem[c].effect)>>} ELSE {}
      /\ tx[c].receipts =
             IF call[c].op = "transition" /\ call[c].target = "succeeded"
             THEN {mem[c].effect} ELSE {}
    <2> QED BY <1>1, <1>2 DEF Written
<1>4. ASSUME NEW e \in Effects
      PROVE  View(c, e) = IF e \in locks[c] THEN RowFor(c, e) ELSE intents[e]
    <2>1. CASE call[c].op = "start_attempt"
        <3>1. RowFor(c, e) = intents[e]
            BY <2>1 DEF RowFor
        <3> QED BY <1>3, <2>1, <3>1 DEF View
    <2>2. CASE call[c].op # "start_attempt"
        <3> QED BY <1>3, <2>2 DEF View
    <2> QED BY <2>1, <2>2
<1>5. ASSUME NEW e \in Effects
      PROVE  Trail(c, e) = IF e \in locks[c] THEN events[e] \cup {EventFor(c, e)}
                                             ELSE events[e]
    <2>1. Of(tx[c].events, e) = IF e \in locks[c] THEN {EventFor(c, e)} ELSE {}
        <3> DEFINE v == EventFor(c, e)
        <3>1. {y \in tx[c].events : y[1] = e} =
                  IF e \in locks[c] THEN {<<e, v>>} ELSE {}
            <4> QED BY <1>3
        <3> HIDE DEF v
        <3>2. {x[2] : x \in {<<e, v>>}} = {v} /\ {x[2] : x \in {}} = {}
            OBVIOUS
        <3>3. Of(tx[c].events, e) = IF e \in locks[c] THEN {v} ELSE {}
            BY <3>1, <3>2 DEF Of
        <3> QED BY <3>3 DEF v
    <2> QED BY <2>1 DEF Trail
<1>6. ASSUME NEW e \in Effects
      PROVE  attempts[e] \cup Of(tx[c].attempts, e) =
                 IF call[c].op = "start_attempt" /\ e = mem[c].effect
                 THEN attempts[e] \cup {AttemptFor(e)} ELSE attempts[e]
    <2> DEFINE v == AttemptFor(e)
    <2>1. {y \in tx[c].attempts : y[1] = e} =
              IF call[c].op = "start_attempt" /\ e = mem[c].effect
              THEN {<<e, v>>} ELSE {}
        <3> QED BY <1>3
    <2> HIDE DEF v
    <2>2. {x[2] : x \in {<<e, v>>}} = {v} /\ {x[2] : x \in {}} = {}
        OBVIOUS
    <2>3. Of(tx[c].attempts, e) = IF call[c].op = "start_attempt" /\ e = mem[c].effect
                                 THEN {v} ELSE {}
        BY <2>1, <2>2 DEF Of
    <2> QED BY <2>3 DEF v
<1>7. /\ intents' = [e \in Effects |-> View(c, e)]
      /\ events' = [e \in Effects |-> Trail(c, e)]
      /\ attempts' = [e \in Effects |-> attempts[e] \cup Of(tx[c].attempts, e)]
      /\ receipts' = receipts \cup tx[c].receipts
      /\ now' = now
    BY DEF Commit
<1>8. tenants' \subseteq Tenants
    BY <1>1 DEF Commit, StoreInv, SessionType, Writes
<1>9. intents' = [e \in Effects |->
                  IF e \in locks[c] THEN RowFor(c, e) ELSE intents[e]]
    BY <1>4, <1>7
<1>10. events' = [e \in Effects |->
                  IF e \in locks[c] THEN events[e] \cup {EventFor(c, e)}
                                    ELSE events[e]]
    BY <1>5, <1>7
<1>11. attempts' = [e \in Effects |->
                  IF call[c].op = "start_attempt" /\ e = mem[c].effect
                  THEN attempts[e] \cup {AttemptFor(e)} ELSE attempts[e]]
    BY <1>6, <1>7
<1> QED BY <1>3, <1>7, <1>8, <1>9, <1>10, <1>11

\* Each call's commit is that call of the ledger.
LEMMA CommitIsLedgerStep ==
    ASSUME StoreAssumption, StoreInv, NEW c \in Clients, Commit(c)
    PROVE  [Ledger!LedgerNext]_<<intents, attempts, events>>
<1> DEFINE L == locks[c]
           e == mem[c].effect
<1>1. /\ pc[c] = "commit" /\ Local(c)
      /\ call[c].op \in {"reserve", "claim_due", "start_attempt", "transition"}
      /\ L \subseteq Effects
    BY CallOf DEF Commit, StoreInv, SessionType
<1>2. /\ intents \in [Effects -> Ledger!Row \cup {NoRow}]
      /\ attempts \in [Effects -> SUBSET Ledger!Attempt]
      /\ events \in [Effects -> SUBSET Ledger!Event]
    BY DEF StoreInv, LedgerInv
<1>3. /\ intents' = [f \in Effects |->
             IF f \in L THEN RowFor(c, f) ELSE intents[f]]
      /\ events' = [f \in Effects |->
             IF f \in L THEN events[f] \cup {EventFor(c, f)} ELSE events[f]]
      /\ attempts' = [f \in Effects |->
             IF call[c].op = "start_attempt" /\ f = e
             THEN attempts[f] \cup {AttemptFor(f)} ELSE attempts[f]]
    BY CommitWrites
<1>4. CASE call[c].op = "reserve"
    <2> DEFINE k == call[c].key
               d == call[c].digest
    <2>1. /\ L = {e} /\ e = call[c].effect /\ intents[e] = NoRow
          /\ Holding(k) = {} /\ e \in Effects /\ k \in Keys /\ d \in Digests
        BY <1>1, <1>4, CallFields DEF Local, Reserving, Inserted
    <2>2. /\ RowFor(c, e) = [key |-> k, digest |-> d, status |-> "prepared",
                             version |-> 0, lease |-> 0]
          /\ EventFor(c, e) = [sequence |-> Cardinality(events[e]) + 1,
                               type |-> "reserved", version |-> 0,
                               data |-> <<"prepared">>]
        BY <1>4 DEF RowFor, NewRow, EventFor
    <2>3. /\ intents' = [intents EXCEPT ![e] = RowFor(c, e)]
          /\ events' = [events EXCEPT ![e] = events[e] \cup {EventFor(c, e)}]
          /\ attempts' = attempts
        <3> QED BY <1>2, <1>3, <1>4, <2>1
    <2>4. \A f \in Ledger!Reserved : intents[f].key # k
        BY <2>1 DEF Holding
    <2>5. Ledger!Reserve(e, k, d)
        BY <2>1, <2>2, <2>3, <2>4, LedgerCounts
        DEF Ledger!Reserve, Ledger!Recorded, Ledger!Appended
    <2> QED BY <2>1, <2>5 DEF Ledger!LedgerNext
<1>5. CASE call[c].op = "claim_due"
    <2> DEFINE t == call[c].now
    <2>1. /\ t \in 0..MaxTime /\ Cardinality(L) <= Limit
          /\ L \subseteq Ledger!Reserved
          /\ \A f \in L : Ledger!Due(intents[f], t)
        BY <1>1, <1>5 DEF Local, Claiming
    <2>2. \A f : /\ RowFor(c, f) = Claimed(intents[f], t)
                 /\ EventFor(c, f) = [sequence |-> Cardinality(events[f]) + 1,
                                      type |-> "claimed",
                                      version |-> RowFor(c, f).version,
                                      data |-> <<>>]
        BY <1>5 DEF RowFor, EventFor
    <2>3. attempts' = attempts
        BY <1>2, <1>3, <1>5
    <2>4. CASE L = {}
        <3>1. intents' = intents /\ events' = events
            <4> QED BY <1>2, <1>3, <2>4
        <3> QED BY <2>3, <3>1
    <2>5. CASE L # {}
        <3>1. \A f \in L : RowFor(c, f).version = intents[f].version + 1
            <4> SUFFICES ASSUME NEW f \in L
                         PROVE  RowFor(c, f).version = intents[f].version + 1
                OBVIOUS
            <4> DEFINE r == intents[f]
                       v == r.version + 1
                       l == t + LeaseFor
                       n == Claimed(r, t)
            <4>1. r \in Ledger!Row
                BY <1>2, <2>1 DEF Ledger!Reserved
            <4>2. n = [r EXCEPT !.version = v, !.lease = l]
                BY DEF Claimed
            <4>3. n.version = v
                <5> HIDE DEF r, v, l, n
                <5> QED BY <4>1, <4>2 DEF Ledger!Row
            <4> QED BY <2>2, <4>3
        <3>2. intents' = [f \in Effects |->
                  IF f \in L THEN Ledger!Claimed(intents[f], t) ELSE intents[f]]
            <4>1. \A f : RowFor(c, f) = Ledger!Claimed(intents[f], t)
                BY <2>2 DEF Claimed, Ledger!Claimed
            <4> QED BY <1>3, <4>1
        <3>3. events' = [f \in Effects |->
                  IF f \in L
                  THEN Ledger!Appended(f, "claimed", intents[f].version + 1, <<>>)
                  ELSE events[f]]
            <4>1. \A f \in L : events[f] \cup {EventFor(c, f)} =
                      Ledger!Appended(f, "claimed", intents[f].version + 1, <<>>)
                BY <2>2, <3>1, LedgerCounts DEF Ledger!Appended
            <4> QED BY <1>3, <4>1
        <3>4. Ledger!ClaimDue(L, t)
            BY <2>1, <2>3, <2>5, <3>2, <3>3, LedgerCounts DEF Ledger!ClaimDue
        <3> QED BY <2>1, <3>4 DEF Ledger!LedgerNext
    <2> QED BY <2>4, <2>5
<1>6. CASE call[c].op = "start_attempt"
    <2>1. L = {e} /\ e \in Ledger!Reserved /\ e \in Effects
        BY <1>1, <1>6 DEF Local, Attempting, Ledger!Reserved
    <2>2. /\ RowFor(c, e) = intents[e]
          /\ EventFor(c, e) = [sequence |-> Cardinality(events[e]) + 1,
                               type |-> "attempt_started",
                               version |-> intents[e].version, data |-> <<>>]
        BY <1>6 DEF RowFor, EventFor
    <2>3. /\ intents' = intents
          /\ events' = [events EXCEPT ![e] = events[e] \cup {EventFor(c, e)}]
          /\ attempts' = [attempts EXCEPT ![e] = attempts[e] \cup {AttemptFor(e)}]
        <3> QED BY <1>2, <1>3, <1>6, <2>1, <2>2
    <2>4. attempts' = [attempts EXCEPT ![e] = @ \cup
              {[ordinal |-> Cardinality(@) + 1, version |-> intents[e].version]}]
        BY <1>2, <2>1, <2>3 DEF AttemptFor
    <2>5. Ledger!StartAttempt(e)
        BY <2>1, <2>2, <2>3, <2>4, LedgerCounts
        DEF Ledger!StartAttempt, Ledger!Recorded, Ledger!Appended
    <2> QED BY <2>1, <2>5 DEF Ledger!LedgerNext
<1>7. CASE call[c].op = "transition"
    <2> DEFINE r == intents[e]
               target == call[c].target
    <2>1. /\ L = {e} /\ e \in Ledger!Reserved /\ e \in Effects
          /\ IsAllowed(r.status, target) /\ target \in EffectStatus
        BY <1>1, <1>7, CallFields DEF Local, Moving, Ledger!Reserved
    <2>2. /\ r \in Ledger!Row /\ (r.lease # 0 => r.status \in ClaimableStatuses)
        BY <1>2, <2>1 DEF Ledger!Reserved, StoreInv, LedgerInv, Consistent
    <2>3. Moved(r, target) = Ledger!Moved(r, target)
        <3>1. (IF target \in Ledger!ClaimableStatuses THEN r.lease ELSE 0) = 0
            BY <2>1, <2>2, LedgerTerms DEF IsAllowed, ClaimableStatuses
        <3> QED BY <3>1 DEF Moved, Ledger!Moved
    <2>4. /\ RowFor(c, e) = Moved(r, target)
          /\ EventFor(c, e) = [sequence |-> Cardinality(events[e]) + 1,
                               type |-> "transition", version |-> r.version + 1,
                               data |-> <<r.status, target>>]
        <3>1. RowFor(c, e) = Moved(r, target)
            BY <1>7 DEF RowFor
        <3>2. RowFor(c, e).version = r.version + 1
            BY <2>1, <2>2, <3>1, MovedRow
        <3> QED BY <1>7, <3>1, <3>2 DEF EventFor
    <2>5. /\ intents' = [intents EXCEPT ![e] = RowFor(c, e)]
          /\ events' = [events EXCEPT ![e] = events[e] \cup {EventFor(c, e)}]
          /\ attempts' = attempts
        <3> QED BY <1>2, <1>3, <1>7, <2>1
    <2>6. intents' = [intents EXCEPT ![e] = Ledger!Moved(@, target)]
        BY <2>3, <2>4, <2>5
    <2>7. Ledger!Transition(e, target)
        BY <2>1, <2>4, <2>5, <2>6, LedgerCounts, LedgerTerms
        DEF Ledger!Transition, Ledger!Recorded, Ledger!Appended
    <2> QED BY <2>1, <2>7, LedgerTerms DEF Ledger!LedgerNext
<1> QED BY <1>1, <1>4, <1>5, <1>6, <1>7

\* The row of a call has the key and the digest of the row it replaces, and a
\* higher version if it is another row.
LEMMA RowForKeeps ==
    ASSUME StoreInv, NEW c \in Clients, NEW e \in locks[c], pc[c] = "commit"
    PROVE  /\ RowFor(c, e) \in Ledger!Row
           /\ e \in Ledger!Reserved =>
                 /\ call[c].op # "reserve"
                 /\ RowFor(c, e).key = intents[e].key
                 /\ RowFor(c, e).digest = intents[e].digest
                 /\ \/ RowFor(c, e) = intents[e]
                    \/ RowFor(c, e).version = intents[e].version + 1
<1>1. /\ Local(c) /\ Written(c) /\ e \in Effects
      /\ call[c].op \in {"reserve", "claim_due", "start_attempt", "transition"}
    BY CallOf DEF StoreInv, SessionType, Local
<1>2. e \in Ledger!Reserved => intents[e] \in Ledger!Row
    BY DEF Ledger!Reserved, StoreInv, LedgerInv
<1>3. CASE call[c].op = "reserve"
    <2>1. intents[e] = NoRow
        BY <1>1, <1>3 DEF Local, Reserving, Inserted
    <2>2. NewRow(c) \in Ledger!Row
        BY <1>3, CallFields, LedgerTerms DEF NewRow, Ledger!Row, EffectStatus
    <2> QED BY <1>3, <2>1, <2>2 DEF RowFor, Ledger!Reserved
<1>4. CASE call[c].op = "claim_due"
    <2>1. e \in Ledger!Reserved /\ intents[e] \in Ledger!Row
        BY <1>1, <1>2, <1>4 DEF Local, Claiming
    <2>2. RowFor(c, e) \in Ledger!Row
        <3>1. e \in Touched(c)
            BY <1>1, <1>4 DEF Local, Claiming, Touched
        <3>2. e \in DOMAIN tx[c].intents /\ tx[c].intents[e] = RowFor(c, e)
            BY <1>1, <1>4, <3>1 DEF Written
        <3> QED BY <3>2 DEF StoreInv, SessionType, Writes, Rows
    <2>3. RowFor(c, e) = Claimed(intents[e], call[c].now)
        BY <1>4 DEF RowFor
    <2> QED BY <1>4, <2>1, <2>2, <2>3 DEF Claimed, Ledger!Row
<1>5. CASE call[c].op = "start_attempt"
    <2>1. RowFor(c, e) = intents[e] /\ e \in Ledger!Reserved
        BY <1>1, <1>5 DEF RowFor, Local, Attempting
    <2> QED BY <1>2, <1>5, <2>1
<1>6. CASE call[c].op = "transition"
    <2>1. /\ e \in Ledger!Reserved /\ intents[e] \in Ledger!Row
          /\ call[c].target \in EffectStatus
        BY <1>1, <1>2, <1>6, CallFields DEF Local, Moving
    <2>2. RowFor(c, e) = Moved(intents[e], call[c].target)
        BY <1>6 DEF RowFor
    <2> QED BY <1>6, <2>1, <2>2, MovedRow
<1> QED BY <1>1, <1>3, <1>4, <1>5, <1>6

\* A client on whose rows nothing is committed stays where it is, whatever is
\* committed on others.
LEMMA LocalBesides ==
    ASSUME StoreInv, NEW d \in Clients,
           pc'[d] = pc[d], call'[d] = call[d], mem'[d] = mem[d],
           locks'[d] = locks[d], tx'[d] = tx[d],
           \A e \in locks[d] : /\ intents'[e] = intents[e]
                               /\ attempts'[e] = attempts[e]
                               /\ events'[e] = events[e],
           \A e \in Ledger!Reserved :
               /\ e \in Ledger!Reserved' /\ intents'[e].key = intents[e].key
               /\ intents'[e].digest = intents[e].digest
               /\ \/ intents'[e] = intents[e]
                  \/ intents'[e].version = intents[e].version + 1,
           call[d].op = "reserve" =>
               /\ intents'[call[d].effect] = NoRow
               /\ pc[d] \in Inserted => Holding(call[d].key)' = {}
    PROVE  Local(d)'
<1>1. /\ Written(d) /\ Resting(d) /\ Counting(d) /\ Reserving(d) /\ Claiming(d)
      /\ Attempting(d) /\ Moving(d) /\ SessionType
    BY DEF StoreInv, Local
<1>2. /\ Touched(d)' = Touched(d) /\ Told(d)' = Told(d)
      /\ Touched(d) \subseteq locks[d] /\ Told(d) \subseteq locks[d]
    BY DEF Touched, Told
<1>3. \A e \in locks[d] : /\ RowFor(d, e)' = RowFor(d, e)
                          /\ EventFor(d, e)' = EventFor(d, e)
                          /\ AttemptFor(e)' = AttemptFor(e)
    BY DEF RowFor, EventFor, AttemptFor, NewRow
<1>4. Written(d)'
    <2>1. {<<e, EventFor(d, e)'>> : e \in Told(d)'}
              = {<<e, EventFor(d, e)>> : e \in Told(d)}
        BY <1>2, <1>3
    <2>2. call[d].op = "start_attempt" /\ pc[d] \in {"max", "event", "commit"}
              => mem[d].effect \in locks[d]
        BY <1>1 DEF Attempting
    <2>3. \A e \in DOMAIN tx[d].intents : e \in locks[d]
        BY <1>1, <1>2 DEF Written
    <2>4. tx'[d].attempts =
           IF call[d].op = "start_attempt" /\ pc[d] \in {"max", "event", "commit"}
           THEN {<<mem[d].effect, AttemptFor(mem[d].effect)'>>} ELSE {}
        <3> QED BY <1>1, <1>3, <2>2 DEF Written
    <2>5. \A e \in DOMAIN tx'[d].intents : tx'[d].intents[e] = RowFor(d, e)'
        <3> QED BY <1>1, <1>3, <2>3 DEF Written
    <2> QED BY <1>1, <1>2, <2>1, <2>4, <2>5 DEF Written
<1>5. Resting(d)'
    BY <1>1 DEF Resting
<1>6. Counting(d)'
    <2>1. pc[d] = "event" => mem[d].effect \in locks[d]
        BY InHand
    <2> QED BY <1>1, <2>1 DEF Counting
<1>7. Reserving(d)'
    <2>1. \A k : Holding(k) # {} => Holding(k)' # {}
        BY DEF Holding
    <2> QED BY <1>1, <2>1 DEF Reserving
<1>8. Claiming(d)'
    BY <1>1, <1>2 DEF Claiming
<1>9. Attempting(d)'
    BY <1>1 DEF Attempting
<1>10. Moving(d)'
    <2>1. CASE call[d].op = "transition"
        <3> DEFINE e == mem[d].effect
        <3>1. e \in Ledger!Reserved /\ e \in Ledger!Reserved'
            BY <1>1, <2>1 DEF Moving
        <3>2. intents[e].version \in Nat /\ call[d].version \in Nat
            BY <2>1, <3>1, CallFields
            DEF Ledger!Reserved, StoreInv, LedgerInv, Ledger!Row
        <3>3. CASE pc[d] \in {"read", "update"}
            BY <1>1, <2>1, <3>1, <3>2, <3>3 DEF Moving
        <3>4. CASE pc[d] \notin {"read", "update"}
            <4>1. intents'[e] = intents[e]
                BY <1>1, <2>1, <3>4 DEF Moving
            <4> QED BY <1>1, <2>1, <3>1, <3>4, <4>1 DEF Moving
        <3> QED BY <3>3, <3>4
    <2> QED BY <2>1 DEF Moving
<1> QED BY <1>4, <1>5, <1>6, <1>7, <1>8, <1>9, <1>10 DEF Local

LEMMA CommitSparesOthers ==
    ASSUME StoreAssumption, StoreInv, NEW c \in Clients, Commit(c),
           NEW d \in Others(c)
    PROVE  Local(d)'
<1>1. /\ pc[c] = "commit" /\ End(c) /\ d \in Clients /\ Local(d) /\ Local(c)
      /\ locks[c] \subseteq Effects /\ locks[d] \subseteq Effects
      /\ locks[c] \cap locks[d] = {} /\ Apart(c, d)
    BY DEF Commit, StoreInv, Others, SessionType, Apart
<1>2. /\ pc'[d] = pc[d] /\ call'[d] = call[d] /\ mem'[d] = mem[d]
      /\ locks'[d] = locks[d] /\ tx'[d] = tx[d]
    BY <1>1, EndLocal
<1>3. call[c].op = "start_attempt" => mem[c].effect \in locks[c]
    BY <1>1 DEF Local, Attempting
<1>4. /\ intents' = [e \in Effects |->
             IF e \in locks[c] THEN RowFor(c, e) ELSE intents[e]]
      /\ events' = [e \in Effects |->
             IF e \in locks[c] THEN events[e] \cup {EventFor(c, e)} ELSE events[e]]
      /\ attempts' = [e \in Effects |->
             IF call[c].op = "start_attempt" /\ e = mem[c].effect
             THEN attempts[e] \cup {AttemptFor(e)} ELSE attempts[e]]
    BY CommitWrites
<1>5. \A e \in locks[d] : /\ intents'[e] = intents[e]
                          /\ attempts'[e] = attempts[e]
                          /\ events'[e] = events[e]
    <2> QED BY <1>1, <1>3, <1>4
<1>6. ASSUME NEW e \in Ledger!Reserved
      PROVE  /\ e \in Ledger!Reserved' /\ intents'[e].key = intents[e].key
             /\ intents'[e].digest = intents[e].digest
             /\ \/ intents'[e] = intents[e]
                \/ intents'[e].version = intents[e].version + 1
    <2>1. e \in Effects /\ intents[e] # NoRow
        BY DEF Ledger!Reserved
    <2>2. CASE e \in locks[c]
        <3>1. intents'[e] = RowFor(c, e) /\ RowFor(c, e) # NoRow
            BY <1>1, <1>4, <2>1, <2>2, RowForKeeps, NoRowIsNone
        <3> QED BY <1>1, <2>1, <2>2, <3>1, RowForKeeps DEF Ledger!Reserved
    <2>3. CASE e \notin locks[c]
        BY <1>4, <2>1, <2>3 DEF Ledger!Reserved
    <2> QED BY <2>2, <2>3
<1>7. ASSUME call[d].op = "reserve"
      PROVE  /\ intents'[call[d].effect] = NoRow
             /\ pc[d] \in Inserted => Holding(call[d].key)' = {}
    <2>1. /\ intents[call[d].effect] = NoRow /\ call[d].effect \in Effects
          /\ pc[d] \in Inserted => Holding(call[d].key) = {}
        BY <1>1, <1>7, CallFields DEF Local, Reserving
    <2>2. CASE call[c].op = "reserve"
        <3>1. locks[c] = {call[c].effect} /\ pc[c] \in Inserted
            BY <1>1, <2>2 DEF Local, Reserving, Inserted
        <3>2. call[d].effect \notin locks[c]
            BY <1>1, <1>7, <2>2, <3>1 DEF Apart
        <3>3. ASSUME pc[d] \in Inserted, NEW f \in Ledger!Reserved'
              PROVE  intents'[f].key # call[d].key
            <4>1. f \in Effects /\ intents'[f] # NoRow
                BY DEF Ledger!Reserved
            <4>2. CASE f \in locks[c]
                <5>1. intents'[f].key = call[c].key
                    BY <1>4, <2>2, <4>1, <4>2 DEF RowFor, NewRow
                <5> QED BY <1>1, <1>7, <2>2, <3>1, <3>3, <5>1 DEF Apart
            <4>3. CASE f \notin locks[c]
                <5>1. intents'[f] = intents[f] /\ f \in Ledger!Reserved
                    BY <1>4, <4>1, <4>3 DEF Ledger!Reserved
                <5> QED BY <2>1, <3>3, <5>1 DEF Holding
            <4> QED BY <4>2, <4>3
        <3> QED BY <1>2, <1>4, <2>1, <3>2, <3>3 DEF Holding
    <2>3. CASE call[c].op # "reserve"
        <3>1. locks[c] \subseteq Ledger!Reserved
            <4>1. call[c].op \in {"claim_due", "start_attempt", "transition"}
                BY <1>1, <2>3, CallOf
            <4> QED BY <1>1, <4>1 DEF Local, Claiming, Attempting, Moving
        <3>2. intents'[call[d].effect] = NoRow
            <4> QED BY <1>4, <2>1, <3>1 DEF Ledger!Reserved
        <3>3. ASSUME NEW f \in Ledger!Reserved'
              PROVE  f \in Ledger!Reserved /\ intents'[f].key = intents[f].key
            <4>1. f \in Effects /\ intents'[f] # NoRow
                BY DEF Ledger!Reserved
            <4>2. f \in Ledger!Reserved
                <5> QED BY <1>4, <3>1, <4>1 DEF Ledger!Reserved
            <4> QED BY <1>6, <4>2
        <3> QED BY <1>2, <2>1, <3>2, <3>3 DEF Holding
    <2> QED BY <2>2, <2>3
<1> QED BY <1>1, <1>2, <1>5, <1>6, <1>7, LocalBesides

\* A receipt is committed with the event it stands for, and with no other.
LEMMA CommitReceipts ==
    ASSUME StoreInv, NEW c \in Clients, Commit(c), NEW e \in Effects
    PROVE  e \in receipts' <=> Succeeded(events'[e])
<1>1. /\ pc[c] = "commit" /\ Local(c)
      /\ call[c].op \in {"reserve", "claim_due", "start_attempt", "transition"}
      /\ e \in receipts <=> Succeeded(events[e])
    BY CallOf DEF Commit, StoreInv
<1>2. /\ events'[e] = IF e \in locks[c] THEN events[e] \cup {EventFor(c, e)}
                                       ELSE events[e]
      /\ receipts' = receipts \cup
             IF call[c].op = "transition" /\ call[c].target = "succeeded"
             THEN {mem[c].effect} ELSE {}
    <2>1. /\ events' = [f \in Effects |->
                 IF f \in locks[c] THEN events[f] \cup {EventFor(c, f)}
                                   ELSE events[f]]
          /\ receipts' = receipts \cup
                 IF call[c].op = "transition" /\ call[c].target = "succeeded"
                 THEN {mem[c].effect} ELSE {}
        BY CommitWrites
    <2> QED BY <2>1
<1>3. call[c].op = "transition" => locks[c] = {mem[c].effect}
    BY <1>1 DEF Local, Moving
<1>4. CASE e \notin locks[c]
    BY <1>1, <1>2, <1>3, <1>4
<1>5. CASE e \in locks[c]
    <2> DEFINE ev == EventFor(c, e)
    <2>1. Succeeded(events[e] \cup {ev}) <=>
              \/ Succeeded(events[e])
              \/ ev.type = "transition" /\ ev.data[2] = "succeeded"
        <3> HIDE DEF ev
        <3> QED BY DEF Succeeded, Ledger!Moves
    <2>2. ev.type = "transition" <=> call[c].op = "transition"
        BY <1>1 DEF EventFor
    <2>3. call[c].op = "transition" => ev.data[2] = call[c].target
        BY DEF EventFor
    <2> HIDE DEF ev
    <2> QED BY <1>1, <1>2, <1>3, <1>5, <2>1, <2>2, <2>3 DEF ev
<1> QED BY <1>4, <1>5

LEMMA CommitKeeps ==
    ASSUME StoreAssumption, StoreInv, NEW c \in Clients, Commit(c)
    PROVE  StoreInv'
<1>1. /\ Local(c)' /\ SessionType' /\ locks'[c] = {} /\ call'[c].op = "none"
      /\ \A d \in Others(c) :
            /\ pc'[d] = pc[d] /\ call'[d] = call[d]
            /\ locks'[d] = locks[d]
    BY EndLocal DEF Commit
<1>2. LedgerInv'
    BY CommitIsLedgerStep, LedgerStep DEF StoreInv
<1>3. now' \in 0..MaxTime /\ tenants' \subseteq Tenants /\ receipts' \subseteq Effects
    <2>1. now' = now /\ tenants' \subseteq Tenants
        BY CommitWrites
    <2>2. receipts' = receipts \cup tx[c].receipts /\ tx[c] \in Writes
        BY DEF Commit, StoreInv, SessionType
    <2> QED BY <2>1, <2>2 DEF StoreInv, Writes
<1>4. \A e \in Effects : e \in receipts' <=> Succeeded(events'[e])
    BY CommitReceipts
<1>5. \A d \in Clients : Local(d)'
    BY <1>1, CommitSparesOthers DEF Others
<1>6. \A d, f \in Clients : d # f => Apart(d, f)'
    <2>1. ASSUME NEW d \in Clients, NEW f \in Clients, d # f
          PROVE  Apart(d, f)'
        <3>1. CASE d = c \/ f = c
            BY <1>1, <3>1 DEF Apart
        <3>2. CASE d # c /\ f # c
            BY <1>1, <2>1, <3>2 DEF StoreInv, Others, Apart
        <3> QED BY <3>1, <3>2
    <2> QED BY <2>1
<1>7. \A e \in Effects : e \in receipts' <=> Succeeded(events[e])'
    BY <1>4 DEF Succeeded, Ledger!Moves
<1> QED BY <1>1, <1>2, <1>3, <1>5, <1>6, <1>7 DEF StoreInv

-----------------------------------------------------------------------------
(* The store *)

LEMMA StoreInvInit ==
    ASSUME StoreAssumption, Init PROVE StoreInv /\ Ledger!LedgerInit
<1>1. /\ now = 0 /\ tenants \subseteq Tenants /\ receipts = {} /\ Ledger!LedgerInit
      /\ pc = [c \in Clients |-> "idle"] /\ call = [c \in Clients |-> NoCall]
      /\ mem = [c \in Clients |-> Fresh] /\ locks = [c \in Clients |-> {}]
      /\ tx = [c \in Clients |-> Nothing]
    BY DEF Init
<1>2. /\ intents = [e \in Effects |-> NoRow]
      /\ attempts = [e \in Effects |-> {}] /\ events = [e \in Effects |-> {}]
    BY <1>1 DEF Ledger!LedgerInit
<1>3. Consistent(NoRow, {}, {})
    <2>1. IsFiniteSet({}) /\ Cardinality({}) = 0
        BY FS_EmptySet
    <2>2. Numbered({}) /\ Counted({}) /\ Truthful({})
        BY <2>1 DEF Numbered, Counted, Truthful
    <2> QED BY <2>2 DEF Consistent
<1>4. LedgerInv
    BY <1>2, <1>3 DEF LedgerInv, Ledger!Reserved
<1>5. \A e \in Effects : e \in receipts <=> Succeeded(events[e])
    BY <1>1, <1>2 DEF Succeeded, Ledger!Moves
<1>6. SessionType
    <2>1. NoCall \in Call /\ Fresh \in Memory /\ "idle" \in Statements \ {"broken"}
        BY DEF NoCall, Call, Fresh, Memory, Statements
    <2> QED BY <1>1, <2>1, NothingIsWritten DEF SessionType
<1>7. ASSUME NEW c \in Clients
      PROVE  Local(c)
    <2>1. /\ pc[c] = "idle" /\ call[c].op = "none" /\ mem[c] = Fresh
          /\ locks[c] = {} /\ tx[c] = Nothing
        BY <1>1 DEF NoCall
    <2>2. Touched(c) = {} /\ Told(c) = {}
        BY <2>1 DEF Touched, Told
    <2>3. {<<e, EventFor(c, e)>> : e \in {}} = {}
        OBVIOUS
    <2>4. Written(c)
        BY <2>1, <2>2, <2>3, NothingIsWritten DEF Written, Nothing
    <2> QED BY <2>1, <2>4 DEF Local, Resting, Counting, Reserving, Claiming,
            Attempting, Moving
<1>8. \A c, d \in Clients : c # d => Apart(c, d)
    BY <1>1 DEF Apart, NoCall
<1>9. 0 \in 0..MaxTime
    BY DEF StoreAssumption
<1> QED BY <1>1, <1>4, <1>5, <1>6, <1>7, <1>8, <1>9 DEF StoreInv

\* Every step keeps the invariant, and is a step of the ledger or none.
LEMMA StoreStep ==
    ASSUME StoreAssumption, StoreInv, [Next]_vars
    PROVE  StoreInv' /\ [Ledger!LedgerNext]_<<intents, attempts, events>>
<1>1. CASE UNCHANGED vars
    <2>1. /\ UNCHANGED committed /\ UNCHANGED session /\ now' = now
          /\ tenants' = tenants /\ intents' = intents /\ attempts' = attempts
          /\ events' = events /\ receipts' = receipts
        BY <1>1 DEF vars, committed
    <2>2. \A c \in Clients : Local(c)'
        BY <2>1, LocalStays DEF StoreInv, session
    <2>3. LedgerInv' /\ SessionType'
        BY <2>1 DEF StoreInv, LedgerInv, Ledger!Reserved, SessionType, session
    <2>4. \A c, d \in Clients : c # d => Apart(c, d)'
        BY <2>1 DEF StoreInv, session, Apart
    <2> QED BY <2>1, <2>2, <2>3, <2>4 DEF StoreInv
<1>2. CASE Tick
    BY <1>2, TickKeeps
<1>3. ASSUME NEW c \in Clients, BeginCall(c)
      PROVE  StoreInv' /\ UNCHANGED <<intents, attempts, events>>
    BY <1>3, BeginReserveKeeps, BeginOtherKeeps DEF BeginCall
<1>4. ASSUME NEW c \in Clients, Fail(c) \/ Answer(c)
      PROVE  StoreInv' /\ UNCHANGED <<intents, attempts, events>>
    BY <1>4, RollbackKeeps DEF Fail, Answer
<1>5. ASSUME NEW c \in Clients, Statement(c)
      PROVE  StoreInv' /\ [Ledger!LedgerNext]_<<intents, attempts, events>>
    <2>1. CASE InsertTenant(c) \/ InsertIntent(c) \/ SelectExisting(c)
        BY <2>1, InsertTenantKeeps, InsertIntentKeeps, SelectExistingKeeps
    <2>2. CASE Scan(c) \/ EndScan(c)
        BY <2>2, ScanKeeps, EndScanKeeps
    <2>3. CASE \E e \in Effects : LockRow(c, e) \/ UpdateClaimed(c, e)
        BY <2>3, LockRowKeeps, UpdateClaimedKeeps
    <2>4. CASE SelectForUpdate(c) \/ CountAttempts(c) \/ InsertAttempt(c)
        BY <2>4, SelectForUpdateKeeps, CountAttemptsKeeps, InsertAttemptKeeps
    <2>5. CASE Read(c) \/ Update(c)
        BY <2>5, ReadKeeps, UpdateKeeps
    <2>6. CASE SelectMax(c) \/ InsertEvent(c) \/ InsertReceipt(c)
        BY <2>6, SelectMaxKeeps, InsertEventKeeps, InsertReceiptKeeps
    <2>7. CASE Commit(c)
        BY <2>7, CommitKeeps, CommitIsLedgerStep
    <2> QED BY <1>4, <1>5, <2>1, <2>2, <2>3, <2>4, <2>5, <2>6, <2>7 DEF Statement
<1> QED BY <1>1, <1>2, <1>3, <1>4, <1>5 DEF Next

\* What the steps of every run keep: the rows, attempts and trails of the
\* ledger, and what each open transaction has locked, read and written.
THEOREM Inductive ==
    ASSUME StoreAssumption PROVE Spec => []StoreInv
<1>1. Init => StoreInv
    BY StoreInvInit
<1>2. StoreInv /\ [Next]_vars => StoreInv'
    BY StoreStep
<1> QED BY <1>1, <1>2, PTL DEF Spec

\* The statements of concurrent transactions, at READ COMMITTED and with any
\* of them failing before its commit, implement the atomic ledger of base.py:
\* no lost update, no claim of a leased or moved row, no transition off the
\* graph, and each call all or nothing.
THEOREM Atomic ==
    ASSUME StoreAssumption PROVE Spec => IsAtomicLedger
<1>1. Init => Ledger!LedgerInit
    BY StoreInvInit
<1>2. StoreInv /\ [Next]_vars
          => [Ledger!LedgerNext]_<<intents, attempts, events>>
    BY StoreStep
<1>3. Spec => []StoreInv
    BY Inductive
<1> QED BY <1>1, <1>2, <1>3, PTL DEF Spec, IsAtomicLedger, Ledger!LedgerSpec

\* Every variable of the store has its type: no statement writes a row it has
\* not locked or a value no column holds.
THEOREM WellTyped ==
    ASSUME StoreAssumption PROVE Spec => []TypeOK
<1>1. StoreInv => TypeOK
    <2> SUFFICES ASSUME StoreInv PROVE TypeOK
        OBVIOUS
    <2>1. /\ now \in 0..MaxTime /\ tenants \subseteq Tenants
          /\ receipts \subseteq Effects
          /\ pc \in [Clients -> Statements]
        BY DEF StoreInv, SessionType
    <2>2. Ledger!LedgerType
        BY DEF StoreInv, LedgerInv, Ledger!LedgerType
    <2>3. ASSUME NEW c \in Clients
          PROVE  /\ call[c] \in Call /\ mem[c] \in Memory /\ locks[c] \subseteq Effects
                 /\ tx[c].tenants \subseteq Tenants
                 /\ DOMAIN tx[c].intents \subseteq locks[c]
                 /\ \A e \in DOMAIN tx[c].intents : tx[c].intents[e] \in Ledger!Row
                 /\ tx[c].attempts \subseteq Effects \X Ledger!Attempt
                 /\ tx[c].events \subseteq Effects \X Ledger!Event
                 /\ tx[c].receipts \subseteq Effects
        <3>1. SessionType /\ Written(c)
            BY DEF StoreInv, Local
        <3>2. DOMAIN tx[c].intents \subseteq locks[c]
            BY <3>1 DEF Written, Touched
        <3>3. tx[c] \in Writes /\ tx[c].intents \in Rows
            BY <3>1 DEF SessionType, Writes
        <3>4. \A e \in DOMAIN tx[c].intents : tx[c].intents[e] \in Ledger!Row
            BY <3>3 DEF Rows
        <3> QED BY <3>1, <3>2, <3>3, <3>4 DEF SessionType, Writes
    <2> QED BY <2>1, <2>2, <2>3 DEF TypeOK
<1> QED BY <1>1, Inductive, PTL

\* No constraint ever fails: MAX(sequence) + 1 and COUNT(*) + 1 are taken under
\* the lock of the row they number, and the row in a reservation's way stays.
THEOREM Unbroken ==
    ASSUME StoreAssumption PROVE Spec => []NeverBroken
<1>1. StoreInv => NeverBroken
    BY DEF StoreInv, SessionType, NeverBroken
<1> QED BY <1>1, Inductive, PTL

\* Each trail is numbered without gaps, tells the version and the status of
\* every moment, and ends in the row.
THEOREM TrailsTell ==
    ASSUME StoreAssumption PROVE Spec => []TrailTells
<1>1. StoreInv => TrailTells
    BY DEF StoreInv, LedgerInv, Consistent, Numbered, Truthful, TrailTells,
           Ledger!Reserved
<1> QED BY <1>1, Inductive, PTL

\* The receipts table has a row for each success in the trails, from the same
\* commit, and for nothing else.
THEOREM ReceiptsTell ==
    ASSUME StoreAssumption PROVE Spec => []ReceiptsAgree
<1>1. StoreInv => ReceiptsAgree
    <2> SUFFICES ASSUME StoreInv, NEW e \in Effects
                 PROVE  /\ e \in receipts <=> Ledger!Receipted(e)
                        /\ e \in receipts => intents[e].status = "succeeded"
        BY DEF ReceiptsAgree
    <2>1. e \in receipts <=> Succeeded(events[e])
        BY DEF StoreInv
    <2>2. Succeeded(events[e]) <=> Ledger!Receipted(e)
        BY DEF Succeeded, Ledger!Receipted
    <2>3. Succeeded(events[e]) => intents[e] # NoRow
        BY DEF Succeeded, Ledger!Moves, StoreInv, LedgerInv, Consistent
    <2> QED BY <2>1, <2>2, <2>3 DEF StoreInv, LedgerInv, Consistent
<1> QED BY <1>1, Inductive, PTL

\* One intent per operation key; a reservation is replayed for the payload on
\* record and refused for any other.
THEOREM KeysBind ==
    ASSUME StoreAssumption PROVE Spec => []ReservationsBind
<1>1. StoreInv => ReservationsBind
    <2> SUFFICES ASSUME StoreInv PROVE ReservationsBind
        OBVIOUS
    <2>1. \A e, f \in Ledger!Reserved : intents[e].key = intents[f].key => e = f
        BY DEF StoreInv, LedgerInv
    <2>2. ASSUME NEW c \in Clients
          PROVE  /\ pc[c] = "replayed"
                        => intents[mem[c].effect].digest = call[c].digest
                 /\ pc[c] = "conflict"
                        => intents[mem[c].effect].digest # call[c].digest
        BY CallOf DEF StoreInv, Local, Reserving
    <2> QED BY <2>1, <2>2 DEF ReservationsBind
<1> QED BY <1>1, Inductive, PTL

-----------------------------------------------------------------------------
(* Waits *)

\* The tenant a reservation has been through is on record, or will be with its
\* commit; nobody else inserts it meanwhile.
TenantInv ==
    /\ \A c \in Clients :
          /\ tx[c].tenants \cap tenants = {}
          /\ tx[c].tenants # {} =>
                 /\ call[c].op = "reserve" /\ pc[c] # "tenant"
                 /\ tx[c].tenants = {call[c].key[1]}
          /\ call[c].op = "reserve" /\ pc[c] # "tenant" =>
                 call[c].key[1] \in tenants \cup tx[c].tenants
    /\ \A c, d \in Clients : c # d => tx[c].tenants \cap tx[d].tenants = {}

\* What a transaction writes to a table, it writes under the row's lock.
LEMMA WritesAreLocked ==
    ASSUME StoreInv, NEW d \in Clients, NEW e
    PROVE  /\ e \in DOMAIN tx[d].intents => e \in locks[d]
           /\ Of(tx[d].events, e) # {} => e \in locks[d]
           /\ Of(tx[d].attempts, e) # {} => e \in locks[d]
           /\ e \in tx[d].receipts => e \in locks[d]
<1>1. Written(d) /\ Attempting(d) /\ Moving(d)
    BY DEF StoreInv, Local
<1>2. Touched(d) \subseteq locks[d] /\ Told(d) \subseteq Touched(d)
    BY DEF Touched, Told
<1>3. \A x \in tx[d].events : x[1] \in locks[d]
    BY <1>1, <1>2 DEF Written
<1>4. \A x \in tx[d].attempts : x[1] \in locks[d]
    BY <1>1 DEF Written, Attempting
<1>5. \A x \in tx[d].receipts : x \in locks[d]
    BY <1>1 DEF Written, Moving
<1> QED BY <1>1, <1>2, <1>3, <1>4, <1>5 DEF Written, Of

\* Who holds a row goes on: all it still needs is under rows it has locked.
LEMMA HoldersGoOn ==
    ASSUME StoreInv, NEW d \in Clients, locks[d] # {}
    PROVE  ~Waits(d)
<1> SUFFICES ASSUME NEW f \in Others(d), Blocks(f, d) PROVE FALSE
    BY DEF Waits
<1>1. /\ f \in Clients /\ f # d /\ locks[d] \cap locks[f] = {}
    BY DEF Others, StoreInv, Apart
<1>2. Resting(d) /\ Reserving(d) /\ Claiming(d) /\ Attempting(d) /\ Moving(d)
    BY DEF StoreInv, Local
<1>3. pc[d] \notin {"tenant", "insert", "select", "update"}
    BY <1>2, CallOf DEF Reserving, Attempting, Moving, Inserted
<1>4. pc[d] = "claim" => mem[d].batch \subseteq locks[d]
    BY <1>2, CallOf DEF Claiming
<1>5. pc[d] \in {"attempt", "event", "receipt"} => mem[d].effect \in locks[d]
    BY <1>2, CallOf DEF Reserving, Claiming, Attempting, Moving, Inserted, Touched
<1>6. mem[d].effect \in locks[d] =>
          /\ Of(tx[f].events, mem[d].effect) = {}
          /\ Of(tx[f].attempts, mem[d].effect) = {}
          /\ mem[d].effect \notin tx[f].receipts
    BY <1>1, WritesAreLocked
<1> QED BY <1>1, <1>3, <1>4, <1>5, <1>6 DEF Blocks, Clashes

\* Who inserts a tenant does not wait for a key: the key's holder would have
\* been through the same tenant.
LEMMA InsertersGoOn ==
    ASSUME StoreInv, TenantInv, NEW d \in Clients, tx[d].tenants # {}
    PROVE  ~Waits(d)
<1> SUFFICES ASSUME NEW f \in Others(d), Blocks(f, d), locks[d] = {} PROVE FALSE
    BY HoldersGoOn DEF Waits
<1> DEFINE t == call[d].key[1]
<1>1. f \in Clients /\ f # d
    BY DEF Others
<1>2. call[d].op = "reserve" /\ pc[d] # "tenant" /\ tx[d].tenants = {t}
    BY DEF TenantInv
<1>3. pc[d] = "insert"
    BY <1>2 DEF StoreInv, Local, Reserving, Inserted, Blocks
<1>4. PICK g \in DOMAIN tx[f].intents :
          intents[g] = NoRow /\ tx[f].intents[g].key = call[d].key
    BY <1>3 DEF Blocks
<1>5. Written(f) /\ Reserving(f) /\ Claiming(f) /\ Attempting(f) /\ Moving(f)
    BY <1>1 DEF StoreInv, Local
<1>6. g \in locks[f] /\ tx[f].intents[g] = RowFor(f, g)
    BY <1>1, <1>4, <1>5, WritesAreLocked DEF Written
<1>7. call[f].op = "reserve" /\ pc[f] \in Inserted
    <2>1. call[f].op \in {"none", "reserve", "claim_due", "start_attempt",
                          "transition"}
        BY <1>1 DEF StoreInv, SessionType, Call
    <2>2. call[f].op # "none"
        BY <1>1, <1>6 DEF StoreInv, Local, Resting
    <2>3. call[f].op # "claim_due"
        BY <1>4, <1>5, <1>6 DEF Claiming, Ledger!Reserved
    <2>4. call[f].op # "start_attempt"
        BY <1>4, <1>5 DEF Written
    <2>5. call[f].op # "transition"
        BY <1>4, <1>5, <1>6 DEF Moving, Ledger!Reserved
    <2>6. call[f].op = "reserve"
        BY <2>1, <2>2, <2>3, <2>4, <2>5
    <2> QED BY <1>5, <1>6, <2>6 DEF Reserving
<1>8. call[f].key = call[d].key
    BY <1>4, <1>6, <1>7 DEF RowFor, NewRow
<1>9. t \in tenants \cup tx[f].tenants
    BY <1>1, <1>7, <1>8 DEF TenantInv, Inserted
<1> QED BY <1>1, <1>2, <1>9 DEF TenantInv

LEMMA WaitsAreShort ==
    ASSUME StoreInv, TenantInv PROVE NobodyWaitsInLine
<1> SUFFICES ASSUME NEW c \in Clients, NEW d \in Others(c), Blocks(d, c)
             PROVE  pc[d] # "idle" /\ ~Waits(d)
    BY DEF NobodyWaitsInLine
<1>1. d \in Clients
    BY DEF Others
<1>2. locks[d] # {} \/ tx[d].tenants # {}
    BY <1>1, WritesAreLocked DEF Blocks, Clashes
<1>3. pc[d] # "idle"
    BY <1>1, <1>2 DEF StoreInv, Local, Resting, TenantInv
<1> QED BY <1>1, <1>2, <1>3, HoldersGoOn, InsertersGoOn

\* A transaction ends: its tenants are gone, or on record.
LEMMA EndTenants ==
    ASSUME StoreInv, TenantInv, NEW c \in Clients, End(c),
           tenants' \in {tenants, tenants \cup tx[c].tenants}
    PROVE  TenantInv'
<1>1. /\ pc' = [pc EXCEPT ![c] = "idle"]
      /\ call' = [call EXCEPT ![c] = NoCall]
      /\ tx' = [tx EXCEPT ![c] = Nothing]
      /\ SessionType
    BY DEF End, Goto, StoreInv
<1>2. tx'[c].tenants = {} /\ call'[c].op = "none"
    BY <1>1 DEF SessionType, Nothing, NoCall
<1>3. \A d \in Clients \ {c} :
          tx'[d] = tx[d] /\ call'[d] = call[d] /\ pc'[d] = pc[d]
    BY <1>1 DEF SessionType
<1>4. \A d \in Clients \ {c} : tx[d].tenants \cap tenants' = {}
    BY DEF TenantInv
<1>5. tenants \subseteq tenants'
    OBVIOUS
<1>6. \A d \in Clients :
          /\ tx'[d].tenants \cap tenants' = {}
          /\ tx'[d].tenants # {} =>
                 /\ call'[d].op = "reserve" /\ pc'[d] # "tenant"
                 /\ tx'[d].tenants = {call'[d].key[1]}
          /\ call'[d].op = "reserve" /\ pc'[d] # "tenant" =>
                 call'[d].key[1] \in tenants' \cup tx'[d].tenants
    <2> TAKE d \in Clients
    <2>1. CASE d = c
        BY <1>2, <2>1
    <2>2. CASE d # c
        BY <1>3, <1>4, <1>5, <2>2 DEF TenantInv
    <2> QED BY <2>1, <2>2
<1>7. \A d, f \in Clients : d # f => tx'[d].tenants \cap tx'[f].tenants = {}
    BY <1>2, <1>3 DEF TenantInv
<1> QED BY <1>6, <1>7 DEF TenantInv

LEMMA InsertTenantTenants ==
    ASSUME StoreInv, TenantInv, NEW c \in Clients, InsertTenant(c)
    PROVE  TenantInv'
<1> DEFINE t == call[c].key[1]
<1>1. /\ pc[c] = "tenant" /\ ~Waits(c)
      /\ pc' = [pc EXCEPT ![c] = "insert"]
      /\ tx' = [tx EXCEPT ![c].tenants = {t} \ tenants]
      /\ call' = call /\ tenants' = tenants
      /\ SessionType
    BY DEF InsertTenant, Goto, StoreInv, committed
<1>2. /\ tx'[c].tenants = {t} \ tenants /\ pc'[c] = "insert"
      /\ call[c].op = "reserve"
    BY <1>1, CallOf DEF SessionType, Writes
<1>3. \A d \in Clients \ {c} : tx'[d] = tx[d] /\ pc'[d] = pc[d]
    BY <1>1 DEF SessionType
<1>4. \A d \in Clients \ {c} : t \notin tx[d].tenants
    BY <1>1 DEF Waits, Blocks, Others
<1>5. \A d \in Clients :
          /\ tx'[d].tenants \cap tenants' = {}
          /\ tx'[d].tenants # {} =>
                 /\ call'[d].op = "reserve" /\ pc'[d] # "tenant"
                 /\ tx'[d].tenants = {call'[d].key[1]}
          /\ call'[d].op = "reserve" /\ pc'[d] # "tenant" =>
                 call'[d].key[1] \in tenants' \cup tx'[d].tenants
    <2> TAKE d \in Clients
    <2>1. CASE d = c
        BY <1>1, <1>2, <2>1
    <2>2. CASE d # c
        BY <1>1, <1>3, <2>2 DEF TenantInv
    <2> QED BY <2>1, <2>2
<1>6. \A d, f \in Clients : d # f => tx'[d].tenants \cap tx'[f].tenants = {}
    BY <1>2, <1>3, <1>4 DEF TenantInv
<1> QED BY <1>5, <1>6 DEF TenantInv

\* A reservation begins with none; the other calls have none.
LEMMA BeginTenants ==
    ASSUME StoreInv, TenantInv, NEW c \in Clients, BeginCall(c)
    PROVE  TenantInv'
<1>1. PICK args, h, l :
          /\ Begin(c, args, h, l)
          /\ args.op = "reserve" => l = "tenant"
    <2>1. ASSUME NEW k \in Keys, NEW d \in Digests, NEW e \in Effects,
                 BeginReserve(c, k, d, e)
          PROVE  Begin(c, [op |-> "reserve", key |-> k, digest |-> d, effect |-> e],
                       e, "tenant")
        BY <2>1 DEF BeginReserve
    <2>2. ASSUME BeginClaim(c)
          PROVE  Begin(c, [op |-> "claim_due", now |-> now], NoEffect, "scan")
        BY <2>2 DEF BeginClaim
    <2>3. ASSUME NEW e \in Effects, NEW v \in 0..MaxVersion, BeginAttempt(c, e, v)
          PROVE  Begin(c, [op |-> "start_attempt", effect |-> e, version |-> v],
                       e, "select")
        BY <2>3 DEF BeginAttempt
    <2>4. ASSUME NEW e \in Effects, NEW v \in 0..MaxVersion, NEW t \in Targets,
                 BeginTransition(c, e, v, t)
          PROVE  Begin(c, [op |-> "transition", effect |-> e, version |-> v,
                           target |-> t], e, "read")
        BY <2>4 DEF BeginTransition
    <2>5. [op |-> "claim_due", now |-> now].op # "reserve"
        OBVIOUS
    <2>6. CASE \E k \in Keys, d \in Digests, e \in Effects : BeginReserve(c, k, d, e)
        BY <2>1, <2>6
    <2>7. CASE BeginClaim(c)
        BY <2>2, <2>5, <2>7
    <2>8. CASE \E e \in Effects, v \in 0..MaxVersion : BeginAttempt(c, e, v)
        <3>1. PICK e \in Effects, v \in 0..MaxVersion : BeginAttempt(c, e, v)
            BY <2>8
        <3> DEFINE a == [op |-> "start_attempt", effect |-> e, version |-> v]
        <3>2. Begin(c, a, e, "select") /\ a.op # "reserve"
            BY <2>3, <3>1
        <3> HIDE DEF a
        <3> QED BY <3>2
    <2>9. CASE \E e \in Effects, v \in 0..MaxVersion, t \in Targets :
                   BeginTransition(c, e, v, t)
        <3>1. PICK e \in Effects, v \in 0..MaxVersion, t \in Targets :
                       BeginTransition(c, e, v, t)
            BY <2>9
        <3> DEFINE a == [op |-> "transition", effect |-> e, version |-> v,
                         target |-> t]
        <3>2. Begin(c, a, e, "read") /\ a.op # "reserve"
            BY <2>4, <3>1
        <3> HIDE DEF a
        <3> QED BY <3>2
    <2> QED BY <2>6, <2>7, <2>8, <2>9 DEF BeginCall
<1>2. /\ pc[c] = "idle" /\ pc' = [pc EXCEPT ![c] = l]
      /\ call' = [call EXCEPT ![c] = args]
      /\ tenants' = tenants /\ tx' = tx
      /\ SessionType
    BY <1>1 DEF Begin, Goto, StoreInv, committed
<1>3. tx[c].tenants = {}
    BY <1>2 DEF TenantInv, StoreInv, Local, Resting
<1>4. pc'[c] = l /\ call'[c] = args
    BY <1>2 DEF SessionType
<1>5. \A d \in Clients \ {c} : pc'[d] = pc[d] /\ call'[d] = call[d]
    BY <1>2 DEF SessionType
<1> QED BY <1>1, <1>2, <1>3, <1>4, <1>5 DEF TenantInv

\* The statements that neither insert a tenant nor end the transaction.
LEMMA RestTenants ==
    ASSUME StoreInv, TenantInv, tenants' = tenants, call' = call,
           \A d \in Clients : tx'[d].tenants = tx[d].tenants,
           \A d \in Clients : pc'[d] = "tenant" <=> pc[d] = "tenant"
    PROVE  TenantInv'
BY DEF TenantInv

LEMMA TenantStep ==
    ASSUME StoreAssumption, StoreInv, TenantInv, [Next]_vars PROVE TenantInv'
<1>1. CASE UNCHANGED vars \/ Tick
    <2>1. tenants' = tenants /\ call' = call /\ tx' = tx /\ pc' = pc
        BY <1>1 DEF vars, Tick, committed, session
    <2> QED BY <2>1, RestTenants
<1>2. ASSUME NEW c \in Clients, BeginCall(c)
      PROVE  TenantInv'
    BY <1>2, BeginTenants
<1>3. ASSUME NEW c \in Clients, Rollback(c)
      PROVE  TenantInv'
    BY <1>3, EndTenants DEF Rollback, committed
<1>4. ASSUME NEW c \in Clients, Commit(c)
      PROVE  TenantInv'
    BY <1>4, EndTenants DEF Commit
<1>5. ASSUME NEW c \in Clients, Statement(c), ~Rollback(c), ~Commit(c),
             ~InsertTenant(c)
      PROVE  TenantInv'
    <2>1. SessionType
        BY DEF StoreInv
    <2>2. /\ tenants' = tenants /\ call' = call
          /\ pc[c] # "tenant"
          /\ \/ pc' = pc
             \/ \E l \in Statements \ {"tenant"} : Goto(c, l)
        BY <1>5 DEF Statement, InsertIntent, SelectExisting, Answer, Scan,
            EndScan, LockRow, UpdateClaimed, SelectForUpdate, CountAttempts,
            InsertAttempt, Read, Update, SelectMax, InsertEvent, InsertReceipt,
            Reads, committed, AfterEvent, Statements
    <2>3. \/ tx' = tx
          \/ \E e, row : Put(c, e, row)
          \/ \E X : \/ tx' = [tx EXCEPT ![c].attempts = X]
                   \/ tx' = [tx EXCEPT ![c].events = X]
                   \/ tx' = [tx EXCEPT ![c].receipts = X]
        BY <1>5 DEF Statement, InsertIntent, SelectExisting, Answer, Scan,
            EndScan, LockRow, UpdateClaimed, SelectForUpdate, CountAttempts,
            InsertAttempt, Read, Update, SelectMax, InsertEvent, InsertReceipt,
            Reads
    <2>4. \A d \in Clients : tx'[d].tenants = tx[d].tenants
        <3>1. ASSUME NEW F, NEW d \in Clients
              PROVE  /\ [tx EXCEPT ![c].intents = F][d].tenants = tx[d].tenants
                     /\ [tx EXCEPT ![c].attempts = F][d].tenants = tx[d].tenants
                     /\ [tx EXCEPT ![c].events = F][d].tenants = tx[d].tenants
                     /\ [tx EXCEPT ![c].receipts = F][d].tenants = tx[d].tenants
            BY <2>1 DEF SessionType, Writes
        <3>2. ASSUME NEW e, NEW row, Put(c, e, row)
              PROVE  \E F : tx' = [tx EXCEPT ![c].intents = F]
            BY <3>2, Zenon DEF Put
        <3>3. CASE \E F : tx' = [tx EXCEPT ![c].intents = F]
            BY <3>1, <3>3
        <3>4. CASE \E X : tx' = [tx EXCEPT ![c].attempts = X]
            BY <3>1, <3>4
        <3>5. CASE \E X : tx' = [tx EXCEPT ![c].events = X]
            BY <3>1, <3>5
        <3>6. CASE \E X : tx' = [tx EXCEPT ![c].receipts = X]
            BY <3>1, <3>6
        <3>7. CASE tx' = tx
            BY <3>7
        <3> QED BY <2>3, <3>2, <3>3, <3>4, <3>5, <3>6, <3>7
    <2>5. \A d \in Clients : pc'[d] = "tenant" <=> pc[d] = "tenant"
        BY <2>1, <2>2 DEF Goto, SessionType
    <2> QED BY <2>2, <2>4, <2>5, RestTenants
<1> QED BY <1>1, <1>2, <1>3, <1>4, <1>5, InsertTenantTenants DEF Next, Fail

\* However many transactions there are: no circle of them waits, nobody waits
\* for a transaction that waits, and none for one that has ended.
THEOREM NobodyInLine ==
    ASSUME StoreAssumption PROVE Spec => []NobodyWaitsInLine
<1>1. Init => StoreInv
    BY StoreInvInit
<1>2. Init => TenantInv
    BY DEF Init, TenantInv, Nothing, NoCall
<1>3. StoreInv /\ TenantInv /\ [Next]_vars => StoreInv' /\ TenantInv'
    BY StoreStep, TenantStep
<1>4. StoreInv /\ TenantInv => NobodyWaitsInLine
    BY WaitsAreShort
<1> QED BY <1>1, <1>2, <1>3, <1>4, PTL DEF Spec
===============================================================================
