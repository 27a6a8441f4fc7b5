------------------------- MODULE ReconcilerLoopProofs -------------------------
(***************************************************************************)
(* The reconciler's loop for any effects, even infinitely many, any batch  *)
(* size, retention and clock: an exception strands one effect at most.     *)
(***************************************************************************)
EXTENDS ReconcilerLoop, FiniteSetTheorems, TLAPS

\* Where the loop has an effect in hand.
Holding == {"redispatch", "attempt", "wait", "reconcile", "probe", "review"}

Types ==
    /\ now \in Nat /\ fresh \in BOOLEAN /\ deaths \in Nat
    /\ status \in [Effects -> EffectStatus]
    /\ created \in [Effects -> Nat]
    /\ pc \in Holding \cup {"idle", "next", "stopped"}
    /\ todo \subseteq Effects
    /\ eff \in Effects \cup {NoEffect}
    /\ eff \in Effects <=> pc \in Holding

\* Stranded effects are counted, which takes finitely many of them: one more
\* for each death.
Counted == IsFiniteSet(Stranded) /\ Cardinality(Stranded) <= deaths

\* The loop takes an effect of its batch in hand (reconcile.py, _reconcile_once).
LEMMA GetTypes ==
    ASSUME LoopAssumption, Types, Get
    PROVE  Types'
<1> USE LoopAssumption
<1>1. PICK e \in todo :
        /\ eff' = e /\ todo' = todo \ {e} /\ fresh' = TRUE
        /\ pc' = CASE Safety(e) = "idempotent" /\ RetentionValid(e) -> "redispatch"
                   [] RouteUnknown(Safety(e)) = "reconciling" -> "reconcile"
                   [] OTHER -> "review"
    BY DEF Get
<1>2. /\ UNCHANGED <<now, status, created, deaths>>
      /\ e \in Effects
    BY <1>1 DEF Get, Types
<1>3. pc' \in {"redispatch", "reconcile", "review"}
    <2> HIDE DEF RouteUnknown, Safety, RetentionValid
    <2> QED BY <1>1
<1> QED BY <1>1, <1>2, <1>3 DEF Types, Holding

\* Every step of the broker, the loop and the clock keeps the types.
LEMMA TypesStep ==
    ASSUME LoopAssumption, Types, [Next]_vars
    PROVE  Types'
<1> USE LoopAssumption
<1>1. ASSUME NEW e \in Effects, BecomesUnknown(e) \/ SessionSettles(e)
      PROVE  Types'
    <2>1. /\ UNCHANGED <<now, created, pc, eff, todo, deaths>>
          /\ fresh' \in BOOLEAN
        BY <1>1 DEF BecomesUnknown, SessionSettles, Elsewhere
    <2>2. Outcomes(e) \subseteq EffectStatus
        BY DEF Outcomes, EffectStatus
    <2>3. PICK s \in EffectStatus : status' = [status EXCEPT ![e] = s]
        <3> HIDE DEF Outcomes
        <3> QED BY <1>1, <2>2 DEF BecomesUnknown, SessionSettles, Elsewhere, EffectStatus
    <2> QED BY <2>1, <2>3 DEF Types
<1>2. CASE List
    <2>1. todo' \subseteq Effects
        BY <1>2 DEF List, Batches, Listed, LoopAssumption
    <2> QED BY <1>2, <2>1 DEF List, Types, Holding
<1>3. CASE Get
    BY <1>3, GetTypes
<1>4. CASE BatchDone
    BY <1>4 DEF BatchDone, Types, Holding
<1>5. ASSUME NEW s \in EffectStatus, NEW l \in {"attempt", "probe", "next"},
             Write(s, l), pc \in Holding
      PROVE  Types'
    BY <1>5 DEF Write, Types, Holding, LoopAssumption
<1>6. CASE Begin
    BY <1>5, <1>6 DEF Begin, EffectStatus, Holding
<1>7. CASE StartAttempt
    BY <1>7 DEF StartAttempt, Types, Holding
<1>8. CASE Answer
    BY <1>5, <1>8 DEF Answer, Ambiguous, EffectStatus, Holding
<1>9. CASE End
    BY <1>9 DEF End, Types, Holding, LoopAssumption
<1>10. CASE Restart
    BY <1>10 DEF Restart, Types, Holding
<1>11. CASE Tick
    BY <1>11 DEF Tick, Types
<1>12. CASE UNCHANGED vars
    BY <1>12 DEF vars, Types
<1> QED
    BY <1>1, <1>2, <1>3, <1>4, <1>6, <1>7, <1>8, <1>9, <1>10, <1>11, <1>12
    DEF Next, Loop, Refused, Raise

\* If no effect but the one in hand can be newly stranded, and that one only by
\* a death, the count goes on.
LEMMA OneMore ==
    ASSUME Types, Counted,
           \/ Stranded' \subseteq Stranded /\ deaths' = deaths
           \/ Stranded' \subseteq Stranded \cup {eff} /\ deaths' = deaths + 1
    PROVE  Counted'
<1> DEFINE S == Stranded
           T == Stranded'
<1>1. IsFiniteSet(S) /\ Cardinality(S) \in Nat /\ Cardinality(S) <= deaths
    BY FS_CardinalityType DEF Counted
<1>2. CASE T \subseteq S /\ deaths' = deaths
    <2>1. IsFiniteSet(T) /\ Cardinality(T) <= Cardinality(S)
        BY <1>1, <1>2, FS_Subset
    <2>2. Cardinality(T) \in Nat
        BY <2>1, FS_CardinalityType
    <2> QED BY <1>1, <1>2, <2>1, <2>2 DEF Counted, Types
<1>3. CASE T \subseteq S \cup {eff} /\ deaths' = deaths + 1
    <2>1. /\ IsFiniteSet(S \cup {eff})
          /\ \/ Cardinality(S \cup {eff}) = Cardinality(S)
             \/ Cardinality(S \cup {eff}) = Cardinality(S) + 1
        <3> HIDE DEF S
        <3> QED BY <1>1, FS_AddElement
    <2>2. IsFiniteSet(T) /\ Cardinality(T) <= Cardinality(S \cup {eff})
        BY <1>3, <2>1, FS_Subset
    <2>3. Cardinality(T) \in Nat
        BY <2>2, FS_CardinalityType
    <2> QED BY <1>1, <1>3, <2>1, <2>2, <2>3 DEF Counted, Types
<1> QED BY <1>2, <1>3

\* Every step strands no effect, or ends the loop and strands the one in hand.
LEMMA CountStep ==
    ASSUME LoopAssumption, Types, Counted, [Next]_vars
    PROVE  Counted'
<1> SUFFICES \/ Stranded' \subseteq Stranded /\ deaths' = deaths
             \/ Stranded' \subseteq Stranded \cup {eff} /\ deaths' = deaths + 1
    BY OneMore
<1> USE LoopAssumption
<1>1. ASSUME NEW e \in Effects, BecomesUnknown(e) \/ SessionSettles(e)
      PROVE  Stranded' \subseteq Stranded /\ deaths' = deaths
    <2>1. UNCHANGED <<eff, deaths>>
        BY <1>1 DEF BecomesUnknown, SessionSettles, Elsewhere
    <2>2. PICK s : /\ status' = [status EXCEPT ![e] = s]
                   /\ s \notin {"dispatching", "reconciling"}
        <3>1. \A s \in Outcomes(e) : s \notin {"dispatching", "reconciling"}
            BY DEF Outcomes
        <3> HIDE DEF Outcomes
        <3> QED BY <1>1, <3>1 DEF BecomesUnknown, SessionSettles, Elsewhere
    <2> QED BY <2>1, <2>2 DEF Stranded, Types
<1>2. CASE Get
    \* Nothing was in hand, so nothing is let go.
    <2>1. eff = NoEffect /\ UNCHANGED <<status, deaths>>
        BY <1>2 DEF Get, Types, Holding
    <2> QED BY <2>1 DEF Stranded, LoopAssumption
<1>3. CASE List \/ BatchDone \/ StartAttempt \/ Restart \/ Tick \/ UNCHANGED vars
    BY <1>3 DEF List, BatchDone, StartAttempt, Restart, Tick, vars, Stranded
<1>4. ASSUME NEW s, NEW l, Write(s, l),
             l = "next" => s \notin {"dispatching", "reconciling"}
      PROVE  Stranded' \subseteq Stranded /\ deaths' = deaths
    BY <1>4 DEF Write, Stranded, Types, LoopAssumption
<1>5. CASE Begin
    BY <1>4, <1>5 DEF Begin
<1>6. CASE Answer
    BY <1>4, <1>6 DEF Answer, Ambiguous
<1>7. CASE End
    BY <1>7 DEF End, Stranded
<1> QED
    BY <1>1, <1>2, <1>3, <1>5, <1>6, <1>7 DEF Next, Loop, Refused, Raise

\* Nothing is in hand and nothing stranded when the loop first starts.
LEMMA LoopStarts ==
    ASSUME LoopAssumption, Init
    PROVE  Types /\ Counted
<1>1. Types
    BY DEF Init, LoopAssumption, Types, Holding, EffectStatus
<1>2. Stranded = {}
    BY DEF Init, Stranded
<1> QED BY <1>1, <1>2, FS_EmptySet DEF Init, Counted

\* As many effects are left in DISPATCHING or RECONCILING with nobody working on
\* them as the loop ended: an exception never costs the rest of the batch
\* (cli.py, _reconciler_loop).
THEOREM DeathStrandsOne ==
    ASSUME LoopAssumption
    PROVE  Spec => []OneStrandedPerDeath
<1>1. Init => Types /\ Counted
    BY LoopStarts
<1>2. Types /\ Counted /\ [Next]_vars => (Types /\ Counted)'
    BY TypesStep, CountStep
<1>3. Counted => OneStrandedPerDeath
    BY DEF Counted, OneStrandedPerDeath
<1> QED BY <1>1, <1>2, <1>3, PTL DEF Spec
===============================================================================
