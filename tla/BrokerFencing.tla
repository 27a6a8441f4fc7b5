----------------------------- MODULE BrokerFencing -----------------------------
(***************************************************************************)
(* Fencing and what rests on it, for every value of Broker's constants: at *)
(* most one process can write what it learned about an effect, and an      *)
(* unsafe effect is attempted and performed at most once.                  *)
(***************************************************************************)
EXTENDS BrokerProofs

-----------------------------------------------------------------------------
(* Fencing *)

\* No process knows a version the ledger has not reached.
VersionsHeld == \A p \in Procs, i \in Ids : ver[p][i] <= version[i]

\* While a worker's claim is current the effect waits for its dispatch.
ClaimCurrent ==
    \A w \in Workers, i \in Ids :
        /\ i \in todo[w] \/ (eff[w] = i /\ pc[w] = "claimed")
        /\ ver[w][i] = version[i]
        => status[i] \in ClaimableStatuses

\* The effect in hand has left the batch.
TakenOnce == \A w \in Workers : eff[w] \notin todo[w]

FencedInv == VersionsHeld /\ Fenced /\ ClaimCurrent /\ TakenOnce

LEMMA FencedInit == Init => FencedInv
BY NullsAssumption
   DEF Init, FencedInv, VersionsHeld, Fenced, Owner, Holds, ClaimCurrent,
       TakenOnce, Dispatching, Probing, Procs

\* p has the same effect and versions in hand as before and took no edge ...
Keeps(p) ==
    /\ eff'[p] = eff[p] /\ ver'[p] = ver[p] /\ todo'[p] = todo[p]
    /\ pc'[p] \in Dispatching <=> pc[p] \in Dispatching
    /\ pc'[p] \in Probing <=> pc[p] \in Probing
    /\ pc'[p] = "claimed" => pc[p] = "claimed"

\* ... or holds nothing the store would accept a settlement for.
Drops(p) ==
    /\ pc'[p] \notin Dispatching \cup Probing
    /\ p \notin Workers \/ (eff'[p] = NoId /\ todo'[p] = {})
    /\ \A i \in Ids : ver'[p][i] <= version[i]

LEMMA LocalFenced ==
    ASSUME TypeInv, FencedInv, UNCHANGED <<status, version>>,
           \A p \in Procs : Keeps(p) \/ Drops(p)
    PROVE  FencedInv'
<1> USE DEF Keeps, Drops
<1>1. VersionsHeld'
  BY DEF FencedInv, VersionsHeld
<1>2. \A p \in Procs, i \in Ids :
         /\ Owner(p, i)' => Owner(p, i)
         /\ Owner(p, i)' => (pc'[p] \in Dispatching <=> pc[p] \in Dispatching)
         /\ Holds(p, i)' => Holds(p, i)
  BY NullsAssumption DEF Owner, Holds
<1>3. Fenced'
  BY <1>2 DEF FencedInv, Fenced
<1>4. ClaimCurrent' /\ TakenOnce'
  BY NullsAssumption DEF FencedInv, ClaimCurrent, TakenOnce, Procs
<1> QED
  BY <1>1, <1>3, <1>4 DEF FencedInv

\* A transition outdates every version of the effect held until then.
LEMMA WriteFenced ==
    ASSUME TypeInv, FencedInv, NEW i \in Ids, NEW s, Write(i, s), UNCHANGED local
    PROVE  FencedInv'
<1>1. /\ version' = [version EXCEPT ![i] = @ + 1]
      /\ \A j \in Ids \ {i} : status'[j] = status[j] /\ version'[j] = version[j]
      /\ version'[i] = version[i] + 1 /\ version[i] \in Nat
  BY DEF Write, TypeInv, TypeOK, LedgerType
<1>2. \A p \in Procs : ver[p][i] # version'[i] /\ ver[p][i] <= version'[i]
  BY <1>1 DEF FencedInv, VersionsHeld, TypeInv, TypeOK, LocalType
<1>3. VersionsHeld'
  BY <1>1, <1>2 DEF FencedInv, VersionsHeld, local
<1>4. \A p \in Procs, j \in Ids : /\ Owner(p, j)' => Owner(p, j) /\ j # i
                                  /\ Holds(p, j)' => Holds(p, j) /\ j # i
  BY <1>1, <1>2 DEF Owner, Holds, local
<1>5. Fenced'
  BY <1>1, <1>4 DEF FencedInv, Fenced, local
<1>6. ClaimCurrent' /\ TakenOnce'
  BY <1>1, <1>2 DEF FencedInv, ClaimCurrent, TakenOnce, local, Procs
<1> QED
  BY <1>3, <1>5, <1>6 DEF FencedInv

LEMMA AdvanceFenced ==
    ASSUME TypeInv, FencedInv, NEW p \in Procs, eff[p] # NoId,
           NEW l, Advance(p, l),
           \/ l = "attempt" /\ Goal(p) = "dispatching"
           \/ l = "probe" /\ Goal(p) = "reconciling"
    PROVE  FencedInv'
<1> DEFINE i == eff[p]
<1>0. i \in Ids
  BY DEF TypeInv, TypeOK, LocalType
<1>1. /\ \A j \in Ids \ {i} : status'[j] = status[j] /\ version'[j] = version[j]
      /\ version'[i] = version[i] + 1 /\ version[i] \in Nat
      /\ status'[i] = Goal(p)
  BY <1>0 DEF Advance, Write, TypeInv, TypeOK, LedgerType
<1>2. /\ \A q \in Procs \ {p} : ver'[q] = ver[q] /\ pc'[q] = pc[q]
      /\ \A j \in Ids \ {i} : ver'[p][j] = ver[p][j]
      /\ ver'[p][i] = version'[i]
      /\ pc'[p] = l /\ eff' = eff /\ todo' = todo
  BY <1>0, <1>1 DEF Advance, Accepted, Current, Goto, TypeInv, TypeOK, LocalType
<1>3. \A q \in Procs \ {p} : ver[q][i] # version'[i] /\ ver[q][i] <= version'[i]
  BY <1>0, <1>1 DEF FencedInv, VersionsHeld, TypeInv, TypeOK, LocalType
<1>4. VersionsHeld'
  BY <1>0, <1>1, <1>2, <1>3 DEF FencedInv, VersionsHeld
<1>5. \A q \in Procs, j \in Ids :
         /\ Owner(q, j)' => (Owner(q, j) /\ j # i /\ pc'[q] = pc[q])
                              \/ (q = p /\ j = i)
         /\ Holds(q, j)' => (Holds(q, j) /\ j # i) \/ (q = p /\ j = i)
  BY <1>1, <1>2, <1>3 DEF Owner, Holds
<1>6. Fenced'
  BY <1>1, <1>2, <1>5 DEF FencedInv, Fenced, Dispatching
<1>7. ClaimCurrent' /\ TakenOnce'
  BY <1>1, <1>2, <1>3 DEF FencedInv, ClaimCurrent, TakenOnce, Procs
<1> QED
  BY <1>4, <1>6, <1>7 DEF FencedInv

LEMMA CloseFenced ==
    ASSUME TypeInv, FencedInv, NEW p \in Procs, eff[p] # NoId, Close(p)
    PROVE  FencedInv'
<1> DEFINE i == eff[p]
<1>0. i \in Ids /\ TakeNext(p, todo[p]) /\ todo[p] \subseteq Ids
  BY DEF Close, Finish, TypeInv, TypeOK, LocalType
<1>1. /\ \A j \in Ids \ {i} : status'[j] = status[j] /\ version'[j] = version[j]
      /\ version'[i] = version[i] + 1 /\ version[i] \in Nat
  BY <1>0 DEF Close, Write, TypeInv, TypeOK, LedgerType
<1>2. /\ \A q \in Procs \ {p} : /\ ver'[q] = ver[q] /\ pc'[q] = pc[q]
                                /\ eff'[q] = eff[q] /\ todo'[q] = todo[q]
      /\ \A j \in Ids \ {i} : ver'[p][j] = ver[p][j]
      /\ ver'[p][i] = 0
      /\ pc'[p] \in {"idle", "claimed", "listed"}
      /\ eff'[p] \in todo[p] \cup {NoId} /\ todo'[p] \subseteq todo[p]
  BY <1>0, ClosedLabel
<1>3. \A q \in Procs \ {p} : ver[q][i] # version'[i] /\ ver[q][i] <= version'[i]
  BY <1>0, <1>1 DEF FencedInv, VersionsHeld, TypeInv, TypeOK, LocalType
<1>4. VersionsHeld'
  BY <1>0, <1>1, <1>2, <1>3 DEF FencedInv, VersionsHeld
<1>5. \A q \in Procs, j \in Ids :
         /\ Owner(q, j)' => Owner(q, j) /\ j # i /\ pc'[q] = pc[q]
         /\ Holds(q, j)' => Holds(q, j) /\ j # i
  BY <1>0, <1>1, <1>2, <1>3, NullsAssumption
  DEF Owner, Holds, Dispatching, Probing
<1>6. Fenced'
  BY <1>1, <1>5 DEF FencedInv, Fenced
<1>7. ClaimCurrent'
  <2> SUFFICES ASSUME NEW w \in Workers, NEW j \in Ids,
                      j \in todo'[w] \/ (eff'[w] = j /\ pc'[w] = "claimed"),
                      ver'[w][j] = version'[j]
               PROVE  status'[j] \in ClaimableStatuses
    BY DEF ClaimCurrent
  <2>1. w \in Procs /\ j # i
    BY <1>1, <1>2, <1>3 DEF Procs
  <2>2. j \in todo[w] \/ (eff[w] = j /\ pc[w] = "claimed")
    BY <1>2, <2>1, NullsAssumption
  <2>3. ver[w][j] = version[j]
    BY <1>1, <1>2, <2>1
  <2> QED
    BY <1>1, <2>1, <2>2, <2>3 DEF FencedInv, ClaimCurrent
<1>8. TakenOnce'
  <2>1. eff'[p] \notin todo'[p]
    BY <1>0, NullsAssumption DEF TakeNext, TypeInv, TypeOK, LocalType
  <2> QED
    BY <1>2, <2>1 DEF FencedInv, TakenOnce, Procs
<1> QED
  BY <1>4, <1>6, <1>7, <1>8 DEF FencedInv

\* A claim outdates every earlier claim on its effects.
LEMMA ClaimFenced ==
    ASSUME TypeInv, FencedInv, NEW w \in Workers, ClaimDue(w)
    PROVE  FencedInv'
<1> w \in Procs
  BY DEF Procs
<1>1. PICK S \in Oldest(Due) :
         /\ version' = [i \in Ids |-> IF i \in S THEN version[i] + 1
                                                 ELSE version[i]]
         /\ ver' = [ver EXCEPT ![w] =
                       [i \in Ids |-> IF i \in S THEN version[i] + 1 ELSE 0]]
         /\ TakeNext(w, S)
  BY DEF ClaimDue
<1>2. S \subseteq Ids /\ \A i \in S : status[i] \in ClaimableStatuses
  BY OldestInside DEF Due
<1>3. /\ pc'[w] \in {"idle", "claimed", "listed"}
      /\ eff'[w] \in S \cup {NoId} /\ todo'[w] \subseteq S
      /\ \A q \in Procs \ {w} : /\ pc'[q] = pc[q] /\ eff'[q] = eff[q]
                                /\ todo'[q] = todo[q] /\ ver'[q] = ver[q]
  BY <1>1, <1>2, TakeNextLabel, TakeNextType, NullsAssumption
  DEF TypeInv, TypeOK, LocalType
<1>4. /\ \A i \in S : version'[i] = version[i] + 1 /\ ver'[w][i] = version'[i]
      /\ \A i \in Ids \ S : version'[i] = version[i] /\ ver'[w][i] = 0
      /\ \A i \in Ids : version[i] \in Nat
      /\ status' = status
  BY <1>1, <1>2 DEF TypeInv, TypeOK, LocalType, LedgerType, ClaimDue
<1>5. \A q \in Procs \ {w}, i \in S : ver[q][i] # version'[i] /\ ver[q][i] <= version'[i]
  BY <1>2, <1>4 DEF FencedInv, VersionsHeld, TypeInv, TypeOK, LocalType
<1>6. VersionsHeld'
  BY <1>2, <1>3, <1>4, <1>5 DEF FencedInv, VersionsHeld
<1>7. \A q \in Procs, i \in Ids :
         /\ Owner(q, i)' => Owner(q, i) /\ q # w /\ i \notin S
         /\ Holds(q, i)' => \/ Holds(q, i) /\ q # w /\ i \notin S
                            \/ q = w /\ i \in S
  BY <1>2, <1>3, <1>4, <1>5, NullsAssumption
  DEF Owner, Holds, Dispatching, Probing
<1>8. Fenced'
  BY <1>3, <1>4, <1>7 DEF FencedInv, Fenced
<1>9. ClaimCurrent'
  BY <1>2, <1>3, <1>4, <1>5, NullsAssumption DEF FencedInv, ClaimCurrent, Procs
<1>10. TakenOnce'
  <2>1. eff'[w] \notin todo'[w]
    BY <1>1, <1>2, NullsAssumption DEF TakeNext, TypeInv, TypeOK, LocalType
  <2> QED
    BY <1>3, <2>1 DEF FencedInv, TakenOnce, Procs
<1> QED
  BY <1>6, <1>8, <1>9, <1>10 DEF FencedInv

\* A process whose call raised holds nothing.
LEMMA StopFenced ==
    ASSUME TypeInv, FencedInv, NEW p \in Procs, Stop(p),
           UNCHANGED <<status, version>>
    PROVE  FencedInv'
<1>1. \A i \in Ids : ver'[p][i] <= version[i]
  BY DEF Stop, TypeInv, TypeOK, LocalType, LedgerType
<1>3. Drops(p)
  BY <1>1, StopLabel DEF Drops, Dispatching, Probing
<1>2. \A q \in Procs \ {p} : Keeps(q)
  BY StopLabel DEF Keeps
<1> QED
  BY <1>2, <1>3, LocalFenced

LEMMA StepFenced ==
    ASSUME TypeInv, FencedInv, NEW p \in Procs, Step(p)
    PROVE  FencedInv'
<1>0. eff[p] = NoId <=> pc[p] \in {"idle", "stopped"}
  BY DEF TypeInv, TypeOK, LocalType
<1>1. CASE p \in Workers /\ ClaimDue(p)
  BY <1>1, ClaimFenced
<1>2. CASE p \in Reconcilers /\ List(p)
  <2>1. PICK S : TakeNext(p, S)
    BY <1>2 DEF List
  <2>2. Drops(p)
    BY <1>2, <2>1, TakeNextLabel, ProcsAssumption
    DEF Drops, List, FencedInv, VersionsHeld, Dispatching, Probing
  <2>3. \A q \in Procs \ {p} : Keeps(q)
    BY <1>2, <2>1, TakeNextLabel DEF Keeps, List
  <2> QED
    BY <1>2, <2>2, <2>3, LocalFenced DEF List, ledger
<1>3. CASE p \in Reconcilers /\ Get(p)
  <2>1. Route(eff[p]) \in {"redispatch", "reconcile", "review"}
    BY DEF Route
  <2>2. eff[p] \in Ids
    BY <1>0, <1>3 DEF Get, TypeInv, TypeOK, LocalType
  <2>3. Drops(p)
    BY <1>3, <2>1, <2>2, ProcsAssumption
    DEF Drops, Get, Goto, FencedInv, VersionsHeld, Dispatching, Probing, TypeInv,
        TypeOK, LocalType, LedgerType
  <2>4. \A q \in Procs \ {p} : Keeps(q)
    BY <1>3 DEF Keeps, Get, Goto, TypeInv, TypeOK, LocalType
  <2> QED
    BY <1>3, <2>3, <2>4, LocalFenced DEF Get, ledger
<1>4. CASE BeginDispatch(p)
  BY <1>0, <1>4, AdvanceFenced DEF BeginDispatch, Goal
<1>5. CASE StartAttempt(p) \/ Send(p) \/ Probe(p)
  <2>1. \A q \in Procs : Keeps(q)
    BY <1>5 DEF Keeps, StartAttempt, Send, Probe, Goto, Dispatching, Probing,
       TypeInv, TypeOK, LocalType
  <2> QED
    BY <1>5, <2>1, LocalFenced DEF StartAttempt, Send, Probe, ledger
<1>6. CASE Settle(p) \/ Conclude(p)
  BY <1>0, <1>6, CloseFenced DEF Settle, Conclude
<1>7. CASE BeginProbe(p)
  BY <1>0, <1>7, AdvanceFenced DEF BeginProbe, Goal
<1>8. CASE Refused(p)
  BY <1>8, StopFenced DEF Refused, ledger
<1> QED
  BY <1>1, <1>2, <1>3, <1>4, <1>5, <1>6, <1>7, <1>8 DEF Step

LEMMA MishapFenced ==
    ASSUME TypeInv, FencedInv, NEW p \in Procs, Mishap(p) \/ Restart(p)
    PROVE  FencedInv'
<1>1. CASE Stop(p)
  BY <1>1, StopFenced
  DEF Mishap, AdapterFactoryFails, StoreFails, ProbeFails, Timeout, Crash,
      Restart, ledger
<1>2. CASE ~Stop(p)
  <2>1. /\ \/ pc[p] \in Dispatching /\ Goto(p, "ambiguous")
           \/ pc[p] = "stopped" /\ Goto(p, "idle")
        /\ UNCHANGED <<eff, ver, todo, status, version>>
    BY <1>2 DEF Mishap, AdapterFactoryFails, StoreFails, ProbeFails, Timeout,
       Crash, Restart, ledger, Dispatching
  <2>2. \A q \in Procs : Keeps(q)
    BY <2>1 DEF Keeps, Goto, Dispatching, Probing, TypeInv, TypeOK, LocalType
  <2> QED
    BY <2>1, <2>2, LocalFenced
<1> QED
  BY <1>1, <1>2

LEMMA FencedStep == TypeInv /\ FencedInv /\ [Next]_vars => FencedInv'
<1> SUFFICES ASSUME TypeInv, FencedInv, [Next]_vars PROVE FencedInv'
  OBVIOUS
<1>1. CASE Callers
  <2>1. PICK i \in Ids : \/ \E c \in Contracts : Submit(i, c)
                         \/ Cancel(i)
                         \/ \E s \in Resolutions : Resolve(i, s)
                         \/ MarkUnknown(i)
    BY <1>1 DEF Callers
  <2>2. CASE \E c \in Contracts : Submit(i, c)
    BY <2>2 DEF Submit, FencedInv, VersionsHeld, Fenced, Holds, Owner,
       ClaimCurrent, TakenOnce, local, TypeInv, TypeOK, LedgerType, Reserved,
       Procs, ClaimableStatuses
  <2>3. CASE ~\E c \in Contracts : Submit(i, c)
    <3>1. UNCHANGED local /\ \E s : Write(i, s)
      BY <2>1, <2>3 DEF Cancel, Resolve, MarkUnknown
    <3> QED
      BY <3>1, WriteFenced
  <2> QED
    BY <2>2, <2>3
<1>2. CASE \E p \in Procs : Step(p) \/ Mishap(p) \/ Restart(p)
  BY <1>2, StepFenced, MishapFenced
<1>3. CASE \E h \in Handlers, i \in Ids : HandlerGet(h, i)
  <2>1. PICK h \in Handlers, i \in Ids : HandlerGet(h, i)
    BY <1>3
  <2>2. Route(i) \in {"redispatch", "reconcile", "review"} /\ h \in Procs
    BY DEF Route, Procs
  <2>3. Drops(h)
    BY <2>1, <2>2, ProcsAssumption
    DEF Drops, HandlerGet, Goto, FencedInv, VersionsHeld, Dispatching, Probing,
        TypeInv, TypeOK, LocalType, LedgerType
  <2>4. \A q \in Procs \ {h} : Keeps(q)
    BY <2>1, <2>2 DEF Keeps, HandlerGet, Goto, TypeInv, TypeOK, LocalType
  <2> QED
    BY <2>1, <2>3, <2>4, LocalFenced DEF HandlerGet, ledger
<1>4. CASE TargetStep
  <2>1. PICK r \in requests, l \in {"committed", "ambiguous", "rejected"} :
         Answer(r, l)
    BY <1>4 DEF TargetStep, Commit, CommitUnconfirmed, Reject, Drop
  <2>2. \A q \in Procs : Keeps(q)
    BY <2>1 DEF Keeps, Answer, Awaits, Dispatching, Probing
  <2> QED
    BY <2>1, <2>2, LocalFenced DEF Answer, ledger
<1>5. CASE Tick \/ UNCHANGED vars
  <2>1. \A q \in Procs : Keeps(q)
    BY <1>5 DEF Keeps, Tick, vars, local
  <2> QED
    BY <1>5, <2>1, LocalFenced DEF Tick, vars, ledger
<1> QED
  BY <1>1, <1>2, <1>3, <1>4, <1>5 DEF Next

\* Fencing: in every environment at most one process can still write what it
\* learned about an effect, and the ledger shows the edge that process took.
THEOREM WritersAreFenced == Spec => []Fenced
<1>1. TypeInv /\ FencedInv /\ [Next]_vars => (TypeInv /\ FencedInv)'
  BY TypeStep, FencedStep
<1>2. Init => TypeInv /\ FencedInv
  BY TypeInit, FencedInit
<1> QED
  BY <1>1, <1>2, PTL DEF Spec, FencedInv


-----------------------------------------------------------------------------
(* Unsafe effects *)

IsUnsafe(i) == status[i] # "absent" /\ contract[i].safety = "unsafe"

\* p has taken the DISPATCHING edge for i, current or outdated since.
At(p, i) == eff[p] = i /\ pc[p] \in Dispatching

Unsent(i) == count[i] = 0 /\ \A r \in requests : r.id # i

\* The one attempt of an unsafe effect: before its edge nothing has happened,
\* then it is in one place only: with a process that has not sent it, on its
\* way, or performed.
OneShot(i) ==
    /\ status[i] \notin {"absent", "retryable", "reconciling"}
    /\ status[i] \in {"prepared", "cancelled"} =>
          attempts[i] = 0 /\ Unsent(i) /\ \A p \in Procs : ~At(p, i)
    /\ \A p, q \in Procs : At(p, i) /\ At(q, i) => p = q
    /\ \A p \in Procs : eff[p] = i =>
          IF p \in Workers THEN pc[p] \in {"claimed"} \cup Dispatching
                           ELSE pc[p] \in {"listed", "review"}
    /\ \A p \in Procs : eff[p] = i /\ pc[p] = "attempt" => attempts[i] = 0
    /\ \A p \in Procs : eff[p] = i /\ pc[p] \in {"attempt", "send"} => Unsent(i)
    /\ \A r, s \in requests : r.id = i /\ s.id = i => r = s
    /\ \A r \in requests : r.id = i => count[i] = 0
    /\ attempts[i] <= 1 /\ count[i] <= 1

Fresh == \A i \in Ids : status[i] = "absent" => attempts[i] = 0 /\ count[i] = 0

UnsafeInv == Fresh /\ \A i \in Ids : IsUnsafe(i) => OneShot(i)

LEMMA UnsafeInit == Init => UnsafeInv
BY DEF Init, UnsafeInv, Fresh, IsUnsafe

\* A step that adds no attempt, request or commit to i and takes no edge.
Still(i) ==
    /\ \/ status'[i] = status[i]
       \/ status'[i] \in {"outcome_unknown", "manual_review", "succeeded",
                          "failed_final", "compensated"}
       \/ status[i] = "prepared" /\ status'[i] = "cancelled"
    /\ attempts'[i] = attempts[i] /\ count'[i] = count[i]
    /\ \A r \in requests' : r.id = i => r \in requests

\* p comes to i only to claim or to review it, or goes on from the edge.
Mild(p, i) ==
    eff'[p] = i =>
        \/ eff[p] = i /\ pc'[p] = pc[p]
        \/ eff[p] = i /\ pc[p] \in Dispatching
             /\ pc'[p] \in {"ambiguous", "committed", "rejected"}
             /\ p \in Workers
        \/ p \in Workers /\ pc'[p] = "claimed"
        \/ p \notin Workers /\ pc'[p] \in {"listed", "review"}

LEMMA StillOneShot ==
    ASSUME TypeInv, NEW i \in Ids, OneShot(i), Still(i),
           \A p \in Procs : Mild(p, i)
    PROVE  OneShot(i)'
<1> USE DEF Still, Mild
<1>1. \A p \in Procs : /\ At(p, i)' => At(p, i)
                       /\ eff'[p] = i /\ pc'[p] \in {"attempt", "send"}
                            => eff[p] = i /\ pc'[p] = pc[p]
  BY DEF At, Dispatching
<1>2. Unsent(i) => Unsent(i)'
  BY DEF Unsent
<1>3. \A p \in Procs : eff'[p] = i =>
          IF p \in Workers THEN pc'[p] \in {"claimed"} \cup Dispatching
                           ELSE pc'[p] \in {"listed", "review"}
  BY DEF OneShot, Dispatching
<1> QED
  BY <1>1, <1>2, <1>3 DEF OneShot

\* A step of one process other than taking the edge, recording the attempt or
\* sending it.
LEMMA StillUnsafe ==
    ASSUME TypeInv, UnsafeInv, UNCHANGED <<contract, attempts, count>>,
           requests' \subseteq requests,
           \A i \in Ids : \/ status'[i] = status[i]
                          \/ /\ status[i] # "absent" /\ status'[i] # "absent"
                             /\ IsUnsafe(i) => Still(i),
           \A i \in Ids : IsUnsafe(i) => \A p \in Procs : Mild(p, i)
    PROVE  UnsafeInv'
<1>1. Fresh'
  BY DEF UnsafeInv, Fresh
<1>2. ASSUME NEW i \in Ids, IsUnsafe(i)' PROVE OneShot(i)'
  <2>1. IsUnsafe(i) /\ OneShot(i)
    BY <1>2 DEF IsUnsafe, UnsafeInv
  <2>2. Still(i)
    BY <2>1 DEF Still
  <2> QED
    BY <2>1, <2>2, StillOneShot
<1> QED
  BY <1>1, <1>2 DEF UnsafeInv

\* A process that has an unsafe effect in hand.
LEMMA InHand ==
    ASSUME TypeInv, UnsafeInv, NEW p \in Procs, eff[p] # NoId,
           IsUnsafe(eff[p])
    PROVE  /\ eff[p] \in Ids /\ OneShot(eff[p])
           /\ pc[p] \in {"claimed"} \cup Dispatching <=> p \in Workers
           /\ pc[p] \in {"listed", "review"} <=> p \notin Workers
BY DEF TypeInv, TypeOK, LocalType, UnsafeInv, OneShot, Dispatching

LEMMA NoRetries ==
    ASSUME TypeInv, NEW i \in Ids, IsUnsafe(i)
    PROVE  contract[i].retry_limit = 0 /\ Route(i) = "review"
<1>1. contract[i] \in Contracts
  BY DEF TypeInv, TypeOK, LedgerType, IsUnsafe
<1>2. contract[i].retry_limit = 0
  BY <1>1, ContractsAssumption DEF ValidContract, IsUnsafe
<1>3. RouteUnknown(contract[i].safety) = "manual_review"
  BY DEF IsUnsafe, RouteUnknown
<1> QED
  BY <1>2, <1>3 DEF Route

\* Only a worker whose claim is current takes the edge, and only once.
LEMMA BeginDispatchUnsafe ==
    ASSUME TypeInv, FencedInv, UnsafeInv, NEW p \in Procs, BeginDispatch(p)
    PROVE  UnsafeInv'
<1> DEFINE i == eff[p]
<1>1. eff[p] # NoId /\ i \in Ids /\ Goal(p) = "dispatching"
  BY DEF BeginDispatch, Goal, TypeInv, TypeOK, LocalType
<1>2. /\ status' = [status EXCEPT ![i] = "dispatching"]
      /\ pc' = [pc EXCEPT ![p] = "attempt"]
      /\ UNCHANGED <<contract, attempts, eff, count, requests>>
      /\ status[i] # "absent" /\ ver[p][i] = version[i]
  BY <1>1 DEF BeginDispatch, Advance, Accepted, Current, Write, Goto, target,
     IsAllowed
<1>3. Fresh'
  BY <1>1, <1>2 DEF UnsafeInv, Fresh, TypeInv, TypeOK, LedgerType
<1>4. ASSUME NEW j \in Ids, IsUnsafe(j)' PROVE OneShot(j)'
  <2>1. IsUnsafe(j) /\ OneShot(j)
    BY <1>1, <1>2, <1>4 DEF IsUnsafe, UnsafeInv, TypeInv, TypeOK, LedgerType
  <2>2. CASE j # i
    <3>1. Still(j) /\ \A q \in Procs : Mild(q, j)
      BY <1>1, <1>2, <2>2
      DEF Still, Mild, TypeInv, TypeOK, LedgerType, LocalType
    <3> QED
      BY <2>1, <3>1, StillOneShot
  <2>3. CASE j = i
    <3>1. p \in Workers /\ pc[p] = "claimed"
      BY <1>1, <2>1, <2>3, InHand DEF BeginDispatch, Dispatching
    <3>2. status[i] = "prepared"
      BY <1>1, <1>2, <2>1, <2>3, <3>1
      DEF FencedInv, ClaimCurrent, ClaimableStatuses, OneShot
    <3>3. attempts[i] = 0 /\ Unsent(i) /\ \A q \in Procs : ~At(q, i)
      BY <2>1, <2>3, <3>2 DEF OneShot
    <3>4. Unsent(i)' /\ attempts'[i] = 0 /\ status'[i] = "dispatching"
      BY <1>1, <1>2, <3>3 DEF Unsent, TypeInv, TypeOK, LedgerType
    <3>5. \A q \in Procs : /\ At(q, i)' => q = p
                           /\ q # p => pc'[q] = pc[q]
      BY <1>2, <3>3 DEF At, TypeInv, TypeOK, LocalType
    <3>6. pc'[p] = "attempt"
      BY <1>2 DEF TypeInv, TypeOK, LocalType
    <3> QED
      BY <1>1, <1>2, <2>1, <2>3, <3>1, <3>4, <3>5, <3>6
      DEF OneShot, Unsent, Dispatching
  <2> QED
    BY <2>2, <2>3
<1> QED
  BY <1>3, <1>4 DEF UnsafeInv

\* The effect in hand of a process whose transition ends its work.
LEMMA CloseUnsafe ==
    ASSUME TypeInv, UnsafeInv, NEW p \in Procs, eff[p] # NoId, Close(p),
           pc[p] \notin {"claimed", "redispatch", "reconcile"}
    PROVE  UnsafeInv'
<1> DEFINE i == eff[p]
<1>1. i \in Ids /\ status[i] # "absent"
  BY DEF TypeInv, TypeOK, LocalType, Reserved
<1>2. /\ status' = [status EXCEPT ![i] = Goal(p)]
      /\ UNCHANGED <<contract, attempts, count, requests>>
      /\ TakeNext(p, todo[p])
  BY DEF Close, Write, Finish, target
<1>3. status'[i] = Goal(p) /\ \A j \in Ids \ {i} : status'[j] = status[j]
  BY <1>1, <1>2 DEF TypeInv, TypeOK, LedgerType
<1>4. ASSUME IsUnsafe(i)
      PROVE  Goal(p) \in {"succeeded", "outcome_unknown", "failed_final",
                          "manual_review"}
  <2>1. CASE p \in Workers
    <3>1. pc[p] \in Dispatching
      BY <1>4, <2>1, InHand
    <3>2. contract[i].retry_limit = 0 /\ ord[p] \in Nat
      BY <1>1, <1>4, NoRetries DEF TypeInv, TypeOK, LocalType
    <3>3. Exhausted(p)
      BY <2>1, <3>2 DEF Exhausted
    <3> QED
      BY <3>1, <3>3 DEF Goal, Dispatching
  <2>2. CASE p \notin Workers
    BY <1>4, <2>2, InHand DEF Goal
  <2> QED
    BY <2>1, <2>2
<1>5. Goal(p) # "absent"
  BY GoalType DEF EffectStatus
<1>6. \A j \in Ids : \A q \in Procs : Mild(q, j)
  <2>1. /\ pc'[p] = IF p \in Workers THEN "claimed" ELSE "listed"
        \/ eff'[p] = NoId
    BY <1>2 DEF TakeNext, Goto, TypeInv, TypeOK, LocalType
  <2> QED
    BY <2>1, ClosedLabel, NullsAssumption DEF Mild
<1> QED
  BY <1>1, <1>2, <1>3, <1>4, <1>5, <1>6, StillUnsafe DEF Still

LEMMA StartAttemptUnsafe ==
    ASSUME TypeInv, UnsafeInv, NEW p \in Procs, StartAttempt(p)
    PROVE  UnsafeInv'
<1> DEFINE i == eff[p]
<1>1. eff[p] # NoId /\ i \in Ids /\ status[i] # "absent"
  BY DEF StartAttempt, TypeInv, TypeOK, LocalType, Reserved
<1>2. /\ attempts' = [attempts EXCEPT ![i] = @ + 1]
      /\ pc' = [pc EXCEPT ![p] = "send"] /\ pc[p] = "attempt"
      /\ UNCHANGED <<status, contract, eff, count, requests>>
  BY DEF StartAttempt, Goto, target
<1>3. Fresh'
  BY <1>1, <1>2 DEF UnsafeInv, Fresh, TypeInv, TypeOK, LedgerType
<1>4. ASSUME NEW j \in Ids, IsUnsafe(j)' PROVE OneShot(j)'
  <2>1. IsUnsafe(j) /\ OneShot(j)
    BY <1>2, <1>4 DEF IsUnsafe, UnsafeInv
  <2>2. CASE j # i
    <3>1. Still(j) /\ \A q \in Procs : Mild(q, j)
      BY <1>1, <1>2, <2>2 DEF Still, Mild, TypeInv, TypeOK, LedgerType, LocalType
    <3> QED
      BY <2>1, <3>1, StillOneShot
  <2>3. CASE j = i
    <3>1. At(p, i) /\ attempts[i] = 0 /\ Unsent(i) /\ p \in Workers
      BY <1>1, <1>2, <2>1, <2>3, InHand DEF At, OneShot, Dispatching
    <3>2. attempts'[i] = 1 /\ Unsent(i)'
      BY <1>1, <1>2, <3>1 DEF Unsent, TypeInv, TypeOK, LedgerType
    <3>3. /\ \A q \in Procs : At(q, i)' => At(q, i) /\ q = p
          /\ \A q \in Procs \ {p} : pc'[q] = pc[q]
          /\ pc'[p] = "send"
      BY <1>2, <2>1, <2>3, <3>1 DEF At, OneShot, Dispatching, TypeInv, TypeOK,
         LocalType
    <3>4. status'[i] \notin {"prepared", "cancelled"}
      BY <1>2, <2>1, <2>3, <3>1 DEF OneShot
    <3> QED
      BY <1>1, <1>2, <2>1, <2>3, <3>1, <3>2, <3>3, <3>4
      DEF OneShot, Unsent, At, Dispatching
  <2> QED
    BY <2>2, <2>3
<1> QED
  BY <1>3, <1>4 DEF UnsafeInv

LEMMA SendUnsafe ==
    ASSUME TypeInv, UnsafeInv, NEW p \in Procs, Send(p)
    PROVE  UnsafeInv'
<1> DEFINE i == eff[p]
           m == [id |-> i, ord |-> ord[p], sent |-> now]
<1>1. eff[p] # NoId /\ i \in Ids /\ status[i] # "absent"
  BY DEF Send, TypeInv, TypeOK, LocalType, Reserved
<1>2. /\ requests' = requests \cup {m} /\ m.id = i
      /\ pc' = [pc EXCEPT ![p] = "wait"] /\ pc[p] = "send"
      /\ UNCHANGED <<status, contract, attempts, eff, count>>
  BY DEF Send, Goto, ledger
<1>3. Fresh'
  BY <1>2 DEF UnsafeInv, Fresh
<1>4. ASSUME NEW j \in Ids, IsUnsafe(j)' PROVE OneShot(j)'
  <2>1. IsUnsafe(j) /\ OneShot(j)
    BY <1>2, <1>4 DEF IsUnsafe, UnsafeInv
  <2>2. CASE j # i
    <3>1. Still(j) /\ \A q \in Procs : Mild(q, j)
      BY <1>2, <2>2 DEF Still, Mild, TypeInv, TypeOK, LocalType
    <3> QED
      BY <2>1, <3>1, StillOneShot
  <2>3. CASE j = i
    <3>1. At(p, i) /\ Unsent(i) /\ p \in Workers
      BY <1>1, <1>2, <2>1, <2>3, InHand DEF At, OneShot, Dispatching
    <3>2. \A r \in requests' : r.id = i => r = m
      BY <1>2, <3>1 DEF Unsent
    <3>3. /\ \A q \in Procs : At(q, i)' => At(q, i) /\ q = p
          /\ \A q \in Procs \ {p} : pc'[q] = pc[q]
          /\ pc'[p] = "wait"
      BY <1>2, <2>1, <2>3, <3>1 DEF At, OneShot, Dispatching, TypeInv, TypeOK,
         LocalType
    <3>4. status'[i] \notin {"prepared", "cancelled"} /\ count'[i] = 0
      BY <1>2, <2>1, <2>3, <3>1 DEF OneShot, Unsent
    <3>5. \A q \in Procs : eff'[q] = i => pc'[q] \notin {"attempt", "send"}
      BY <1>2, <3>3 DEF At, Dispatching
    <3> QED
      BY <1>1, <1>2, <2>1, <2>3, <3>1, <3>2, <3>3, <3>4, <3>5
      DEF OneShot, Dispatching
  <2> QED
    BY <2>2, <2>3
<1> QED
  BY <1>3, <1>4 DEF UnsafeInv

LEMMA StepUnsafe ==
    ASSUME TypeInv, FencedInv, UnsafeInv, NEW p \in Procs, Step(p)
    PROVE  UnsafeInv'
<1>0. eff[p] = NoId <=> pc[p] \in {"idle", "stopped"}
  BY DEF TypeInv, TypeOK, LocalType
<1>1. CASE (p \in Workers /\ ClaimDue(p)) \/ (p \in Reconcilers /\ List(p))
  <2>1. PICK S : TakeNext(p, S)
    BY <1>1 DEF ClaimDue, List
  <2>2. /\ pc'[p] = IF p \in Workers THEN "claimed" ELSE "listed"
        \/ eff'[p] = NoId
    BY <2>1 DEF TakeNext, Goto, TypeInv, TypeOK, LocalType
  <2>3. \A i \in Ids, q \in Procs : Mild(q, i)
    BY <2>1, <2>2, TakeNextLabel, NullsAssumption DEF Mild
  <2> QED
    BY <1>1, <2>3, StillUnsafe DEF ClaimDue, List, ledger, target
<1>2. CASE p \in Reconcilers /\ Get(p)
  <2>1. eff[p] \in Ids /\ p \notin Workers
    BY <1>0, <1>2, ProcsAssumption DEF Get, TypeInv, TypeOK, LocalType
  <2>2. \A i \in Ids : IsUnsafe(i) => \A q \in Procs : Mild(q, i)
    BY <1>2, <2>1, NoRetries DEF Mild, Get, Goto, TypeInv, TypeOK, LocalType
  <2> QED
    BY <1>2, <2>2, StillUnsafe DEF Get, ledger, target
<1>3. CASE BeginDispatch(p)
  BY <1>3, BeginDispatchUnsafe
<1>4. CASE StartAttempt(p)
  BY <1>4, StartAttemptUnsafe
<1>5. CASE Send(p)
  BY <1>5, SendUnsafe
<1>6. CASE Settle(p) \/ Conclude(p)
  BY <1>0, <1>6, CloseUnsafe DEF Settle, Conclude
<1>7. CASE BeginProbe(p)
  <2>1. eff[p] # NoId /\ eff[p] \in Ids /\ ~IsUnsafe(eff[p])
    BY <1>0, <1>7, InHand
    DEF BeginProbe, Dispatching, TypeInv, TypeOK, LocalType
  <2>2. status[eff[p]] # "absent" /\ Goal(p) = "reconciling"
    BY <1>7, <2>1 DEF BeginProbe, Goal, TypeInv, Reserved
  <2>3. /\ status' = [status EXCEPT ![eff[p]] = "reconciling"]
        /\ UNCHANGED <<contract, attempts, eff, count, requests>>
        /\ pc' = [pc EXCEPT ![p] = "probe"]
    BY <1>7, <2>2 DEF BeginProbe, Advance, Write, Goto, target
  <2>4. \A i \in Ids : IsUnsafe(i) => i # eff[p] /\ \A q \in Procs : Mild(q, i)
    BY <2>1, <2>3 DEF Mild, TypeInv, TypeOK, LocalType
  <2> QED
    BY <2>1, <2>2, <2>3, <2>4, StillUnsafe
    DEF Still, TypeInv, TypeOK, LedgerType
<1>8. CASE Probe(p)
  <2>1. eff[p] # NoId /\ ~IsUnsafe(eff[p])
    BY <1>0, <1>8, InHand DEF Probe, Dispatching
  <2>2. \A i \in Ids : IsUnsafe(i) => \A q \in Procs : Mild(q, i)
    BY <1>8, <2>1 DEF Mild, Probe, Goto, TypeInv, TypeOK, LocalType
  <2> QED
    BY <1>8, <2>2, StillUnsafe DEF Probe, ledger, target
<1>9. CASE Refused(p)
  <2>1. Stop(p)
    BY <1>9 DEF Refused
  <2>2. \A i \in Ids, q \in Procs : Mild(q, i)
    BY <2>1, StopLabel, NullsAssumption DEF Mild
  <2> QED
    BY <1>9, <2>2, StillUnsafe DEF Refused, ledger, target
<1> QED
  BY <1>1, <1>2, <1>3, <1>4, <1>5, <1>6, <1>7, <1>8, <1>9 DEF Step

LEMMA MishapUnsafe ==
    ASSUME TypeInv, UnsafeInv, NEW p \in Procs, Mishap(p) \/ Restart(p)
    PROVE  UnsafeInv'
<1>1. /\ UNCHANGED <<status, contract, attempts, count>>
      /\ requests' \subseteq requests
  BY DEF Mishap, AdapterFactoryFails, StoreFails, ProbeFails, Timeout, Crash,
     Restart, Abandon, ledger, target
<1>2. CASE Stop(p)
  BY <1>1, <1>2, StopLabel, NullsAssumption, StillUnsafe DEF Mild
<1>3. CASE ~Stop(p)
  <2>1. /\ \/ pc[p] \in Dispatching /\ pc' = [pc EXCEPT ![p] = "ambiguous"]
           \/ pc[p] = "stopped" /\ pc' = [pc EXCEPT ![p] = "idle"]
        /\ UNCHANGED eff
    BY <1>3 DEF Mishap, AdapterFactoryFails, StoreFails, ProbeFails, Timeout,
       Crash, Restart, Goto, Dispatching
  <2>2. \A i \in Ids : IsUnsafe(i) => \A q \in Procs : Mild(q, i)
    <3> SUFFICES ASSUME NEW i \in Ids, IsUnsafe(i), eff[p] = i
                 PROVE  Mild(p, i)
      BY <2>1 DEF Mild, TypeInv, TypeOK, LocalType
    <3>1. eff[p] # NoId /\ pc[p] # "stopped"
      BY NullsAssumption DEF TypeInv, TypeOK, LocalType
    <3>2. p \in Workers
      BY <2>1, <3>1, InHand
    <3> QED
      BY <2>1, <3>1, <3>2 DEF Mild, TypeInv, TypeOK, LocalType
  <2> QED
    BY <1>1, <2>2, StillUnsafe
<1> QED
  BY <1>2, <1>3

\* The one request of an unsafe effect is gone once the target has handled it.
LEMMA TargetUnsafe ==
    ASSUME TypeInv, UnsafeInv, TargetStep
    PROVE  UnsafeInv'
<1>1. PICK r \in requests, l \in {"committed", "ambiguous", "rejected"} :
        /\ Answer(r, l)
        /\ Perform(r.id) \/ UNCHANGED <<count, keptUntil>>
  BY DEF TargetStep, Commit, CommitUnconfirmed, Reject, Drop
<1>2. /\ requests' = requests \ {r} /\ r.id \in Ids /\ status[r.id] # "absent"
      /\ UNCHANGED <<status, contract, attempts, eff>>
      /\ \A q \in Procs : pc'[q] = IF Awaits(q, r) THEN l ELSE pc[q]
  BY <1>1 DEF Answer, ledger, TypeInv, TypeOK, TargetType, Request, Reserved
<1>3. \A i \in Ids : IsUnsafe(i) => \A q \in Procs : Mild(q, i)
  <2> SUFFICES ASSUME NEW i \in Ids, IsUnsafe(i), NEW q \in Procs, eff[q] = i
               PROVE  Mild(q, i)
    BY <1>2 DEF Mild
  <2>1. Awaits(q, r) => q \in Workers /\ pc[q] \in Dispatching
    BY InHand, NullsAssumption DEF Awaits, Dispatching
  <2> QED
    BY <1>1, <1>2, <2>1 DEF Mild
<1>4. CASE UNCHANGED count
  BY <1>2, <1>3, <1>4, StillUnsafe
<1>5. CASE count' = [count EXCEPT ![r.id] = @ + 1]
  <2>1. /\ count'[r.id] = count[r.id] + 1
        /\ \A i \in Ids \ {r.id} : count'[i] = count[i]
    BY <1>2, <1>5 DEF TypeInv, TypeOK, TargetType
  <2>2. Fresh'
    BY <1>2, <2>1 DEF UnsafeInv, Fresh
  <2>3. ASSUME NEW i \in Ids, IsUnsafe(i)' PROVE OneShot(i)'
    <3>1. IsUnsafe(i) /\ OneShot(i) /\ \A q \in Procs : Mild(q, i)
      BY <1>2, <1>3, <2>3 DEF IsUnsafe, UnsafeInv
    <3>2. CASE i # r.id
      BY <1>2, <2>1, <3>1, <3>2, StillOneShot DEF Still
    <3>3. CASE i = r.id
      <4>1. count'[i] = 1 /\ \A m \in requests' : m.id # i
        BY <1>2, <2>1, <3>1, <3>3 DEF OneShot
      <4>2. status[i] \notin {"prepared", "cancelled"}
        BY <3>1, <3>3 DEF OneShot, Unsent
      <4>3. \A q \in Procs : eff[q] = i => pc[q] \notin {"attempt", "send"}
        BY <3>1, <3>3 DEF OneShot, Unsent
      <4>4. \A q \in Procs : At(q, i)' => At(q, i)
        BY <1>2 DEF At, Awaits, Dispatching
      <4>5. \A q \in Procs : eff'[q] = i =>
               /\ pc'[q] \notin {"attempt", "send"}
               /\ IF q \in Workers THEN pc'[q] \in {"claimed"} \cup Dispatching
                                   ELSE pc'[q] \in {"listed", "review"}
        BY <1>1, <1>2, <3>1, <4>3 DEF Mild, OneShot, Awaits, Dispatching
      <4> QED
        BY <1>2, <3>1, <4>1, <4>2, <4>4, <4>5 DEF OneShot
    <3> QED
      BY <3>2, <3>3
  <2> QED
    BY <2>2, <2>3 DEF UnsafeInv
<1> QED
  BY <1>1, <1>4, <1>5 DEF Perform

\* A reservation starts the one shot; cancellation, an operator and recovery
\* leave it where it is.
LEMMA CallersUnsafe ==
    ASSUME TypeInv, UnsafeInv, Callers
    PROVE  UnsafeInv'
<1>1. PICK i \in Ids : \/ \E c \in Contracts : Submit(i, c)
                       \/ Cancel(i)
                       \/ \E s \in Resolutions : Resolve(i, s)
                       \/ MarkUnknown(i)
  BY DEF Callers
<1>2. CASE \E c \in Contracts : Submit(i, c)
  <2>1. /\ status[i] = "absent" /\ status' = [status EXCEPT ![i] = "prepared"]
        /\ \E c \in Contracts : contract' = [contract EXCEPT ![i] = c]
        /\ UNCHANGED <<attempts, pc, eff, requests, count>>
    BY <1>2 DEF Submit, local, target
  <2>2. /\ status'[i] = "prepared"
        /\ \A j \in Ids \ {i} : status'[j] = status[j] /\ contract'[j] = contract[j]
    BY <2>1 DEF TypeInv, TypeOK, LedgerType
  <2>3. Fresh'
    BY <2>1, <2>2 DEF UnsafeInv, Fresh
  <2>4. OneShot(i)'
    <3>1. attempts[i] = 0 /\ count[i] = 0
      BY <2>1 DEF UnsafeInv, Fresh
    <3>2. \A r \in requests : r.id # i
      BY <2>1 DEF TypeInv, Reserved
    <3>3. \A p \in Procs : eff[p] # i
      BY <2>1, NullsAssumption DEF TypeInv, Reserved
    <3> QED
      BY <2>1, <2>2, <3>1, <3>2, <3>3 DEF OneShot, Unsent, At
  <2>5. ASSUME NEW j \in Ids, j # i, IsUnsafe(j)' PROVE OneShot(j)'
    <3>1. OneShot(j)
      BY <2>2, <2>5 DEF IsUnsafe, UnsafeInv
    <3> QED
      BY <2>1, <2>2, <2>5, <3>1, StillOneShot DEF Still, Mild
  <2> QED
    BY <2>3, <2>4, <2>5 DEF UnsafeInv
<1>3. CASE ~\E c \in Contracts : Submit(i, c)
  <2>1. PICK s \in Resolutions \cup {"cancelled", "outcome_unknown"} :
          /\ Write(i, s)
          /\ s = "cancelled" => status[i] \in ClaimableStatuses
          /\ status[i] # "absent"
    <3>1. CASE Cancel(i)
      BY <3>1 DEF Cancel, ClaimableStatuses
    <3>2. CASE \E s \in Resolutions : Resolve(i, s)
      BY <3>2 DEF Resolve, Resolutions
    <3>3. CASE MarkUnknown(i)
      BY <3>3 DEF MarkUnknown
    <3> QED
      BY <1>1, <1>3, <3>1, <3>2, <3>3
  <2>2. UNCHANGED <<pc, eff, requests, count>>
    BY <1>1, <1>3 DEF Cancel, Resolve, MarkUnknown, local, target
  <2>3. /\ status'[i] = s /\ UNCHANGED <<contract, attempts>>
        /\ \A j \in Ids \ {i} : status'[j] = status[j]
    BY <2>1 DEF Write, TypeInv, TypeOK, LedgerType
  <2>4. IsUnsafe(i) => Still(i)
    BY <2>1, <2>2, <2>3
    DEF Still, UnsafeInv, OneShot, ClaimableStatuses, Resolutions
  <2>5. \A j \in Ids, p \in Procs : Mild(p, j)
    BY <2>2 DEF Mild
  <2> QED
    BY <2>1, <2>2, <2>3, <2>4, <2>5, StillUnsafe DEF Resolutions
<1> QED
  BY <1>2, <1>3

LEMMA UnsafeStep == TypeInv /\ FencedInv /\ UnsafeInv /\ [Next]_vars => UnsafeInv'
<1> SUFFICES ASSUME TypeInv, FencedInv, UnsafeInv, [Next]_vars PROVE UnsafeInv'
  OBVIOUS
<1>1. CASE Callers
  BY <1>1, CallersUnsafe
<1>2. CASE \E p \in Procs : Step(p) \/ Mishap(p) \/ Restart(p)
  BY <1>2, StepUnsafe, MishapUnsafe
<1>3. CASE \E h \in Handlers, i \in Ids : HandlerGet(h, i)
  <2>1. PICK h \in Handlers, i \in Ids : HandlerGet(h, i)
    BY <1>3
  <2>2. \A j \in Ids : IsUnsafe(j) => \A q \in Procs : Mild(q, j)
    BY <2>1, NoRetries, ProcsAssumption
    DEF Mild, HandlerGet, Goto, Procs, TypeInv, TypeOK, LocalType
  <2> QED
    BY <2>1, <2>2, StillUnsafe DEF HandlerGet, ledger, target
<1>4. CASE TargetStep
  BY <1>4, TargetUnsafe
<1>5. CASE Tick \/ UNCHANGED vars
  BY <1>5, StillUnsafe DEF Mild, Tick, vars, ledger, local, target
<1> QED
  BY <1>1, <1>2, <1>3, <1>4, <1>5 DEF Next

\* "No broker-issued duplicate" (README, class unsafe): an unsafe effect is
\* attempted at most once and performed at most once, whatever crashes, lease
\* expiries, zombies, API sessions and late deliveries do.
THEOREM UnsafeOnce == Spec => []UnsafeAtMostOnce
<1> DEFINE IInv == TypeInv /\ FencedInv /\ UnsafeInv
<1>1. Init => IInv
  BY TypeInit, FencedInit, UnsafeInit
<1>2. IInv /\ [Next]_vars => IInv'
  BY TypeStep, FencedStep, UnsafeStep
<1>3. IInv => UnsafeAtMostOnce
  BY DEF UnsafeInv, IsUnsafe, OneShot, UnsafeAtMostOnce
<1> QED
  BY <1>1, <1>2, <1>3, PTL DEF Spec

-----------------------------------------------------------------------------
(* Orphans *)

\* The owner of an effect goes on to own it.
Remains(p, i) == Owner(p, i) => Owner(p, i)'

\* The step orphans i at most if it was an orphan before ...
StillOwned(i) ==
    \/ status'[i] \notin {"dispatching", "reconciling"}
    \/ \E p \in Procs : Owner(p, i)'
    \/ status'[i] = status[i] /\ \A p \in Procs : Remains(p, i)

\* ... or is a failure of its owner.
OwnerLost(i) ==
    \E p \in Procs :
        /\ Owner(p, i) /\ pc'[p] \in {"idle", "stopped"}
        /\ \/ crashes' > crashes
           \/ faults' > faults /\ pc[p] \in Uncaught(p)

\* The store never refuses the owner of an effect.
LEMMA OwnerAccepted ==
    ASSUME TypeInv, FencedInv, NEW p \in Procs, NEW i \in Ids, Owner(p, i)
    PROVE  ~Refused(p)
<1>1. /\ Current(p) /\ pc[p] \in Dispatching \cup Probing
      /\ status[i] = IF pc[p] \in Dispatching THEN "dispatching" ELSE "reconciling"
      /\ eff[p] = i
  BY DEF Owner, Current, FencedInv, Fenced
<1>2. CASE pc[p] \in {"committed", "rejected", "ambiguous"}
  BY <1>1, <1>2 DEF Refused, Accepted, IsAllowed, Goal, Dispatching
<1>3. CASE pc[p] \in {"found", "absent", "unproven"}
  BY <1>1, <1>3 DEF Refused, Accepted, IsAllowed, Goal, Dispatching
<1>4. CASE pc[p] \in {"attempt", "send", "wait", "probe"}
  BY <1>1, <1>4 DEF Refused, Writing
<1> QED
  BY <1>1, <1>2, <1>3, <1>4 DEF Dispatching, Probing

\* A transition of p: it owns what it took an edge for, and moves nobody else.
LEMMA WriteKeeps ==
    ASSUME TypeInv, NEW p \in Procs, NEW i \in Ids,
           eff[p] = i, Write(i, Goal(p)),
           Owner(p, i)' \/ Goal(p) \notin {"dispatching", "reconciling"},
           \A q \in Procs \ {p} : /\ pc'[q] = pc[q] /\ eff'[q] = eff[q]
                                  /\ ver'[q] = ver[q]
    PROVE  \A j \in Ids : StillOwned(j)
<1>1. /\ \A j \in Ids \ {i} : version'[j] = version[j] /\ status'[j] = status[j]
      /\ status'[i] = Goal(p)
  BY DEF Write, TypeInv, TypeOK, LedgerType
<1>2. ASSUME NEW j \in Ids \ {i} PROVE StillOwned(j)
  BY <1>1, <1>2 DEF StillOwned, Remains, Owner
<1>3. StillOwned(i)
  BY <1>1 DEF StillOwned
<1> QED
  BY <1>2, <1>3

\* The claim of a batch and the list leave alone what is in work.
LEMMA BatchKeeps ==
    ASSUME TypeInv, FencedInv, NEW p \in Procs,
           (p \in Workers /\ ClaimDue(p)) \/ List(p)
    PROVE  \A i \in Ids : StillOwned(i)
<1>1. PICK S : TakeNext(p, S)
  BY DEF ClaimDue, List
<1>2. /\ \A i \in Ids : ~Owner(p, i)
      /\ \A q \in Procs \ {p} : /\ pc'[q] = pc[q] /\ eff'[q] = eff[q]
                                /\ ver'[q] = ver[q]
      /\ status' = status
  BY <1>1, TakeNextLabel
  DEF ClaimDue, List, Owner, Dispatching, Probing, ledger, TypeInv, TypeOK, LocalType
<1>3. \A i \in Ids : status[i] \notin ClaimableStatuses => version'[i] = version[i]
  BY OldestInside DEF ClaimDue, List, ledger, Due, TypeInv, TypeOK, LedgerType
<1>4. \A i \in Ids, q \in Procs : Owner(q, i) => status[i] \notin ClaimableStatuses
  BY DEF FencedInv, Fenced, ClaimableStatuses
<1>5. \A i \in Ids, q \in Procs : Remains(q, i)
  BY <1>2, <1>3, <1>4 DEF Remains, Owner
<1> QED
  BY <1>2, <1>5 DEF StillOwned

LEMMA StepKeeps ==
    ASSUME TypeInv, FencedInv, NEW p \in Procs, Step(p)
    PROVE  \A i \in Ids : StillOwned(i)
<1>1. eff[p] = NoId <=> pc[p] \in {"idle", "stopped"}
  BY DEF TypeInv, TypeOK, LocalType
<1>2. CASE (p \in Workers /\ ClaimDue(p)) \/ List(p)
  BY <1>2, BatchKeeps
<1>3. CASE Get(p) \/ Probe(p) \/ StartAttempt(p) \/ Send(p)
  <2>1. \A i \in Ids, q \in Procs : Remains(q, i)
    BY <1>3 DEF Remains, Owner, Get, Probe, StartAttempt, Send, Goto, Dispatching,
       Probing, ledger, TypeInv, TypeOK, LocalType
  <2>2. status' = status
    BY <1>3 DEF Get, Probe, StartAttempt, Send, ledger
  <2> QED
    BY <2>1, <2>2 DEF StillOwned
<1>4. CASE BeginDispatch(p) \/ BeginProbe(p)
  <2>1. PICK i \in Ids : eff[p] = i
    BY <1>1, <1>4 DEF BeginDispatch, BeginProbe, TypeInv, TypeOK, LocalType
  <2>2. /\ Write(i, Goal(p)) /\ eff' = eff
        /\ pc'[p] \in {"attempt", "probe"}
        /\ \A q \in Procs \ {p} : pc'[q] = pc[q] /\ ver'[q] = ver[q]
        /\ ver'[p][i] = version'[i]
    BY <1>4, <2>1
    DEF BeginDispatch, BeginProbe, Advance, Accepted, Current, Write, Goto,
        TypeInv, TypeOK, LedgerType, LocalType
  <2>3. Owner(p, i)'
    BY <2>1, <2>2 DEF Owner, Dispatching, Probing
  <2> QED
    BY <2>1, <2>2, <2>3, WriteKeeps
<1>5. CASE Settle(p) \/ Conclude(p)
  <2>1. PICK i \in Ids : eff[p] = i /\ eff[p] # NoId
    BY <1>1, <1>5 DEF Settle, Conclude, TypeInv, TypeOK, LocalType
  <2>2. /\ Close(p) /\ Write(i, Goal(p))
        /\ Goal(p) \notin {"dispatching", "reconciling"}
    BY <1>5, <2>1 DEF Settle, Conclude, Close, Goal
  <2> QED
    BY <2>1, <2>2, ClosedLabel, WriteKeeps
<1>6. CASE Refused(p)
  <2>1. \A i \in Ids : ~Owner(p, i)
    BY <1>6, OwnerAccepted
  <2>2. \A i \in Ids, q \in Procs : Remains(q, i)
    BY <1>6, <2>1, StopLabel DEF Refused, Remains, Owner, ledger
  <2> QED
    BY <1>6, <2>2 DEF Refused, ledger, StillOwned
<1> QED
  BY <1>2, <1>3, <1>4, <1>5, <1>6 DEF Step

\* A failure takes an effect from its owner only where nothing catches it.
LEMMA MishapKeeps ==
    ASSUME TypeInv, NEW p \in Procs, Mishap(p) \/ Restart(p), NEW i \in Ids
    PROVE  StillOwned(i) \/ OwnerLost(i)
<1>1. UNCHANGED <<status, version>>
  BY DEF Mishap, AdapterFactoryFails, StoreFails, ProbeFails, Timeout, Crash,
     Restart, ledger
<1>2. CASE Stop(p) /\ Owner(p, i)
  <2>1. pc'[p] \in {"idle", "stopped"} /\ pc[p] # "stopped"
    BY <1>2, StopLabel DEF Owner, Dispatching, Probing
  <2>2. crashes \in Nat /\ faults \in Nat
    BY DEF TypeInv, TypeOK, EnvType
  <2>3. ~Goto(p, "ambiguous")
    BY <2>1 DEF Goto, TypeInv, TypeOK, LocalType
  <2>4. CASE Crash(p)
    BY <1>2, <2>1, <2>2, <2>4 DEF Crash, OwnerLost
  <2>5. CASE ~Crash(p)
    <3>1. /\ faults' = faults + 1
          /\ \/ p \notin Workers /\ pc[p] = "send"
             \/ pc[p] = "probe"
             \/ Calling(p) /\ ~(p \in Workers /\ pc[p] = "committed")
      BY <2>1, <2>3, <2>5 DEF Mishap, AdapterFactoryFails, StoreFails, ProbeFails,
         Timeout, Restart, Fault
    <3>2. pc[p] \in Uncaught(p)
      BY <1>2, <3>1 DEF Uncaught, Owner, Calling, Writing, Dispatching, Probing
    <3> QED
      BY <1>2, <2>1, <2>2, <3>1, <3>2 DEF OwnerLost
  <2> QED
    BY <2>4, <2>5
<1>3. CASE Stop(p) /\ ~Owner(p, i)
  <2>1. \A q \in Procs : Remains(q, i)
    BY <1>1, <1>3, StopLabel DEF Remains, Owner
  <2> QED
    BY <1>1, <2>1 DEF StillOwned
<1>4. CASE ~Stop(p)
  <2>1. /\ \/ /\ pc[p] \in Dispatching /\ pc' = [pc EXCEPT ![p] = "ambiguous"]
           \/ pc[p] = "stopped" /\ pc' = [pc EXCEPT ![p] = "idle"]
        /\ UNCHANGED <<eff, ver>>
    BY <1>4 DEF Mishap, AdapterFactoryFails, StoreFails, ProbeFails, Timeout,
       Crash, Restart, Goto, Dispatching
  <2>2. \A q \in Procs : Remains(q, i)
    BY <1>1, <2>1 DEF Remains, Owner, Dispatching, Probing, TypeInv, TypeOK,
       LocalType
  <2> QED
    BY <1>1, <2>2 DEF StillOwned
<1> QED
  BY <1>2, <1>3, <1>4

LEMMA EveryStepKeeps ==
    ASSUME TypeInv, FencedInv, [Next]_vars, NEW i \in Ids
    PROVE  StillOwned(i) \/ OwnerLost(i)
<1>1. CASE Callers
  <2>1. PICK j \in Ids : \/ \E c \in Contracts : Submit(j, c)
                         \/ Cancel(j)
                         \/ \E s \in Resolutions : Resolve(j, s)
                         \/ MarkUnknown(j)
    BY <1>1 DEF Callers
  <2>2. /\ UNCHANGED local
        /\ i # j => status'[i] = status[i] /\ version'[i] = version[i]
        /\ status'[j] \notin {"dispatching", "reconciling"}
    BY <2>1 DEF Submit, Cancel, Resolve, MarkUnknown, Write, Resolutions,
       TypeInv, TypeOK, LedgerType
  <2> QED
    BY <2>2 DEF StillOwned, Remains, Owner, local
<1>2. CASE \E p \in Procs : Step(p)
  BY <1>2, StepKeeps
<1>3. CASE \E p \in Procs : Mishap(p) \/ Restart(p)
  BY <1>3, MishapKeeps
<1>4. CASE \E h \in Handlers, j \in Ids : HandlerGet(h, j)
  <2>1. PICK h \in Handlers, j \in Ids : HandlerGet(h, j)
    BY <1>4
  <2>2. \A q \in Procs : Remains(q, i)
    BY <2>1 DEF HandlerGet, Remains, Owner, Goto, Dispatching, Probing, ledger,
       Procs, TypeInv, TypeOK, LocalType
  <2> QED
    BY <2>1, <2>2 DEF HandlerGet, ledger, StillOwned
<1>5. CASE TargetStep
  <2>1. PICK r \in requests, l \in {"committed", "ambiguous", "rejected"} : Answer(r, l)
    BY <1>5 DEF TargetStep, Commit, CommitUnconfirmed, Reject, Drop
  <2>2. \A q \in Procs : Remains(q, i)
    BY <2>1 DEF Answer, Awaits, Remains, Owner, Dispatching, Probing, ledger
  <2> QED
    BY <2>1, <2>2 DEF Answer, ledger, StillOwned
<1>6. CASE Tick \/ UNCHANGED vars
  BY <1>6 DEF Tick, vars, ledger, local, Remains, Owner, StillOwned
<1> QED
  BY <1>1, <1>2, <1>3, <1>4, <1>5, <1>6 DEF Next

\* An effect is left in DISPATCHING or RECONCILING with nobody to go on only when
\* the process that owned it dies, or an exception escapes it where nothing
\* catches one: the store never refuses the owner, and everybody else.
THEOREM OrphansHaveACause == Spec => OnlyFailuresOrphan
<1> DEFINE IInv == TypeInv /\ FencedInv
<1>1. Init => IInv
  BY TypeInit, FencedInit
<1>2. IInv /\ [Next]_vars => IInv'
  BY TypeStep, FencedStep
<1>3. ASSUME IInv, [Next]_vars, NEW i \in Ids, Orphaned(i)', ~Orphaned(i)
      PROVE  OwnerLost(i)
  <2>1. ~StillOwned(i)
    BY <1>3 DEF StillOwned, Remains, Orphaned
  <2> QED
    BY <1>3, <2>1, EveryStepKeeps
<1>4. IInv /\ [Next]_vars =>
         \A i \in Ids :
             Orphaned(i)' /\ ~Orphaned(i) =>
                 \E p \in Procs :
                     /\ Owner(p, i) /\ pc'[p] \in {"idle", "stopped"}
                     /\ \/ crashes' > crashes
                        \/ faults' > faults /\ pc[p] \in Uncaught(p)
  BY <1>3 DEF OwnerLost
<1> QED
  BY <1>1, <1>2, <1>4, PTL DEF Spec, OnlyFailuresOrphan
=============================================================================
