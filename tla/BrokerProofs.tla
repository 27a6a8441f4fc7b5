----------------------------- MODULE BrokerProofs -----------------------------
(***************************************************************************)
(* Theorems about Broker for every set of effects and processes, every     *)
(* registry of valid contracts and every bound: type correctness, and the  *)
(* safety properties that hold whatever crashes, is paused, is lost or     *)
(* arrives late.                                                           *)
(***************************************************************************)
EXTENDS Broker, TLAPS

-----------------------------------------------------------------------------
(* Facts about the operators *)

\* What claim_due and list select is among what was due or listed.
LEMMA OldestInside == \A D : \A S \in Oldest(D) : S \subseteq D
BY DEF Oldest

LEMMA EldestInside == \A S : \A i \in Eldest(S) : i \in S
BY DEF Eldest

LEMMA GoalType == \A p : Goal(p) \in EffectStatus
BY DEF Goal, EffectStatus

\* A successful transition keeps the ledger's types and reserves nothing new.
LEMMA WriteType ==
    ASSUME LedgerType, NEW i \in Ids, NEW s \in EffectStatus, Write(i, s),
           status[i] # "absent", resolved' \in SUBSET Ids
    PROVE  /\ LedgerType'
           /\ \A j \in Ids : status'[j] = "absent" <=> status[j] = "absent"
<1>1. /\ status' \in [Ids -> EffectStatus \cup {"absent"}]
      /\ \A j \in Ids : status'[j] = "absent" <=> status[j] = "absent"
  BY DEF LedgerType, Write, EffectStatus
<1>2. version' \in [Ids -> Nat] /\ lease' \in [Ids -> Nat]
  BY DEF LedgerType, Write
<1> QED
  BY <1>1, <1>2 DEF LedgerType, Write

\* Going on with a batch, or going idle, keeps the local types.
LEMMA TakeNextType ==
    ASSUME LocalType, NullsAssumption, NEW p \in Procs, NEW S \in SUBSET Ids,
           TakeNext(p, S)
    PROVE  /\ pc' \in [Procs -> Labels]
           /\ eff' \in [Procs -> Ids \cup {NoId}]
           /\ \A q \in Procs : eff'[q] = NoId <=> pc'[q] \in {"idle", "stopped"}
           /\ todo' \in [Procs -> SUBSET Ids]
           /\ todo'[p] \subseteq S
           /\ eff'[p] \in S \cup {NoId}
           /\ \A q \in Procs \ {p} : /\ eff'[q] = eff[q] /\ todo'[q] = todo[q]
                                     /\ pc'[q] = pc[q]
<1>1. CASE /\ S = {}
           /\ Goto(p, "idle")
           /\ eff' = [eff EXCEPT ![p] = NoId]
           /\ todo' = [todo EXCEPT ![p] = {}]
  BY <1>1 DEF LocalType, Goto, Labels
<1>2. CASE \E i \in Eldest(S) :
             /\ Goto(p, IF p \in Workers THEN "claimed" ELSE "listed")
             /\ eff' = [eff EXCEPT ![p] = i]
             /\ todo' = [todo EXCEPT ![p] = S \ {i}]
  <2>1. PICK i \in Eldest(S) :
             /\ Goto(p, IF p \in Workers THEN "claimed" ELSE "listed")
             /\ eff' = [eff EXCEPT ![p] = i]
             /\ todo' = [todo EXCEPT ![p] = S \ {i}]
    BY <1>2
  <2>2. i \in S /\ i \in Ids /\ i # NoId
    BY EldestInside, NullsAssumption
  <2> QED
    BY <2>1, <2>2 DEF LocalType, Goto, Labels, Writing
<1> QED
  BY <1>1, <1>2 DEF TakeNext

LEMMA FinishType ==
    ASSUME LocalType, NullsAssumption, NEW p \in Procs, eff[p] \in Ids, Finish(p)
    PROVE  /\ LocalType'
           /\ todo'[p] \subseteq todo[p]
           /\ eff'[p] \in todo[p] \cup {NoId}
           /\ \A q \in Procs \ {p} : eff'[q] = eff[q] /\ todo'[q] = todo[q]
<1>1. todo[p] \in SUBSET Ids
  BY DEF LocalType
<1>2. ver' \in [Procs -> [Ids -> Nat]] /\ ord' \in [Procs -> Nat]
  BY DEF LocalType, Finish
<1> QED
  BY <1>1, <1>2, TakeNextType DEF LocalType, Finish

LEMMA StopType ==
    ASSUME LocalType, NEW p \in Procs, Stop(p)
    PROVE  /\ LocalType'
           /\ todo'[p] = {} /\ eff'[p] = NoId
           /\ \A q \in Procs \ {p} : eff'[q] = eff[q] /\ todo'[q] = todo[q]
BY DEF LocalType, Stop, Goto, Labels

-----------------------------------------------------------------------------
(* Type correctness *)

\* What a process or the target has in hand has been reserved.
Reserved ==
    /\ \A p \in Procs : eff[p] # NoId => status[eff[p]] # "absent"
    /\ \A p \in Procs : \A i \in todo[p] : status[i] # "absent"
    /\ \A r \in requests : status[r.id] # "absent"

TypeInv == TypeOK /\ Reserved

LEMMA TypeInit == Init => TypeInv
BY NullsAssumption, NumbersAssumption
   DEF Init, TypeInv, TypeOK, LedgerType, LocalType, TargetType, EnvType,
       Reserved, Labels

\* Nobody goes on to another effect, no effect leaves the ledger, and a new
\* request is about an effect somebody has in hand.
LEMMA ReservedStays ==
    ASSUME TypeInv, UNCHANGED <<eff, todo>>,
           \A i \in Ids : status'[i] = "absent" <=> status[i] = "absent",
           \A r \in requests' :
               r \in requests \/ \E q \in Procs : eff[q] # NoId /\ r.id = eff[q]
    PROVE  Reserved'
<1>1. /\ \A q \in Procs : eff[q] # NoId => eff[q] \in Ids /\ status[eff[q]] # "absent"
      /\ \A q \in Procs : \A i \in todo[q] : i \in Ids /\ status[i] # "absent"
  BY DEF TypeInv, TypeOK, LocalType, Reserved
<1>2. \A r \in requests : r.id \in Ids /\ status[r.id] # "absent"
  BY DEF TypeInv, TypeOK, TargetType, Request, Reserved
<1>3. \A q \in Procs : eff'[q] # NoId => status'[eff'[q]] # "absent"
  BY <1>1
<1>4. \A q \in Procs : \A i \in todo'[q] : status'[i] # "absent"
  BY <1>1
<1>5. \A r \in requests' : status'[r.id] # "absent"
  BY <1>1, <1>2
<1> QED
  BY <1>3, <1>4, <1>5 DEF Reserved

\* The transition that takes an edge and keeps the record.
LEMMA AdvanceType ==
    ASSUME TypeInv, NEW p \in Procs, eff[p] # NoId, NEW l \in Labels,
           l \notin {"idle", "stopped"}, Advance(p, l)
    PROVE  TypeInv'
<1>1. eff[p] \in Ids /\ status[eff[p]] # "absent" /\ pc[p] \notin {"idle", "stopped"}
  BY DEF TypeInv, TypeOK, LocalType, Reserved
<1>2. LedgerType' /\ \A j \in Ids : status'[j] = "absent" <=> status[j] = "absent"
  BY <1>1, WriteType, GoalType DEF Advance, TypeInv, TypeOK, LedgerType
<1>3. LocalType'
  BY <1>1 DEF Advance, TypeInv, TypeOK, LocalType, Goto
<1>4. TargetType' /\ EnvType'
  BY DEF Advance, TypeInv, TypeOK, TargetType, EnvType, target, env
<1>5. Reserved'
  <2>1. UNCHANGED <<eff, todo>> /\ requests' = requests
    BY DEF Advance, target
  <2> QED
    BY <1>2, <2>1, ReservedStays
<1> QED
  BY <1>2, <1>3, <1>4, <1>5 DEF TypeInv, TypeOK

\* The transition that ends the work on an effect.
LEMMA CloseType ==
    ASSUME TypeInv, NEW p \in Procs, eff[p] # NoId, Close(p)
    PROVE  TypeInv'
<1>1. eff[p] \in Ids /\ status[eff[p]] # "absent"
  BY DEF TypeInv, TypeOK, LocalType, Reserved
<1>2. LedgerType' /\ \A j \in Ids : status'[j] = "absent" <=> status[j] = "absent"
  BY <1>1, WriteType, GoalType DEF Close, TypeInv, TypeOK, LedgerType
<1>3. /\ LocalType'
      /\ todo'[p] \subseteq todo[p]
      /\ eff'[p] \in todo[p] \cup {NoId}
      /\ \A q \in Procs \ {p} : eff'[q] = eff[q] /\ todo'[q] = todo[q]
  BY <1>1, FinishType, NullsAssumption DEF Close, TypeInv, TypeOK
<1>4. TargetType' /\ EnvType'
  BY DEF Close, TypeInv, TypeOK, TargetType, EnvType, target, env
<1>5. Reserved'
  <2>1. \A q \in Procs : /\ todo'[q] \subseteq todo[q]
                         /\ eff'[q] \in todo[q] \cup {eff[q], NoId}
    BY <1>3
  <2>2. \A q \in Procs : todo[q] \subseteq Ids /\ eff[q] \in Ids \cup {NoId}
    BY DEF TypeInv, TypeOK, LocalType
  <2>3. \A r \in requests' : r \in requests /\ r.id \in Ids
    BY DEF Close, TypeInv, TypeOK, TargetType, Request, target
  <2> QED
    BY <1>2, <2>1, <2>2, <2>3 DEF TypeInv, Reserved
<1> QED
  BY <1>2, <1>3, <1>4, <1>5 DEF TypeInv, TypeOK

\* An exception that ends the call, the ledger untouched and no request added.
LEMMA StopInv ==
    ASSUME TypeInv, NEW p \in Procs, Stop(p), UNCHANGED ledger,
           requests' \subseteq requests, UNCHANGED <<count, keptUntil>>, EnvType'
    PROVE  TypeInv'
<1>1. /\ LocalType'
      /\ todo'[p] = {} /\ eff'[p] = NoId
      /\ \A q \in Procs \ {p} : eff'[q] = eff[q] /\ todo'[q] = todo[q]
  BY StopType DEF TypeInv, TypeOK
<1>2. LedgerType'
  BY DEF TypeInv, TypeOK, LedgerType, ledger
<1>3. TargetType'
  BY DEF TypeInv, TypeOK, TargetType
<1>4. Reserved'
  BY <1>1 DEF TypeInv, TypeOK, Reserved, ledger
<1> QED
  BY <1>1, <1>2, <1>3, <1>4 DEF TypeInv, TypeOK

\* A step that moves only a label, not to or from idleness.
LEMMA GotoInv ==
    ASSUME TypeInv, NEW p \in Procs, NEW l \in Labels \ {"idle", "stopped"},
           pc[p] \notin {"idle", "stopped"}, Goto(p, l),
           UNCHANGED <<eff, todo>>, ver' \in [Procs -> [Ids -> Nat]],
           ord' \in [Procs -> Nat], LedgerType', TargetType', EnvType',
           \A i \in Ids : status'[i] = "absent" <=> status[i] = "absent",
           \A r \in requests' : r \in requests \/ r.id = eff[p]
    PROVE  TypeInv'
<1>1. LocalType'
  BY DEF TypeInv, TypeOK, LocalType, Goto
<1>2. Reserved'
  <2>1. eff[p] # NoId
    BY DEF TypeInv, TypeOK, LocalType
  <2> QED
    BY <2>1, ReservedStays
<1> QED
  BY <1>1, <1>2 DEF TypeInv, TypeOK

\* What the callers and whoever recovers a stale dispatch do.
LEMMA CallersType ==
    ASSUME TypeInv, NEW i \in Ids, UNCHANGED <<local, target>>, EnvType',
           \/ \E c \in Contracts : Submit(i, c)
           \/ Cancel(i)
           \/ \E s \in Resolutions : Resolve(i, s)
           \/ MarkUnknown(i)
    PROVE  TypeInv'
<1>1. LedgerType' /\ \A j \in Ids : status[j] # "absent" => status'[j] # "absent"
  <2>1. CASE \E c \in Contracts : Submit(i, c)
    BY <2>1, NullsAssumption
    DEF TypeInv, TypeOK, LedgerType, EnvType, Submit, EffectStatus
  <2>2. CASE Cancel(i)
    BY <2>2, WriteType DEF TypeInv, TypeOK, LedgerType, Cancel,
       ClaimableStatuses, EffectStatus
  <2>3. CASE \E s \in Resolutions : Resolve(i, s)
    <3>1. PICK s \in Resolutions : Resolve(i, s)
      BY <2>3
    <3>2. s \in EffectStatus /\ status[i] # "absent" /\ resolved' \in SUBSET Ids
      BY <3>1 DEF Resolutions, EffectStatus, Resolve, TypeInv, TypeOK, LedgerType
    <3> QED
      BY <3>1, <3>2, WriteType DEF TypeInv, TypeOK, Resolve
  <2>4. CASE MarkUnknown(i)
    BY <2>4, WriteType DEF TypeInv, TypeOK, LedgerType, MarkUnknown, EffectStatus
  <2> QED
    BY <2>1, <2>2, <2>3, <2>4
<1>2. LocalType' /\ TargetType'
  BY DEF TypeInv, TypeOK, LocalType, TargetType, local, target
<1>3. Reserved'
  BY <1>1 DEF TypeInv, TypeOK, Reserved, LocalType, TargetType, Request, local,
     target
<1> QED
  BY <1>1, <1>2, <1>3 DEF TypeInv, TypeOK

LEMMA ClaimType ==
    ASSUME TypeInv, NEW w \in Workers, ClaimDue(w)
    PROVE  TypeInv'
<1> w \in Procs
  BY DEF Procs
<1>1. PICK S \in Oldest(Due) :
         /\ S # {}
         /\ version' = [i \in Ids |-> IF i \in S THEN version[i] + 1
                                                 ELSE version[i]]
         /\ lease' = [i \in Ids |-> IF i \in S THEN now + LeaseFor
                                               ELSE lease[i]]
         /\ ver' = [ver EXCEPT ![w] =
                       [i \in Ids |-> IF i \in S THEN version[i] + 1 ELSE 0]]
         /\ TakeNext(w, S)
  BY DEF ClaimDue
<1>2. S \subseteq Ids /\ \A i \in S : status[i] # "absent"
  BY OldestInside DEF Due, ClaimableStatuses
<1>3. LedgerType'
  BY <1>1, NumbersAssumption DEF TypeInv, TypeOK, LedgerType, EnvType, ClaimDue
<1>4. /\ LocalType'
      /\ todo'[w] \subseteq S
      /\ eff'[w] \in S \cup {NoId}
      /\ \A q \in Procs \ {w} : eff'[q] = eff[q] /\ todo'[q] = todo[q]
  <2>1. ver' \in [Procs -> [Ids -> Nat]] /\ ord' \in [Procs -> Nat]
    BY <1>1 DEF ClaimDue, TypeInv, TypeOK, LocalType, LedgerType
  <2> QED
    BY <1>1, <1>2, <2>1, TakeNextType, NullsAssumption
    DEF TypeInv, TypeOK, LocalType
<1>5. TargetType' /\ EnvType'
  BY DEF ClaimDue, TypeInv, TypeOK, TargetType, EnvType, target, env
<1>6. Reserved'
  BY <1>2, <1>4 DEF ClaimDue, TypeInv, TypeOK, Reserved, target
<1> QED
  BY <1>3, <1>4, <1>5, <1>6 DEF TypeInv, TypeOK

LEMMA ListType ==
    ASSUME TypeInv, NEW r \in Reconcilers, List(r)
    PROVE  TypeInv'
<1> r \in Procs
  BY DEF Procs
<1>1. PICK S \in Oldest({i \in ServedIds : status[i] = "outcome_unknown"}) :
         S # {} /\ TakeNext(r, S)
  BY DEF List
<1>2. S \subseteq Ids /\ \A i \in S : status[i] # "absent"
  BY OldestInside, EnvironmentAssumption
<1>3. /\ LocalType'
      /\ todo'[r] \subseteq S
      /\ eff'[r] \in S \cup {NoId}
      /\ \A q \in Procs \ {r} : eff'[q] = eff[q] /\ todo'[q] = todo[q]
  BY <1>1, <1>2, TakeNextType, NullsAssumption
  DEF List, TypeInv, TypeOK, LocalType
<1>4. LedgerType' /\ TargetType' /\ EnvType'
  BY DEF List, TypeInv, TypeOK, LedgerType, TargetType, EnvType, ledger, target,
     env
<1>5. Reserved'
  BY <1>2, <1>3 DEF List, TypeInv, TypeOK, Reserved, ledger, target
<1> QED
  BY <1>3, <1>4, <1>5 DEF TypeInv, TypeOK

\* A process's own step.
LEMMA StepType ==
    ASSUME TypeInv, NEW p \in Procs, Step(p)
    PROVE  TypeInv'
<1> USE DEF Labels, Writing, Dispatching, Probing
<1>0. eff[p] # NoId <=> pc[p] \notin {"idle", "stopped"}
  BY DEF TypeInv, TypeOK, LocalType
<1>1. CASE p \in Workers /\ ClaimDue(p)
  BY <1>1, ClaimType
<1>2. CASE p \in Reconcilers /\ List(p)
  BY <1>2, ListType
<1>3. CASE Get(p)
  <2>1. eff[p] \in Ids /\ Route(eff[p]) \in Labels \ {"idle", "stopped"}
    BY <1>0, <1>3 DEF Get, Route, TypeInv, TypeOK, LocalType
  <2>2. ver' \in [Procs -> [Ids -> Nat]] /\ ord' \in [Procs -> Nat]
    BY <1>3, <2>1 DEF Get, TypeInv, TypeOK, LocalType, LedgerType
  <2>3. LedgerType' /\ TargetType' /\ EnvType'
    BY <1>3 DEF Get, TypeInv, TypeOK, LedgerType, TargetType, EnvType, ledger,
       target, env
  <2> QED
    BY <1>0, <1>3, <2>1, <2>2, <2>3, GotoInv DEF Get, ledger, target
<1>4. CASE BeginDispatch(p)
  BY <1>0, <1>4, AdvanceType DEF BeginDispatch
<1>5. CASE StartAttempt(p)
  <2>1. eff[p] \in Ids
    BY <1>0, <1>5 DEF StartAttempt, TypeInv, TypeOK, LocalType
  <2>2. LedgerType' /\ TargetType' /\ EnvType'
    BY <1>5, <2>1 DEF StartAttempt, TypeInv, TypeOK, LedgerType, TargetType,
       EnvType, target, env
  <2>3. ver' \in [Procs -> [Ids -> Nat]] /\ ord' \in [Procs -> Nat]
    BY <1>5, <2>1 DEF StartAttempt, TypeInv, TypeOK, LocalType, LedgerType
  <2> QED
    BY <1>0, <1>5, <2>2, <2>3, GotoInv DEF StartAttempt, target
<1>6. CASE Send(p)
  <2>1. eff[p] \in Ids /\ ord[p] \in Nat /\ now \in Nat
    BY <1>0, <1>6 DEF Send, TypeInv, TypeOK, LocalType, EnvType
  <2>2. TargetType'
    BY <1>6, <2>1 DEF Send, TypeInv, TypeOK, TargetType, Request
  <2>3. LedgerType' /\ EnvType'
    BY <1>6 DEF Send, TypeInv, TypeOK, LedgerType, EnvType, ledger, env
  <2>4. ver' \in [Procs -> [Ids -> Nat]] /\ ord' \in [Procs -> Nat]
    BY <1>6 DEF Send, TypeInv, TypeOK, LocalType
  <2> QED
    BY <1>0, <1>6, <2>2, <2>3, <2>4, GotoInv DEF Send, ledger
<1>7. CASE Settle(p)
  BY <1>0, <1>7, CloseType DEF Settle
<1>8. CASE BeginProbe(p)
  BY <1>0, <1>8, AdvanceType DEF BeginProbe
<1>9. CASE Probe(p)
  <2>1. LedgerType' /\ TargetType' /\ EnvType'
    BY <1>9 DEF Probe, TypeInv, TypeOK, LedgerType, TargetType, EnvType, ledger,
       target, env
  <2>2. ver' \in [Procs -> [Ids -> Nat]] /\ ord' \in [Procs -> Nat]
    BY <1>9 DEF Probe, TypeInv, TypeOK, LocalType
  <2>3. \E l \in {"found", "absent", "unproven"} : Goto(p, l)
    BY <1>9 DEF Probe
  <2> QED
    BY <1>0, <1>9, <2>1, <2>2, <2>3, GotoInv DEF Probe, ledger, target
<1>10. CASE Conclude(p)
  BY <1>0, <1>10, CloseType DEF Conclude
<1>11. CASE Refused(p)
  BY <1>11, StopInv DEF Refused, TypeInv, TypeOK, EnvType, target, env
<1> QED
  BY <1>1, <1>2, <1>3, <1>4, <1>5, <1>6, <1>7, <1>8, <1>9, <1>10, <1>11 DEF Step

\* A fault, a crash or a restart of a process.
LEMMA MishapType ==
    ASSUME TypeInv, NEW p \in Procs, Mishap(p) \/ Restart(p)
    PROVE  TypeInv'
<1> USE DEF Labels, Writing, Dispatching, Probing
<1>0. EnvType'
  BY NumbersAssumption
  DEF TypeInv, TypeOK, EnvType, Mishap, AdapterFactoryFails, StoreFails,
      ProbeFails, Timeout, Crash, Restart, Fault, env
<1>1. CASE AdapterFactoryFails(p) /\ p \in Workers
  <2>1. LedgerType' /\ TargetType'
    BY <1>1 DEF AdapterFactoryFails, TypeInv, TypeOK, LedgerType, TargetType,
       ledger, target
  <2> QED
    BY <1>0, <1>1, <2>1, GotoInv
    DEF AdapterFactoryFails, ledger, target, TypeInv, TypeOK, LocalType
<1>2. CASE AdapterFactoryFails(p) /\ p \notin Workers
  BY <1>0, <1>2, StopInv DEF AdapterFactoryFails, target
<1>3. CASE StoreFails(p)
  <2>1. LedgerType' /\ TargetType'
    BY <1>3 DEF StoreFails, TypeInv, TypeOK, LedgerType, TargetType, ledger,
       target
  <2>2. CASE Stop(p)
    BY <1>0, <1>3, <2>2, StopInv DEF StoreFails, target
  <2>3. CASE pc[p] \in {"committed", "ambiguous"} /\ Goto(p, "ambiguous")
             /\ UNCHANGED <<eff, ver, ord, todo>>
    BY <1>0, <1>3, <2>1, <2>3, GotoInv
    DEF StoreFails, ledger, target, TypeInv, TypeOK, LocalType
  <2> QED
    BY <1>3, <2>2, <2>3 DEF StoreFails
<1>4. CASE ProbeFails(p)
  BY <1>0, <1>4, StopInv DEF ProbeFails, target
<1>5. CASE Timeout(p)
  <2>1. LedgerType' /\ TargetType'
    BY <1>5 DEF Timeout, Abandon, TypeInv, TypeOK, LedgerType, TargetType, ledger
  <2> QED
    BY <1>0, <1>5, <2>1, GotoInv
    DEF Timeout, Abandon, ledger, TypeInv, TypeOK, LocalType
<1>6. CASE Crash(p)
  BY <1>0, <1>6, StopInv DEF Crash, Abandon
<1>7. CASE Restart(p)
  <2>1. LedgerType' /\ TargetType' /\ LocalType'
    BY <1>7 DEF Restart, Goto, TypeInv, TypeOK, LedgerType, TargetType,
       LocalType, ledger, target
  <2> QED
    BY <1>0, <1>7, <2>1
    DEF Restart, Reserved, TypeInv, TypeOK, ledger, target
<1> QED
  BY <1>1, <1>2, <1>3, <1>4, <1>5, <1>6, <1>7 DEF Mishap

LEMMA HandlerType ==
    ASSUME TypeInv, NEW h \in Handlers, NEW i \in Ids, HandlerGet(h, i)
    PROVE  TypeInv'
<1> h \in Procs
  BY DEF Procs
<1>1. Route(i) \in {"redispatch", "reconcile", "review"}
  BY DEF Route
<1>2. LocalType'
  BY <1>1, NullsAssumption
  DEF HandlerGet, Goto, TypeInv, TypeOK, LocalType, LedgerType, Labels, Writing
<1>3. LedgerType' /\ TargetType' /\ EnvType'
  BY DEF HandlerGet, TypeInv, TypeOK, LedgerType, TargetType, EnvType, ledger,
     target, env
<1>4. Reserved'
  BY DEF HandlerGet, TypeInv, TypeOK, Reserved, LocalType, ledger, target
<1> QED
  BY <1>2, <1>3, <1>4 DEF TypeInv, TypeOK

\* The target handles a request.
LEMMA TargetStepType ==
    ASSUME TypeInv, TargetStep
    PROVE  TypeInv'
<1>1. PICK r \in requests :
         Commit(r) \/ CommitUnconfirmed(r) \/ Reject(r) \/ Drop(r)
  BY DEF TargetStep
<1>2. r.id \in Ids /\ contract[r.id] \in Contracts
  BY DEF TypeInv, TypeOK, LedgerType, TargetType, Reserved, Request
<1>3. contract[r.id].key_retention \in Int
  BY <1>2, ContractsAssumption DEF ValidContract, EffectContract
<1>4. PICK l \in {"committed", "ambiguous", "rejected"} : Answer(r, l)
  BY <1>1 DEF Commit, CommitUnconfirmed, Reject, Drop
<1>5. Perform(r.id) \/ UNCHANGED <<count, keptUntil>>
  BY <1>1 DEF Commit, CommitUnconfirmed, Reject, Drop
<1>6. TargetType'
  BY <1>2, <1>3, <1>4, <1>5
  DEF TypeInv, TypeOK, TargetType, EnvType, Answer, Perform
<1>7. LocalType'
  BY <1>4 DEF TypeInv, TypeOK, LocalType, Answer, Awaits, Labels, Writing,
     Dispatching
<1>8. LedgerType' /\ EnvType'
  BY <1>1, <1>4, NumbersAssumption
  DEF TypeInv, TypeOK, LedgerType, EnvType, Answer, ledger, env, Commit,
      CommitUnconfirmed, Reject, Drop, Fault
<1>9. Reserved'
  BY <1>4 DEF TypeInv, Reserved, Answer, ledger
<1> QED
  BY <1>6, <1>7, <1>8, <1>9 DEF TypeInv, TypeOK

LEMMA TickType ==
    ASSUME TypeInv, Tick
    PROVE  TypeInv'
BY DEF Tick, TypeInv, TypeOK, LedgerType, LocalType, TargetType, EnvType,
   Reserved, ledger, local

LEMMA TypeStep == TypeInv /\ [Next]_vars => TypeInv'
<1> SUFFICES ASSUME TypeInv, [Next]_vars PROVE TypeInv'
  OBVIOUS
<1>1. CASE Callers
  <2>1. PICK i \in Ids : \/ \E c \in Contracts : Submit(i, c)
                         \/ Cancel(i)
                         \/ \E s \in Resolutions : Resolve(i, s)
                         \/ MarkUnknown(i)
    BY <1>1 DEF Callers
  <2>2. UNCHANGED <<local, target>>
    BY <2>1 DEF Submit, Cancel, Resolve, MarkUnknown
  <2>3. EnvType'
    BY <2>1, NumbersAssumption
    DEF Submit, Cancel, Resolve, MarkUnknown, Fault, env, TypeInv, TypeOK, EnvType
  <2> QED
    BY <2>1, <2>2, <2>3, CallersType
<1>2. CASE \E p \in Procs : Step(p) \/ Mishap(p) \/ Restart(p)
  BY <1>2, StepType, MishapType
<1>3. CASE \E h \in Handlers, i \in Ids : HandlerGet(h, i)
  BY <1>3, HandlerType
<1>4. CASE TargetStep
  BY <1>4, TargetStepType
<1>5. CASE Tick
  BY <1>5, TickType
<1>6. CASE UNCHANGED vars
  BY <1>6 DEF vars, ledger, local, target, env, TypeInv, TypeOK, LedgerType,
     LocalType, TargetType, EnvType, Reserved
<1> QED
  BY <1>1, <1>2, <1>3, <1>4, <1>5, <1>6 DEF Next

\* Every reachable state is well typed, and no process and no request is about
\* an effect that has not been reserved (reserve in store/*.py).
THEOREM TypeCorrect == Spec => [](TypeOK /\ Reserved)
BY TypeInit, TypeStep, PTL DEF Spec, TypeInv

-----------------------------------------------------------------------------
(* Where a process stands after a call *)

LEMMA TakeNextLabel ==
    ASSUME TypeInv, NEW p \in Procs, NEW S, TakeNext(p, S)
    PROVE  /\ pc'[p] \in {"idle", "claimed", "listed"}
           /\ \A q \in Procs \ {p} : /\ pc'[q] = pc[q] /\ eff'[q] = eff[q]
                                     /\ todo'[q] = todo[q]
BY DEF TypeInv, TypeOK, LocalType, TakeNext, Goto

LEMMA StopLabel ==
    ASSUME TypeInv, NEW p \in Procs, Stop(p)
    PROVE  /\ pc'[p] \in {"idle", "stopped"}
           /\ eff'[p] = NoId /\ todo'[p] = {}
           /\ \A q \in Procs \ {p} : /\ pc'[q] = pc[q] /\ eff'[q] = eff[q]
                                     /\ todo'[q] = todo[q] /\ ver'[q] = ver[q]
BY DEF TypeInv, TypeOK, LocalType, Stop, Goto

LEMMA ClosedLabel ==
    ASSUME TypeInv, NEW p \in Procs, eff[p] # NoId, Close(p)
    PROVE  /\ pc'[p] \in {"idle", "claimed", "listed"}
           /\ \A q \in Procs \ {p} : /\ pc'[q] = pc[q] /\ eff'[q] = eff[q]
                                     /\ todo'[q] = todo[q] /\ ver'[q] = ver[q]
           /\ eff'[p] \in todo[p] \cup {NoId}
           /\ todo'[p] \subseteq todo[p]
           /\ \A i \in Ids : i # eff[p] => ver'[p][i] = ver[p][i]
           /\ ver'[p][eff[p]] = 0
<1>1. eff[p] \in Ids /\ Finish(p) /\ TakeNext(p, todo[p]) /\ LocalType
  BY DEF Close, Finish, TypeInv, TypeOK, LocalType
<1>2. /\ \A q \in Procs \ {p} : ver'[q] = ver[q]
      /\ \A i \in Ids : i # eff[p] => ver'[p][i] = ver[p][i]
      /\ ver'[p][eff[p]] = 0
  BY <1>1 DEF Finish, LocalType
<1> QED
  BY <1>1, <1>2, TakeNextLabel, FinishType, NullsAssumption

-----------------------------------------------------------------------------
(* No success without the effect *)

\* A process about to write SUCCEEDED acts for an effect the target performed.
Evidence ==
    \A p \in Procs : pc[p] \in {"committed", "found"} => count[eff[p]] > 0

SuccessInv == Evidence /\ NoFalseSuccess

LEMMA SuccessInit == Init => SuccessInv
BY DEF Init, SuccessInv, Evidence, NoFalseSuccess

\* A step of one process that performs nothing and writes no status.
LEMMA QuietSuccess ==
    ASSUME TypeInv, SuccessInv, UNCHANGED <<status, resolved, count>>,
           \A p \in Procs : \/ pc'[p] \notin {"committed", "found"}
                            \/ pc'[p] = pc[p] /\ eff'[p] = eff[p]
    PROVE  SuccessInv'
BY DEF SuccessInv, Evidence, NoFalseSuccess

\* A transition to a status other than SUCCEEDED.
LEMMA WriteSuccess ==
    ASSUME TypeInv, SuccessInv, NEW i \in Ids, NEW s, Write(i, s),
           s # "succeeded" \/ i \in resolved' \/ count[i] > 0,
           resolved \subseteq resolved', UNCHANGED count,
           \A p \in Procs : \/ pc'[p] \notin {"committed", "found"}
                            \/ pc'[p] = pc[p] /\ eff'[p] = eff[p]
    PROVE  SuccessInv'
BY DEF SuccessInv, Evidence, NoFalseSuccess, Write, TypeInv, TypeOK, LedgerType

\* A transition by p: SUCCEEDED only at a label that has evidence.
LEMMA GoalSuccess ==
    ASSUME TypeInv, SuccessInv, NEW p \in Procs, Goal(p) = "succeeded"
    PROVE  count[eff[p]] > 0
BY DEF Goal, SuccessInv, Evidence

LEMMA StepSuccess ==
    ASSUME TypeInv, SuccessInv, NEW p \in Procs, Step(p)
    PROVE  SuccessInv'
<1>0. eff[p] = NoId <=> pc[p] \in {"idle", "stopped"}
  BY DEF TypeInv, TypeOK, LocalType
<1>a. eff[p] # NoId => eff[p] \in Ids
  BY DEF TypeInv, TypeOK, LocalType
<1>1. CASE p \in Workers /\ ClaimDue(p)
  <2>1. PICK S : TakeNext(p, S)
    BY <1>1 DEF ClaimDue
  <2> QED
    BY <1>1, <2>1, TakeNextLabel, QuietSuccess DEF ClaimDue, target
<1>2. CASE List(p)
  <2>1. PICK S : TakeNext(p, S)
    BY <1>2 DEF List
  <2> QED
    BY <1>2, <2>1, TakeNextLabel, QuietSuccess DEF List, target, ledger
<1>3. CASE Get(p)
  <2>1. Route(eff[p]) \in {"redispatch", "reconcile", "review"}
    BY DEF Route
  <2> QED
    BY <1>3, <2>1, QuietSuccess
    DEF Get, Goto, target, ledger, TypeInv, TypeOK, LocalType
<1>4. CASE BeginDispatch(p) \/ BeginProbe(p)
  <2>1. Goal(p) # "succeeded" /\ eff[p] \in Ids
    BY <1>0, <1>a, <1>4 DEF BeginDispatch, BeginProbe, Goal
  <2>2. \E l \in {"attempt", "probe"} : Advance(p, l)
    BY <1>4 DEF BeginDispatch, BeginProbe
  <2> QED
    BY <2>1, <2>2, WriteSuccess
    DEF Advance, Goto, target, TypeInv, TypeOK, LocalType
<1>5. CASE StartAttempt(p) \/ Send(p)
  BY <1>5, QuietSuccess
  DEF StartAttempt, Send, Goto, target, ledger, TypeInv, TypeOK, LocalType
<1>6. CASE Settle(p) \/ Conclude(p)
  <2>1. eff[p] \in Ids /\ Close(p)
    BY <1>0, <1>a, <1>6 DEF Settle, Conclude
  <2>2. Goal(p) # "succeeded" \/ count[eff[p]] > 0
    BY GoalSuccess
  <2>3. \A q \in Procs : \/ pc'[q] \notin {"committed", "found"}
                         \/ pc'[q] = pc[q] /\ eff'[q] = eff[q]
    BY <1>0, <2>1, ClosedLabel, NullsAssumption
  <2>4. /\ Write(eff[p], Goal(p)) /\ UNCHANGED count
        /\ resolved \subseteq resolved'
    BY <2>1 DEF Close, target
  <2> QED
    BY <2>1, <2>2, <2>3, <2>4, WriteSuccess
<1>7. CASE Probe(p)
  <2>1. pc'[p] = "found" => count[eff[p]] > 0
    BY <1>7 DEF Probe, Found, Goto, TypeInv, TypeOK, LocalType
  <2>2. pc'[p] # "committed" /\ \A q \in Procs \ {p} : pc'[q] = pc[q]
    BY <1>7 DEF Probe, Goto, TypeInv, TypeOK, LocalType
  <2> QED
    BY <1>7, <2>1, <2>2
    DEF Probe, SuccessInv, Evidence, NoFalseSuccess, target, ledger
<1>8. CASE Refused(p)
  BY <1>8, StopLabel, QuietSuccess DEF Refused, target, ledger
<1> QED
  BY <1>1, <1>2, <1>3, <1>4, <1>5, <1>6, <1>7, <1>8 DEF Step

LEMMA MishapSuccess ==
    ASSUME TypeInv, SuccessInv, NEW p \in Procs, Mishap(p) \/ Restart(p)
    PROVE  SuccessInv'
<1>1. CASE Stop(p)
  BY <1>1, StopLabel, QuietSuccess
  DEF Mishap, AdapterFactoryFails, StoreFails, ProbeFails, Timeout, Crash,
      Restart, ledger, target
<1>2. CASE (\E l \in {"ambiguous", "idle"} : Goto(p, l)) /\ UNCHANGED eff
  BY <1>2, QuietSuccess
  DEF Mishap, AdapterFactoryFails, StoreFails, ProbeFails, Timeout, Crash,
      Restart, ledger, target, Goto, TypeInv, TypeOK, LocalType
<1> QED
  BY <1>1, <1>2 DEF Mishap, AdapterFactoryFails, StoreFails, ProbeFails, Timeout,
     Crash, Restart

\* The target's count never falls, and a response that confirms follows it.
LEMMA TargetSuccess ==
    ASSUME TypeInv, SuccessInv, TargetStep
    PROVE  SuccessInv'
<1>1. PICK r \in requests :
         Commit(r) \/ CommitUnconfirmed(r) \/ Reject(r) \/ Drop(r)
  BY DEF TargetStep
<1>2. r.id \in Ids
  BY DEF TypeInv, TypeOK, TargetType, Request
<1>3. \A i \in Ids : count[i] > 0 => count'[i] > 0
  BY <1>1, <1>2 DEF Commit, CommitUnconfirmed, Reject, Drop, Perform, TypeInv,
     TypeOK, TargetType
<1>4. Commit(r) => count'[r.id] > 0
  BY <1>1, <1>2 DEF Commit, Perform, Deduplicated, TypeInv, TypeOK, TargetType
<1>5. PICK l \in {"committed", "ambiguous", "rejected"} :
         Answer(r, l) /\ (l = "committed" => Commit(r))
  BY <1>1 DEF Commit, CommitUnconfirmed, Reject, Drop
<1>6. Evidence'
  <2> SUFFICES ASSUME NEW p \in Procs, pc'[p] \in {"committed", "found"}
               PROVE  count'[eff'[p]] > 0
    BY DEF Evidence
  <2>1. pc'[p] = (IF Awaits(p, r) THEN l ELSE pc[p]) /\ eff' = eff
    BY <1>5 DEF Answer
  <2>2. CASE Awaits(p, r)
    BY <1>4, <1>5, <2>1, <2>2 DEF Awaits
  <2>3. CASE ~Awaits(p, r)
    <3>1. count[eff[p]] > 0 /\ eff[p] \in Ids
      BY <2>1, <2>3 DEF SuccessInv, Evidence, TypeInv, TypeOK, LocalType
    <3> QED
      BY <1>3, <2>1, <3>1
  <2> QED
    BY <2>2, <2>3
<1>7. NoFalseSuccess'
  BY <1>3, <1>5 DEF SuccessInv, NoFalseSuccess, Answer, ledger
<1> QED
  BY <1>6, <1>7 DEF SuccessInv

LEMMA SuccessStep == TypeInv /\ SuccessInv /\ [Next]_vars => SuccessInv'
<1> SUFFICES ASSUME TypeInv, SuccessInv, [Next]_vars PROVE SuccessInv'
  OBVIOUS
<1>1. CASE Callers
  <2>1. PICK i \in Ids : \/ \E c \in Contracts : Submit(i, c)
                         \/ Cancel(i)
                         \/ \E s \in Resolutions : Resolve(i, s)
                         \/ MarkUnknown(i)
    BY <1>1 DEF Callers
  <2>2. CASE \E c \in Contracts : Submit(i, c)
    BY <2>2 DEF Submit, SuccessInv, Evidence, NoFalseSuccess, TypeInv, TypeOK,
       LedgerType, local, target
  <2>3. CASE Cancel(i) \/ MarkUnknown(i)
    BY <2>3, WriteSuccess DEF Cancel, MarkUnknown, local, target
  <2>4. CASE \E s \in Resolutions : Resolve(i, s)
    BY <2>4, WriteSuccess DEF Resolve, local, target
  <2> QED
    BY <2>1, <2>2, <2>3, <2>4
<1>2. CASE \E p \in Procs : Step(p) \/ Mishap(p) \/ Restart(p)
  BY <1>2, StepSuccess, MishapSuccess
<1>3. CASE \E h \in Handlers, i \in Ids : HandlerGet(h, i)
  <2>1. \A i : Route(i) \in {"redispatch", "reconcile", "review"}
    BY DEF Route
  <2> QED
    BY <1>3, <2>1, QuietSuccess
    DEF HandlerGet, Goto, target, ledger, TypeInv, TypeOK, LocalType, Procs
<1>4. CASE TargetStep
  BY <1>4, TargetSuccess
<1>5. CASE Tick \/ UNCHANGED vars
  BY <1>5, QuietSuccess DEF Tick, vars, ledger, local, target
<1> QED
  BY <1>1, <1>2, <1>3, <1>4, <1>5 DEF Next

\* The broker writes SUCCEEDED only for an effect the target has performed, in
\* every environment: a success can be wrong only when an operator says so.
THEOREM SuccessIsReal == Spec => []NoFalseSuccess
<1>1. TypeInv /\ SuccessInv /\ [Next]_vars => (TypeInv /\ SuccessInv)'
  BY TypeStep, SuccessStep
<1>2. Init => TypeInv /\ SuccessInv
  BY TypeInit, SuccessInit
<1> QED
  BY <1>1, <1>2, PTL DEF Spec, SuccessInv
===============================================================================
