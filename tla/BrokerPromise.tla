----------------------------- MODULE BrokerPromise -----------------------------
(***************************************************************************)
(* What holds while the classes' contracts do, for every value of the      *)
(* other constants: no two requests of an effect are under way at once, no *)
(* effect happens twice, no failure is told of one that happened, and the  *)
(* broker implements EffectPromise.                                        *)
(***************************************************************************)
EXTENDS BrokerFencing

\* A request dies with its caller, a worker is presumed dead only when it is,
\* and a key that deduplicates outlives the run.
ContractHolds ==
    /\ Lag = 0 /\ "presumed" \notin FaultKinds
    /\ KeysExpire => \A c \in Contracts :
          c.safety \in {"idempotent", "transactional"}
              => c.key_retention = NoDuration \/ c.key_retention >= MaxTime

-----------------------------------------------------------------------------
(* One dispatch, one request *)

\* Who took the DISPATCHING edge has the record until it gives it up.
EdgeOwned == \A p \in Procs : pc[p] \in Dispatching => Owner(p, eff[p])

\* A request on its way has a caller that awaits it.
Awaited == \A r \in requests : r.sent <= now /\ \E p \in Procs : Awaits(p, r)

FlightInv == EdgeOwned /\ Awaited /\ SingleFlight

LEMMA FlightInit == Init => FlightInv
BY DEF Init, FlightInv, EdgeOwned, Awaited, SingleFlight, Dispatching

\* p goes on with its dispatch, or is in none; it awaits what it awaited.
Flies(p) ==
    /\ pc'[p] \in Dispatching =>
          /\ pc[p] \in Dispatching /\ eff'[p] = eff[p]
          /\ ver'[p][eff[p]] = ver[p][eff[p]]
          /\ version'[eff[p]] = version[eff[p]]
    /\ pc[p] = "wait" => pc'[p] = "wait" /\ eff'[p] = eff[p] /\ ord'[p] = ord[p]

LEMMA KeepFlying ==
    ASSUME TypeInv, FlightInv, requests' = requests, now' = now,
           \A p \in Procs : Flies(p)
    PROVE  FlightInv'
<1>1. EdgeOwned'
  BY DEF FlightInv, EdgeOwned, Owner, Flies
<1>2. Awaited'
  BY DEF FlightInv, Awaited, Awaits, Flies
<1> QED
  BY <1>1, <1>2 DEF FlightInv, SingleFlight

\* While a process is in its dispatch nobody else writes the record.
LEMMA NotInFlight ==
    ASSUME TypeInv, FencedInv, FlightInv, NEW p \in Procs, NEW i \in Ids,
           pc[p] \in Dispatching, eff[p] = i
    PROVE  /\ Owner(p, i) /\ status[i] = "dispatching"
           /\ \A q \in Procs : Owner(q, i) => q = p
BY DEF FlightInv, EdgeOwned, FencedInv, Fenced, Holds

\* A step by p that ends its work on the effect, or leaves the record alone.
LEMMA WriteFlies ==
    ASSUME TypeInv, NEW i \in Ids, NEW s, Write(i, s), NEW p \in Procs,
           pc'[p] = pc[p], eff'[p] = eff[p], ver'[p] = ver[p],
           ord'[p] = ord[p], pc[p] \in Dispatching => eff[p] # i
    PROVE  Flies(p)
BY NullsAssumption
   DEF Flies, Write, TypeInv, TypeOK, LedgerType, LocalType, Dispatching

LEMMA BeginDispatchFlight ==
    ASSUME TypeInv, FencedInv, FlightInv, NEW p \in Procs, BeginDispatch(p)
    PROVE  FlightInv'
<1> DEFINE i == eff[p]
<1>1. eff[p] # NoId /\ i \in Ids /\ Goal(p) = "dispatching"
  BY DEF BeginDispatch, Goal, TypeInv, TypeOK, LocalType
<1>2. /\ Write(i, "dispatching") /\ status[i] # "dispatching"
      /\ pc' = [pc EXCEPT ![p] = "attempt"]
      /\ UNCHANGED <<eff, ord, requests, now>>
      /\ ver'[p][i] = version'[i] /\ pc[p] # "wait"
      /\ \A q \in Procs \ {p} : ver'[q] = ver[q]
  BY <1>1
  DEF BeginDispatch, Advance, Accepted, Current, Write, Goto, IsAllowed, target,
      env, TypeInv, TypeOK, LedgerType, LocalType
<1>3. \A q \in Procs \ {p} : pc[q] \in Dispatching => eff[q] # i
  BY <1>1, <1>2, NotInFlight
<1>4. \A q \in Procs \ {p} : Flies(q)
  BY <1>1, <1>2, <1>3, WriteFlies DEF TypeInv, TypeOK, LocalType
<1>5. EdgeOwned'
  <2>1. Owner(p, i)'
    BY <1>2 DEF Owner, Dispatching, TypeInv, TypeOK, LocalType
  <2> QED
    BY <1>2, <1>4, <2>1 DEF FlightInv, EdgeOwned, Owner, Flies
<1>6. Awaited'
  BY <1>2, <1>4 DEF FlightInv, Awaited, Awaits, Flies
<1> QED
  BY <1>2, <1>5, <1>6 DEF FlightInv, SingleFlight

LEMMA SendFlight ==
    ASSUME TypeInv, FencedInv, FlightInv, NEW p \in Procs, Send(p)
    PROVE  FlightInv'
<1> DEFINE m == [id |-> eff[p], ord |-> ord[p], sent |-> now]
<1>1. /\ requests' = requests \cup {m}
      /\ m.id = eff[p] /\ m.ord = ord[p] /\ m.sent = now
      /\ UNCHANGED <<eff, ver, ord, version, now>>
      /\ pc[p] = "send" /\ pc'[p] = "wait"
      /\ \A q \in Procs \ {p} : pc'[q] = pc[q]
      /\ eff[p] \in Ids /\ now \in Nat
  BY DEF Send, Goto, ledger, env, TypeInv, TypeOK, LocalType, EnvType
<1> HIDE DEF m
<1>2. EdgeOwned'
  BY <1>1 DEF FlightInv, EdgeOwned, Owner, Dispatching
<1>3. \A r \in requests : r.id # eff[p]
  <2> SUFFICES ASSUME NEW r \in requests, r.id = eff[p] PROVE FALSE
    OBVIOUS
  <2>1. PICK q \in Procs : Awaits(q, r)
    BY DEF FlightInv, Awaited
  <2>2. q = p
    BY <1>1, <2>1, NotInFlight DEF Awaits, Dispatching
  <2> QED
    BY <1>1, <2>1, <2>2 DEF Awaits
<1>4. SingleFlight'
  BY <1>1, <1>3 DEF FlightInv, SingleFlight
<1>5. Awaited'
  <2>1. ASSUME NEW r \in requests'
        PROVE  r.sent <= now' /\ \E q \in Procs : Awaits(q, r)'
    <3>1. CASE r = m
      BY <1>1, <3>1 DEF Awaits
    <3>2. CASE r \in requests
      <4>1. PICK q \in Procs : Awaits(q, r) /\ r.sent <= now
        BY <3>2 DEF FlightInv, Awaited
      <4> QED
        BY <1>1, <4>1 DEF Awaits
    <3> QED
      BY <1>1, <3>1, <3>2
  <2> QED
    BY <2>1 DEF Awaited
<1> QED
  BY <1>2, <1>4, <1>5 DEF FlightInv

\* Who stops waiting takes its request along.
LEMMA AbandonFlight ==
    ASSUME ContractHolds, TypeInv, FlightInv, NEW p \in Procs, Abandon(p),
           now' = now, version' = version, pc'[p] \notin Dispatching \/
               (pc[p] \in Dispatching /\ eff'[p] = eff[p] /\ ver'[p] = ver[p]),
           \A q \in Procs \ {p} : /\ pc'[q] = pc[q] /\ eff'[q] = eff[q]
                                  /\ ver'[q] = ver[q] /\ ord'[q] = ord[q]
    PROVE  FlightInv'
<1>1. \A r \in requests : ~Lingers(r, now)
  BY DEF ContractHolds, Lingers, FlightInv, Awaited, TypeInv, TypeOK, TargetType,
     EnvType, Request
<1>2. requests' = {r \in requests : ~Awaits(p, r)}
  BY <1>1 DEF Abandon
<1>3. Awaited'
  BY <1>2 DEF FlightInv, Awaited, Awaits
<1>4. EdgeOwned'
  BY DEF FlightInv, EdgeOwned, Owner
<1> QED
  BY <1>2, <1>3, <1>4 DEF FlightInv, SingleFlight

LEMMA TargetFlight ==
    ASSUME TypeInv, FlightInv, TargetStep
    PROVE  FlightInv'
<1>1. PICK r \in requests, l \in {"committed", "ambiguous", "rejected"} :
        Answer(r, l) /\ now' = now
  BY DEF TargetStep, Commit, CommitUnconfirmed, Reject, Drop, Fault, env
<1>2. /\ requests' = requests \ {r} /\ UNCHANGED <<eff, ver, ord, version>>
      /\ \A q \in Procs : pc'[q] = IF Awaits(q, r) THEN l ELSE pc[q]
  BY <1>1 DEF Answer, ledger
<1>3. EdgeOwned'
  BY <1>2 DEF FlightInv, EdgeOwned, Owner, Awaits, Dispatching
<1>4. Awaited'
  <2> SUFFICES ASSUME NEW s \in requests, s # r
               PROVE  s.sent <= now /\ \E q \in Procs : Awaits(q, s)'
    BY <1>1, <1>2 DEF Awaited
  <2>1. PICK q \in Procs : Awaits(q, s) /\ s.sent <= now
    BY DEF FlightInv, Awaited
  <2>2. ~Awaits(q, r)
    BY <2>1 DEF FlightInv, SingleFlight, Awaits
  <2> QED
    BY <1>2, <2>1, <2>2 DEF Awaits
<1> QED
  BY <1>2, <1>3, <1>4 DEF FlightInv, SingleFlight

LEMMA CloseFlight ==
    ASSUME TypeInv, FencedInv, FlightInv, NEW p \in Procs,
           Settle(p) \/ Conclude(p)
    PROVE  FlightInv'
<1> DEFINE i == eff[p]
<1>1. /\ eff[p] # NoId /\ i \in Ids /\ Close(p) /\ pc[p] # "wait"
  BY DEF Settle, Conclude, TypeInv, TypeOK, LocalType
<1>2. /\ Write(i, Goal(p)) /\ Accepted(p) /\ UNCHANGED <<requests, now>>
      /\ pc'[p] \notin Dispatching
      /\ \A q \in Procs \ {p} : /\ pc'[q] = pc[q] /\ eff'[q] = eff[q]
                                /\ ver'[q] = ver[q] /\ ord'[q] = ord[q]
  <2>1. /\ Write(i, Goal(p)) /\ Accepted(p) /\ UNCHANGED <<requests, now>>
        /\ ord' = [ord EXCEPT ![p] = 0]
    BY <1>1 DEF Close, Finish, target, env
  <2>2. \A q \in Procs \ {p} : ord'[q] = ord[q]
    BY <2>1 DEF TypeInv, TypeOK, LocalType
  <2>3. /\ pc'[p] \in {"idle", "claimed", "listed"}
        /\ \A q \in Procs \ {p} : /\ pc'[q] = pc[q] /\ eff'[q] = eff[q]
                                  /\ ver'[q] = ver[q]
    BY <1>1, ClosedLabel
  <2>4. pc'[p] \notin Dispatching
    BY <2>3 DEF Dispatching
  <2> QED
    BY <2>1, <2>2, <2>3, <2>4
<1>3. \A q \in Procs \ {p} : pc[q] \in Dispatching => eff[q] # i
  <2> SUFFICES ASSUME NEW q \in Procs \ {p}, pc[q] \in Dispatching, eff[q] = i
               PROVE  FALSE
    OBVIOUS
  <2>1. status[i] = "dispatching" /\ ~Owner(p, i)
    BY <1>1, NotInFlight
  <2>2. pc[p] = "review"
    BY <1>2, <2>1
    DEF Accepted, Current, Owner, Settle, Conclude, Dispatching, Probing
  <2> QED
    BY <1>2, <2>1, <2>2 DEF Accepted, IsAllowed, Goal, Resolutions
<1>4. \A q \in Procs : Flies(q)
  <2>1. Flies(p)
    BY <1>1, <1>2 DEF Flies
  <2> QED
    BY <1>1, <1>2, <1>3, <2>1, WriteFlies
<1> QED
  BY <1>2, <1>4, KeepFlying

LEMMA StepFlight ==
    ASSUME TypeInv, FencedInv, FlightInv, NEW p \in Procs, Step(p)
    PROVE  FlightInv'
<1>0. eff[p] = NoId <=> pc[p] \in {"idle", "stopped"}
  BY DEF TypeInv, TypeOK, LocalType
<1>1. CASE (p \in Workers /\ ClaimDue(p)) \/ (p \in Reconcilers /\ List(p))
  <2>1. PICK S : TakeNext(p, S)
    BY <1>1 DEF ClaimDue, List
  <2>2. /\ pc'[p] \notin Dispatching /\ pc[p] # "wait"
        /\ \A q \in Procs \ {p} : /\ pc'[q] = pc[q] /\ eff'[q] = eff[q]
                                  /\ ver'[q] = ver[q]
        /\ ord' = ord /\ requests' = requests /\ now' = now
    BY <1>1, <2>1, TakeNextLabel
    DEF ClaimDue, List, Dispatching, target, env, TypeInv, TypeOK, LocalType
  <2>3. \A i \in Ids : status[i] = "dispatching" => version'[i] = version[i]
    BY <1>1, OldestInside
    DEF ClaimDue, List, ledger, Due, ClaimableStatuses, TypeInv, TypeOK, LedgerType
  <2>4. \A q \in Procs : pc[q] \in Dispatching => version'[eff[q]] = version[eff[q]]
    BY <2>3, NotInFlight DEF Dispatching, TypeInv, TypeOK, LocalType
  <2> QED
    BY <2>2, <2>4, KeepFlying DEF Flies
<1>2. CASE (p \in Reconcilers /\ Get(p)) \/ Probe(p) \/ StartAttempt(p)
  <2>1. \A q \in Procs : Flies(q)
    BY <1>2 DEF Flies, Get, Probe, StartAttempt, Route, Goto, Dispatching, ledger,
       TypeInv, TypeOK, LocalType
  <2> QED
    BY <1>2, <2>1, KeepFlying DEF Get, Probe, StartAttempt, target, env
<1>3. CASE BeginDispatch(p)
  BY <1>3, BeginDispatchFlight
<1>4. CASE Send(p)
  BY <1>4, SendFlight
<1>5. CASE Settle(p) \/ Conclude(p)
  BY <1>5, CloseFlight
<1>6. CASE BeginProbe(p)
  <2>1. /\ eff[p] # NoId /\ eff[p] \in Ids /\ Goal(p) = "reconciling"
        /\ pc[p] # "wait"
    BY <1>0, <1>6 DEF BeginProbe, Goal, TypeInv, TypeOK, LocalType
  <2>2. /\ Write(eff[p], "reconciling") /\ status[eff[p]] # "dispatching"
        /\ pc' = [pc EXCEPT ![p] = "probe"]
        /\ UNCHANGED <<eff, ord, requests, now>>
        /\ \A q \in Procs \ {p} : ver'[q] = ver[q]
    BY <1>6, <2>1
    DEF BeginProbe, Advance, Accepted, IsAllowed, Goto, target, env, TypeInv,
        TypeOK, LocalType
  <2>3. \A q \in Procs \ {p} : Flies(q)
    BY <2>1, <2>2, NotInFlight, WriteFlies DEF TypeInv, TypeOK, LocalType
  <2>4. Flies(p)
    BY <2>1, <2>2 DEF Flies, Dispatching, TypeInv, TypeOK, LocalType
  <2> QED
    BY <2>2, <2>3, <2>4, KeepFlying
<1>7. CASE Refused(p)
  <2>1. Stop(p) /\ pc[p] # "wait" /\ UNCHANGED <<version, requests, now>>
    BY <1>7 DEF Refused, Writing, ledger, target, env
  <2>2. \A q \in Procs \ {p} : ord'[q] = ord[q]
    BY <2>1 DEF Stop, TypeInv, TypeOK, LocalType
  <2> QED
    BY <2>1, <2>2, StopLabel, KeepFlying DEF Flies, Dispatching
<1> QED
  BY <1>1, <1>2, <1>3, <1>4, <1>5, <1>6, <1>7 DEF Step

LEMMA MishapFlight ==
    ASSUME ContractHolds, TypeInv, FlightInv, NEW p \in Procs,
           Mishap(p) \/ Restart(p)
    PROVE  FlightInv'
<1>1. UNCHANGED <<version, now>>
  BY DEF Mishap, AdapterFactoryFails, StoreFails, ProbeFails, Timeout, Crash,
     Restart, Fault, ledger, env
<1>2. CASE Stop(p)
  <2>1. \A q \in Procs \ {p} : ord'[q] = ord[q]
    BY <1>2 DEF Stop, TypeInv, TypeOK, LocalType
  <2>2. pc'[p] \notin Dispatching
    BY <1>2, StopLabel DEF Dispatching
  <2>3. CASE Abandon(p)
    BY <1>1, <1>2, <2>1, <2>2, <2>3, StopLabel, AbandonFlight
  <2>4. CASE ~Abandon(p)
    <3>1. requests' = requests /\ pc[p] # "wait"
      BY <1>2, <2>4, StopLabel
      DEF Mishap, AdapterFactoryFails, StoreFails, Calling, Writing, ProbeFails,
          Timeout, Crash, Restart, target
    <3> QED
      BY <1>1, <1>2, <2>1, <2>2, <3>1, StopLabel, KeepFlying DEF Flies
  <2> QED
    BY <2>3, <2>4
<1>3. CASE ~Stop(p)
  <2>1. /\ UNCHANGED <<eff, ver, ord>>
        /\ \/ /\ pc[p] \in {"send", "committed", "ambiguous"}
              /\ requests' = requests
              /\ pc' = [pc EXCEPT ![p] = "ambiguous"]
           \/ /\ pc[p] = "wait" /\ Abandon(p)
              /\ pc' = [pc EXCEPT ![p] = "ambiguous"]
           \/ /\ pc[p] = "stopped" /\ requests' = requests
              /\ pc' = [pc EXCEPT ![p] = "idle"]
    BY <1>3 DEF Mishap, AdapterFactoryFails, StoreFails, ProbeFails, Timeout,
       Crash, Restart, Goto, target
  <2>2. CASE Abandon(p) /\ pc[p] = "wait"
    BY <1>1, <2>1, <2>2, AbandonFlight DEF Dispatching, TypeInv, TypeOK, LocalType
  <2>3. CASE requests' = requests /\ pc[p] # "wait"
    <3>1. \A q \in Procs : Flies(q)
      BY <1>1, <2>1, <2>3 DEF Flies, Dispatching, TypeInv, TypeOK, LocalType
    <3> QED
      BY <1>1, <2>3, <3>1, KeepFlying
  <2> QED
    BY <2>1, <2>2, <2>3
<1> QED
  BY <1>2, <1>3

LEMMA CallersFlight ==
    ASSUME ContractHolds, TypeInv, FencedInv, FlightInv, Callers
    PROVE  FlightInv'
<1>1. PICK i \in Ids : \/ \E c \in Contracts : Submit(i, c)
                       \/ Cancel(i)
                       \/ \E s \in Resolutions : Resolve(i, s)
                       \/ MarkUnknown(i)
  BY DEF Callers
<1>2. UNCHANGED local /\ requests' = requests /\ now' = now
  BY <1>1 DEF Submit, Cancel, Resolve, MarkUnknown, Fault, target, env
<1>3. CASE \E c \in Contracts : Submit(i, c)
  BY <1>2, <1>3, KeepFlying DEF Flies, Submit, local
<1>4. CASE ~\E c \in Contracts : Submit(i, c)
  <2>1. PICK s : Write(i, s)
    BY <1>1, <1>4 DEF Cancel, Resolve, MarkUnknown
  <2>2. \A q \in Procs : pc[q] \in Dispatching => eff[q] # i
    <3>1. status[i] # "dispatching" \/ \A q \in Procs : ~Owner(q, i)
      BY <1>1, <1>4
      DEF Cancel, Resolve, MarkUnknown, ClaimableStatuses, Fault, ContractHolds
    <3> QED
      BY <3>1, NotInFlight
  <2> QED
    BY <1>2, <2>1, <2>2, WriteFlies, KeepFlying DEF local
<1> QED
  BY <1>3, <1>4

LEMMA FlightStep ==
    ASSUME ContractHolds, TypeInv, FencedInv, FlightInv, [Next]_vars
    PROVE  FlightInv'
<1>1. CASE Callers
  BY <1>1, CallersFlight
<1>2. CASE \E p \in Procs : Step(p) \/ Mishap(p) \/ Restart(p)
  BY <1>2, StepFlight, MishapFlight
<1>3. CASE \E h \in Handlers, i \in Ids : HandlerGet(h, i)
  <2>1. PICK h \in Handlers, i \in Ids : HandlerGet(h, i)
    BY <1>3
  <2>2. \A q \in Procs : Flies(q)
    BY <2>1 DEF Flies, HandlerGet, Route, Goto, Dispatching, ledger, Procs,
       TypeInv, TypeOK, LocalType
  <2> QED
    BY <2>1, <2>2, KeepFlying DEF HandlerGet, target, env
<1>4. CASE TargetStep
  BY <1>4, TargetFlight
<1>5. CASE Tick
  <2>1. /\ UNCHANGED <<pc, eff, ver, ord, version>> /\ now' = now + 1
        /\ requests' = requests
    BY <1>5 DEF Tick, ledger, local, FlightInv, Awaited
  <2>2. Awaited'
    BY <2>1 DEF FlightInv, Awaited, Awaits, TypeInv, TypeOK, EnvType, TargetType,
       Request
  <2> QED
    BY <2>1, <2>2 DEF FlightInv, EdgeOwned, Owner, SingleFlight
<1>6. CASE UNCHANGED vars
  BY <1>6, KeepFlying DEF Flies, vars, ledger, local, target, env
<1> QED
  BY <1>1, <1>2, <1>3, <1>4, <1>5, <1>6 DEF Next

\* While callers and their requests live and die together, workers, reconcilers
\* and API sessions never have two requests of one effect under way at once.
THEOREM OneInFlight == ASSUME ContractHolds PROVE Spec => []SingleFlight
<1> DEFINE IInv == TypeInv /\ FencedInv /\ FlightInv
<1>1. Init => IInv
  BY TypeInit, FencedInit, FlightInit
<1>2. IInv /\ [Next]_vars => IInv'
  BY TypeStep, FencedStep, FlightStep
<1>3. IInv => SingleFlight
  BY DEF FlightInv
<1> QED
  BY <1>1, <1>2, <1>3, PTL DEF Spec

-----------------------------------------------------------------------------
(* Performed once, and never denied *)

IsCareful(i) == status[i] # "absent" /\ contract[i].safety # "idempotent"

\* Where a process may yet make an effect happen or deny that it has.
Undone == {"attempt", "send", "wait", "rejected", "absent"}

\* An effect whose target cannot deduplicate waits for a dispatch, is in one
\* before its answer, or is denied only while it has not happened.
Clean(i) ==
    /\ status[i] \in ClaimableStatuses \cup {"cancelled"} => count[i] = 0
    /\ status[i] = "failed_final" /\ i \notin resolved => count[i] = 0
    /\ \A p \in Procs : eff[p] = i =>
          pc[p] # "redispatch" /\ (pc[p] = "claimed" => p \in Workers)
    /\ \A p \in Procs : Owner(p, i) /\ pc[p] \in Undone => count[i] = 0

\* The target still knows the key of what it performed.
KeyKept(i) ==
    /\ status[i] # "absent" /\ count[i] > 0 /\ KeysExpire
    /\ contract[i].safety \in {"idempotent", "transactional"}
    /\ contract[i].key_retention # NoDuration
    => keptUntil[i] >= MaxTime

OnceInv ==
    /\ now <= MaxTime
    /\ \A i \in Ids : /\ count[i] <= 1
                      /\ status[i] = "absent" => count[i] = 0
                      /\ i \in resolved => status[i] \in Resolutions
                      /\ KeyKept(i)
                      /\ IsCareful(i) => Clean(i)

LEMMA OnceInit == Init => OnceInv
BY NumbersAssumption DEF Init, OnceInv, IsCareful, KeyKept

\* p comes to i while nothing has happened or without a word on it, or goes on
\* before the answer.
Tame(p, i) ==
    eff'[p] = i =>
        \/ /\ pc'[p] \notin Undone \/ count[i] = 0
           /\ pc'[p] # "redispatch"
           /\ pc'[p] = "claimed" => p \in Workers
        \/ /\ eff[p] = i
           /\ pc'[p] = pc[p] \/ (pc[p] \in Undone /\ pc'[p] \in Undone)
           /\ ver'[p][i] = version'[i] => ver[p][i] = version[i]

\* What a status may become while the effect stays as it is.
Honest(i) ==
    /\ status'[i] \in ClaimableStatuses \cup {"cancelled"} => count[i] = 0
    /\ status'[i] = "failed_final" /\ i \notin resolved' => count[i] = 0

LEMMA SameClean ==
    ASSUME TypeInv, NEW i \in Ids, Clean(i), Honest(i), count'[i] = count[i],
           \A p \in Procs : Tame(p, i)
    PROVE  Clean(i)'
<1>1. \A p \in Procs : Owner(p, i)' /\ pc'[p] \in Undone => count[i] = 0
  BY DEF Clean, Tame, Owner, Undone, Dispatching, Probing
<1>2. \A p \in Procs : eff'[p] = i =>
         pc'[p] # "redispatch" /\ (pc'[p] = "claimed" => p \in Workers)
  BY DEF Clean, Tame, Undone
<1> QED
  BY <1>1, <1>2 DEF Clean, Honest

\* A step in which the target does nothing.
LEMMA SameOnce ==
    ASSUME TypeInv, OnceInv, UNCHANGED <<contract, count, keptUntil>>,
           now' <= MaxTime,
           \A i \in Ids : /\ status'[i] = "absent" <=> status[i] = "absent"
                          /\ i \in resolved' => status'[i] \in Resolutions
                          /\ IsCareful(i) => Honest(i)
                          /\ IsCareful(i) => \A p \in Procs : Tame(p, i)
    PROVE  OnceInv'
<1>1. ASSUME NEW i \in Ids, IsCareful(i)' PROVE Clean(i)'
  BY <1>1, SameClean DEF IsCareful, OnceInv
<1>2. \A i \in Ids : KeyKept(i)'
  BY DEF OnceInv, KeyKept
<1> QED
  BY <1>1, <1>2 DEF OnceInv

\* A step of processes alone.
LEMMA LocalOnce ==
    ASSUME TypeInv, OnceInv, UNCHANGED <<status, contract, resolved, count, keptUntil>>,
           now' <= MaxTime,
           \A i \in Ids, p \in Procs : IsCareful(i) => Tame(p, i)
    PROVE  OnceInv'
<1>1. \A i \in Ids : IsCareful(i) => Honest(i)
  BY DEF OnceInv, Clean, Honest
<1> QED
  BY <1>1, SameOnce DEF OnceInv

\* A transition outdates what anyone else holds of the effect.
LEMMA OutdatedTame ==
    ASSUME TypeInv, FencedInv, NEW i \in Ids, NEW s, Write(i, s)
    PROVE  /\ \A q \in Procs : ver[q][i] # version'[i]
           /\ \A j \in Ids \ {i} : version'[j] = version[j] /\ status'[j] = status[j]
           /\ status'[i] = s
           /\ UNCHANGED <<contract, attempts>>
           /\ \A q \in Procs, j \in Ids :
                 /\ pc'[q] = pc[q] /\ eff'[q] = eff[q] /\ ver'[q] = ver[q]
                 /\ IsCareful(j) => Clean(j)
                 => (IsCareful(j) => Tame(q, j))
<1>1. /\ \A q \in Procs : ver[q][i] # version'[i]
      /\ \A j \in Ids \ {i} : version'[j] = version[j] /\ status'[j] = status[j]
      /\ status'[i] = s
      /\ UNCHANGED <<contract, attempts>>
  BY DEF Write, FencedInv, VersionsHeld, TypeInv, TypeOK, LedgerType, LocalType
<1> QED
  BY <1>1 DEF Tame

\* A transition of the process that has the effect in hand.
LEMMA AcceptedOnce ==
    ASSUME TypeInv, FencedInv, OnceInv, NEW p \in Procs, eff[p] # NoId,
           Accepted(p), Write(eff[p], Goal(p)),
           UNCHANGED <<resolved, count, keptUntil, now>>,
           \A q \in Procs \ {p} : pc'[q] = pc[q] /\ eff'[q] = eff[q] /\ ver'[q] = ver[q],
           \A i \in Ids : IsCareful(i) => Tame(p, i)
    PROVE  OnceInv'
<1> DEFINE i == eff[p]
<1>1. i \in Ids /\ Write(i, Goal(p))
  BY DEF TypeInv, TypeOK, LocalType
<1>2. \A j \in Ids, q \in Procs : IsCareful(j) => Tame(q, j)
  BY <1>1, OutdatedTame DEF OnceInv
<1>3. /\ \A j \in Ids \ {i} : status'[j] = status[j]
      /\ status'[i] = Goal(p) /\ contract' = contract
  BY <1>1, OutdatedTame
<1>4. /\ status[i] # "absent" /\ Goal(p) # "absent" /\ i \notin resolved
      /\ Goal(p) # "cancelled"
  BY <1>1, GoalType DEF Accepted, IsAllowed, OnceInv, Goal, Resolutions, EffectStatus
<1>5. ASSUME IsCareful(i) PROVE Honest(i)
  <2>1. Goal(p) \in ClaimableStatuses \cup {"failed_final"} => count[i] = 0
    <3> SUFFICES ASSUME Goal(p) \in ClaimableStatuses \cup {"failed_final"}
                 PROVE  count[i] = 0
      OBVIOUS
    <3>1. pc[p] \in {"rejected", "absent"}
      BY DEF Goal, ClaimableStatuses
    <3>2. Owner(p, i) /\ pc[p] \in Undone
      BY <3>1 DEF Owner, Undone, Accepted, Current, Dispatching, Probing
    <3> QED
      BY <1>1, <1>5, <3>2 DEF OnceInv, Clean
  <2> QED
    BY <1>3, <1>4, <2>1 DEF Honest, ClaimableStatuses
<1>6. \A j \in Ids \ {i} : IsCareful(j) => Honest(j)
  BY <1>3 DEF OnceInv, Clean, Honest
<1>7. \A j \in Ids : /\ status'[j] = "absent" <=> status[j] = "absent"
                     /\ j \in resolved' => status'[j] \in Resolutions
  BY <1>3, <1>4 DEF OnceInv
<1> QED
  BY <1>1, <1>2, <1>3, <1>5, <1>6, <1>7, SameOnce DEF OnceInv

LEMMA StepOnce ==
    ASSUME TypeInv, FencedInv, OnceInv, NEW p \in Procs, Step(p)
    PROVE  OnceInv'
<1>0. eff[p] = NoId <=> pc[p] \in {"idle", "stopped"}
  BY DEF TypeInv, TypeOK, LocalType
<1>1. CASE (p \in Workers /\ ClaimDue(p)) \/ (p \in Reconcilers /\ List(p))
  <2>1. PICK S : TakeNext(p, S)
    BY <1>1 DEF ClaimDue, List
  <2>2. /\ pc'[p] \in {"idle", "claimed", "listed"}
        /\ pc'[p] = "claimed" => p \in Workers
    BY <2>1 DEF TakeNext, Goto, TypeInv, TypeOK, LocalType
  <2>3. /\ \A q \in Procs \ {p} : /\ pc'[q] = pc[q] /\ eff'[q] = eff[q]
                                  /\ ver'[q] = ver[q]
        /\ UNCHANGED <<status, contract, resolved, count, keptUntil, now>>
    BY <1>1, <2>1, TakeNextLabel
    DEF ClaimDue, List, ledger, target, env, TypeInv, TypeOK, LocalType
  <2>4. \A i \in Ids, q \in Procs : ver[q][i] = version'[i] => version[i] = version'[i]
    BY <1>1 DEF ClaimDue, List, ledger, FencedInv, VersionsHeld, TypeInv, TypeOK,
       LedgerType, LocalType
  <2>5. \A i \in Ids, q \in Procs : Tame(q, i)
    BY <2>2, <2>3, <2>4 DEF Tame, Undone
  <2> QED
    BY <2>3, <2>5, LocalOnce DEF OnceInv
<1>2. CASE (p \in Reconcilers /\ Get(p)) \/ StartAttempt(p) \/ Send(p)
  <2>1. \A i \in Ids : IsCareful(i) => Route(i) # "redispatch"
    BY DEF IsCareful, Route, RouteUnknown
  <2>2. \A i \in Ids : IsCareful(i) => Tame(p, i)
    BY <1>2, <2>1
    DEF Tame, Route, Undone, Get, StartAttempt, Send, Goto, ledger, TypeInv, TypeOK,
        LocalType
  <2>3. \A i \in Ids, q \in Procs \ {p} : Tame(q, i)
    BY <1>2 DEF Tame, Get, StartAttempt, Send, Goto, ledger, TypeInv, TypeOK,
       LocalType
  <2> QED
    BY <1>2, <2>2, <2>3, LocalOnce
    DEF Get, StartAttempt, Send, ledger, target, env, OnceInv
<1>3. CASE Probe(p)
  <2>1. eff[p] \in Ids /\ count[eff[p]] \in Nat /\ status[eff[p]] # "absent"
    BY <1>0, <1>3 DEF Probe, TypeInv, TypeOK, LocalType, TargetType, Reserved
  <2>2. ~Found(eff[p]) /\ ProvenAbsent(eff[p]) => count[eff[p]] = 0
    BY <2>1 DEF Found, ProvenAbsent
  <2>3. /\ pc'[p] \in {"found", "absent", "unproven"}
        /\ pc'[p] = "absent" => ~Found(eff[p]) /\ ProvenAbsent(eff[p])
        /\ \A q \in Procs \ {p} : pc'[q] = pc[q]
        /\ UNCHANGED <<ledger, eff, ver, ord, todo, target, env>>
    BY <1>3 DEF Probe, Goto, TypeInv, TypeOK, LocalType
  <2>4. \A i \in Ids, q \in Procs : Tame(q, i)
    BY <2>2, <2>3 DEF Tame, Undone, ledger
  <2> QED
    BY <2>3, <2>4, LocalOnce DEF ledger, target, env, OnceInv
<1>4. CASE BeginDispatch(p) \/ BeginProbe(p)
  <2>1. /\ eff[p] # NoId /\ Accepted(p) /\ Write(eff[p], Goal(p))
        /\ UNCHANGED <<resolved, count, keptUntil, now, eff>>
        /\ \A q \in Procs \ {p} : pc'[q] = pc[q] /\ ver'[q] = ver[q]
        /\ pc'[p] \in {"attempt", "probe"}
        /\ pc'[p] = "attempt" => BeginDispatch(p)
    BY <1>0, <1>4 DEF BeginDispatch, BeginProbe, Advance, Goto, target, env,
       TypeInv, TypeOK, LocalType
  <2>2. eff[p] \in Ids
    BY <2>1 DEF TypeInv, TypeOK, LocalType
  <2>3. ASSUME IsCareful(eff[p]), BeginDispatch(p) PROVE count[eff[p]] = 0
    <3>1. Clean(eff[p]) /\ pc[p] = "claimed" /\ p \in Workers
      BY <2>2, <2>3 DEF OnceInv, Clean, BeginDispatch
    <3>2. status[eff[p]] \in ClaimableStatuses
      BY <2>1, <2>2, <3>1 DEF FencedInv, ClaimCurrent, Accepted, Current
    <3> QED
      BY <3>1, <3>2 DEF Clean
  <2>4. \A i \in Ids : IsCareful(i) => Tame(p, i)
    BY <2>1, <2>3 DEF Tame, Undone
  <2> QED
    BY <2>1, <2>4, AcceptedOnce
<1>5. CASE Settle(p) \/ Conclude(p)
  <2>1. eff[p] # NoId /\ Close(p)
    BY <1>0, <1>5 DEF Settle, Conclude
  <2>2. /\ Accepted(p) /\ Write(eff[p], Goal(p))
        /\ UNCHANGED <<resolved, count, keptUntil, now>>
        /\ pc'[p] \in {"idle", "claimed", "listed"}
        /\ pc'[p] = "claimed" => p \in Workers
    BY <2>1, ClosedLabel
    DEF Close, Finish, TakeNext, Goto, target, env, TypeInv, TypeOK, LocalType
  <2>3. \A i \in Ids : Tame(p, i)
    BY <2>2 DEF Tame, Undone
  <2> QED
    BY <2>1, <2>2, <2>3, ClosedLabel, AcceptedOnce
<1>6. CASE Refused(p)
  <2>1. Stop(p) /\ UNCHANGED <<ledger, target, env>>
    BY <1>6 DEF Refused
  <2>2. \A i \in Ids, q \in Procs : Tame(q, i)
    BY <2>1, StopLabel DEF Tame, Undone, ledger
  <2> QED
    BY <2>1, <2>2, LocalOnce DEF ledger, target, env, OnceInv
<1> QED
  BY <1>1, <1>2, <1>3, <1>4, <1>5, <1>6 DEF Step

LEMMA MishapOnce ==
    ASSUME TypeInv, OnceInv, NEW p \in Procs, Mishap(p) \/ Restart(p)
    PROVE  OnceInv'
<1>1. UNCHANGED <<status, version, contract, resolved, count, keptUntil, now>>
  BY DEF Mishap, AdapterFactoryFails, StoreFails, ProbeFails, Timeout, Crash,
     Restart, Fault, ledger, target, env
<1>2. \A i \in Ids, q \in Procs : Tame(q, i)
  <2>1. CASE Stop(p)
    BY <1>1, <2>1, StopLabel DEF Tame, Undone
  <2>2. CASE (\E l \in {"ambiguous", "idle"} : Goto(p, l)) /\ UNCHANGED <<eff, ver>>
    BY <1>1, <2>2 DEF Goto, Tame, Undone, TypeInv, TypeOK, LocalType
  <2> QED
    BY <2>1, <2>2 DEF Mishap, AdapterFactoryFails, StoreFails, ProbeFails, Timeout,
       Crash, Restart
<1> QED
  BY <1>1, <1>2, LocalOnce DEF OnceInv

LEMMA CallersOnce ==
    ASSUME TypeInv, FencedInv, OnceInv, Callers
    PROVE  OnceInv'
<1>1. PICK i \in Ids : \/ \E c \in Contracts : Submit(i, c)
                       \/ Cancel(i)
                       \/ \E s \in Resolutions : Resolve(i, s)
                       \/ MarkUnknown(i)
  BY DEF Callers
<1>2. UNCHANGED local /\ UNCHANGED <<count, keptUntil, now>>
  BY <1>1 DEF Submit, Cancel, Resolve, MarkUnknown, Fault, target, env
<1>3. CASE \E c \in Contracts : Submit(i, c)
  <2>1. /\ status[i] = "absent" /\ status'[i] = "prepared" /\ resolved' = resolved
        /\ \A j \in Ids \ {i} : status'[j] = status[j] /\ contract'[j] = contract[j]
        /\ version' = version /\ i \notin resolved /\ count[i] = 0
    BY <1>3 DEF Submit, TypeInv, TypeOK, LedgerType, OnceInv, Resolutions
  <2>2. \A p \in Procs : eff[p] # i
    BY <2>1, NullsAssumption DEF TypeInv, Reserved
  <2>3. Clean(i)'
    BY <1>2, <2>1, <2>2 DEF Clean, Owner, local
  <2>4. ASSUME NEW j \in Ids \ {i}, IsCareful(j)' PROVE Clean(j)'
    <3>1. Clean(j)
      BY <2>1, <2>4 DEF IsCareful, OnceInv
    <3>2. Honest(j) /\ \A p \in Procs : Tame(p, j)
      BY <1>2, <2>1, <3>1 DEF Honest, Tame, Clean, local
    <3> QED
      BY <1>2, <3>1, <3>2, SameClean
  <2>5. \A j \in Ids : KeyKept(j)'
    BY <1>2, <2>1 DEF OnceInv, KeyKept
  <2> QED
    BY <1>2, <2>1, <2>3, <2>4, <2>5 DEF OnceInv
<1>4. CASE ~\E c \in Contracts : Submit(i, c)
  <2>1. PICK s \in Resolutions \cup {"cancelled", "outcome_unknown"} :
          /\ Write(i, s) /\ status[i] # "absent"
          /\ s = "cancelled" => status[i] \in ClaimableStatuses
          /\ s \in Resolutions => i \in resolved'
          /\ s \notin Resolutions => i \notin resolved
          /\ \A j \in Ids \ {i} : j \in resolved' <=> j \in resolved
          /\ s \notin Resolutions => resolved' = resolved
    <3>1. CASE Cancel(i)
      BY <3>1 DEF Cancel, ClaimableStatuses, OnceInv, Resolutions
    <3>2. CASE \E s \in Resolutions : Resolve(i, s)
      BY <3>2 DEF Resolve, Resolutions
    <3>3. CASE MarkUnknown(i)
      BY <3>3 DEF MarkUnknown, OnceInv, Resolutions
    <3> QED
      BY <1>1, <1>4, <3>1, <3>2, <3>3
  <2>2. /\ \A j \in Ids \ {i} : status'[j] = status[j]
        /\ status'[i] = s /\ contract' = contract
        /\ \A j \in Ids, p \in Procs : IsCareful(j) => Tame(p, j)
    BY <1>2, <2>1, OutdatedTame DEF local, OnceInv
  <2>3. \A j \in Ids : IsCareful(j) => Honest(j)
    BY <2>1, <2>2 DEF OnceInv, Clean, Honest, Resolutions, ClaimableStatuses
  <2>4. \A j \in Ids : /\ status'[j] = "absent" <=> status[j] = "absent"
                       /\ j \in resolved' => status'[j] \in Resolutions
    BY <2>1, <2>2 DEF OnceInv, Resolutions
  <2> QED
    BY <1>2, <2>2, <2>3, <2>4, SameOnce DEF OnceInv
<1> QED
  BY <1>3, <1>4

\* The target performs an effect only in the dispatch that waits for it.
LEMMA TargetOnce ==
    ASSUME ContractHolds, TypeInv, FencedInv, FlightInv, OnceInv, TargetStep
    PROVE  OnceInv'
<1>1. PICK r \in requests, l \in {"committed", "ambiguous", "rejected"} :
        /\ Answer(r, l) /\ now' = now
        /\ \/ UNCHANGED <<count, keptUntil>>
           \/ Perform(r.id) /\ l # "rejected"
  BY DEF TargetStep, Commit, CommitUnconfirmed, Reject, Drop, Fault, env
<1> DEFINE i == r.id
<1>2. /\ i \in Ids /\ status[i] # "absent"
      /\ UNCHANGED <<status, version, contract, resolved, eff, ver>>
      /\ \A q \in Procs : pc'[q] = IF Awaits(q, r) THEN l ELSE pc[q]
  BY <1>1 DEF Answer, ledger, TypeInv, TypeOK, TargetType, Request, Reserved
<1>3. \A j \in Ids, q \in Procs : IsCareful(j) => Tame(q, j)
  BY <1>1, <1>2 DEF Tame, Awaits, Undone, OnceInv, Clean
<1>4. PICK a \in Procs : Awaits(a, r)
  BY DEF FlightInv, Awaited
<1>5. /\ Owner(a, i) /\ status[i] = "dispatching"
      /\ \A q \in Procs : Owner(q, i) => q = a
  BY <1>2, <1>4, NotInFlight DEF Awaits, Dispatching
<1>6. CASE UNCHANGED <<count, keptUntil>>
  BY <1>1, <1>2, <1>3, <1>6, LocalOnce DEF OnceInv
<1>7. CASE Perform(i) /\ ~Deduplicated(i) /\ l # "rejected"
  <2>1. /\ count'[i] = count[i] + 1 /\ keptUntil'[i] = now + contract[i].key_retention
        /\ \A j \in Ids \ {i} : count'[j] = count[j] /\ keptUntil'[j] = keptUntil[j]
        /\ now \in Nat /\ contract[i] \in Contracts /\ count[i] \in Nat
    BY <1>2, <1>7
    DEF Perform, TypeInv, TypeOK, TargetType, EnvType, LedgerType
  <2>2. count[i] = 0
    <3>1. CASE IsCareful(i)
      BY <1>2, <1>4, <1>5, <3>1 DEF OnceInv, Clean, Awaits, Undone
    <3>2. CASE ~IsCareful(i)
      <4>1. contract[i].safety = "idempotent"
        BY <1>2, <3>2 DEF IsCareful
      <4>2. count[i] > 0 => KeysExpire /\ contract[i].key_retention # NoDuration
                              /\ ~(now <= keptUntil[i])
        BY <1>7, <4>1 DEF Deduplicated
      <4>3. count[i] > 0 => keptUntil[i] >= MaxTime /\ now <= MaxTime
        BY <1>2, <4>1, <4>2 DEF OnceInv, KeyKept
      <4>4. keptUntil[i] \in Int /\ MaxTime \in Nat
        BY <1>2, NumbersAssumption DEF TypeInv, TypeOK, TargetType
      <4> QED
        BY <2>1, <4>2, <4>3, <4>4
    <3> QED
      BY <3>1, <3>2
  <2>3. KeyKept(i)'
    <3>1. KeysExpire /\ contract[i].safety \in {"idempotent", "transactional"}
            /\ contract[i].key_retention # NoDuration
          => contract[i].key_retention >= MaxTime
      BY <2>1 DEF ContractHolds
    <3>2. contract[i].key_retention \in Int /\ MaxTime \in Nat
      BY <2>1, ContractsAssumption, NumbersAssumption DEF ValidContract, EffectContract
    <3> QED
      BY <1>2, <2>1, <3>1, <3>2 DEF KeyKept
  <2>4. IsCareful(i) => Clean(i)'
    <3>1. \A q \in Procs : Owner(q, i)' => q = a
      BY <1>2, <1>4, <1>5 DEF Owner, Awaits, Dispatching, Probing
    <3>2. pc'[a] = l /\ l \notin Undone
      BY <1>2, <1>4, <1>7 DEF Undone
    <3>3. IsCareful(i) => \A q \in Procs : eff'[q] = i =>
            pc'[q] # "redispatch" /\ (pc'[q] = "claimed" => q \in Workers)
      BY <1>2 DEF OnceInv, Clean
    <3> QED
      BY <1>2, <1>5, <3>1, <3>2, <3>3 DEF Clean, ClaimableStatuses
  <2>5. ASSUME NEW j \in Ids \ {i}, IsCareful(j) PROVE Clean(j)'
    <3>1. Clean(j) /\ Honest(j)
      BY <1>2, <2>5 DEF OnceInv, Clean, Honest
    <3> QED
      BY <1>3, <2>1, <2>5, <3>1, SameClean
  <2>6. \A j \in Ids \ {i} : KeyKept(j)'
    BY <1>2, <2>1 DEF OnceInv, KeyKept
  <2> QED
    BY <1>1, <1>2, <2>1, <2>2, <2>3, <2>4, <2>5, <2>6 DEF OnceInv, IsCareful
<1> QED
  BY <1>1, <1>6, <1>7 DEF Perform

LEMMA OnceStep ==
    ASSUME ContractHolds, TypeInv, FencedInv, FlightInv, OnceInv, [Next]_vars
    PROVE  OnceInv'
<1>1. CASE Callers
  BY <1>1, CallersOnce
<1>2. CASE \E p \in Procs : Step(p) \/ Mishap(p) \/ Restart(p)
  BY <1>2, StepOnce, MishapOnce
<1>3. CASE \E h \in Handlers, i \in Ids : HandlerGet(h, i)
  <2>1. PICK h \in Handlers, i \in Ids : HandlerGet(h, i)
    BY <1>3
  <2>2. Route(i) = "redispatch" => ~IsCareful(i)
    BY DEF IsCareful, Route, RouteUnknown
  <2>3. \A j \in Ids, q \in Procs : IsCareful(j) => Tame(q, j)
    BY <2>1, <2>2 DEF Tame, HandlerGet, Route, Undone, Goto, ledger, Procs,
       TypeInv, TypeOK, LocalType
  <2> QED
    BY <2>1, <2>3, LocalOnce DEF HandlerGet, ledger, target, env, OnceInv
<1>4. CASE TargetStep
  BY <1>4, TargetOnce
<1>5. CASE Tick \/ UNCHANGED vars
  <2>1. /\ \A j \in Ids, q \in Procs : Tame(q, j)
        /\ UNCHANGED <<status, contract, resolved, count, keptUntil>>
        /\ now' <= MaxTime
    BY <1>5, NumbersAssumption DEF Tame, Tick, vars, ledger, local, target, env,
       OnceInv, TypeInv, TypeOK, EnvType
  <2> QED
    BY <2>1, LocalOnce
<1> QED
  BY <1>1, <1>2, <1>3, <1>4, <1>5 DEF Next

ContractInv == TypeInv /\ FencedInv /\ FlightInv /\ OnceInv /\ SuccessInv

LEMMA ContractInvInit == Init => ContractInv
BY TypeInit, FencedInit, FlightInit, OnceInit, SuccessInit DEF ContractInv

LEMMA ContractInvStep ==
    ASSUME ContractHolds, ContractInv, [Next]_vars PROVE ContractInv'
BY TypeStep, FencedStep, FlightStep, OnceStep, SuccessStep DEF ContractInv

\* Nothing of i is on its way unless the ledger says so.
LEMMA OnItsWay ==
    ASSUME ContractInv, NEW r \in requests
    PROVE  status[r.id] = "dispatching"
           /\ \E p \in Procs : Awaits(p, r) /\ Owner(p, r.id)
<1>1. PICK p \in Procs : Awaits(p, r)
  BY DEF ContractInv, FlightInv, Awaited
<1>2. r.id \in Ids
  BY DEF ContractInv, TypeInv, TypeOK, TargetType, Request
<1> QED
  BY <1>1, <1>2, NotInFlight DEF ContractInv, Awaits, Dispatching

\* The README's guarantee table: one observable effect per class while the
\* class's contract holds.
THEOREM OneEffect == ASSUME ContractHolds PROVE Spec => []NoDuplicate
<1>1. ContractInv /\ [Next]_vars => ContractInv'
  BY ContractInvStep
<1>2. ContractInv => NoDuplicate
  BY DEF ContractInv, OnceInv, NoDuplicate
<1> QED
  BY <1>1, <1>2, ContractInvInit, PTL DEF Spec

\* A terminal failure or cancellation the broker wrote is the truth for every
\* class but the idempotent one: nothing happened, and nothing on its way could.
THEOREM FailureIsReal == ASSUME ContractHolds PROVE Spec => []NoFalseFailure
<1>1. ContractInv /\ [Next]_vars => ContractInv'
  BY ContractInvStep
<1>2. ContractInv => NoFalseFailure
  <2> SUFFICES ASSUME ContractInv, NEW i \in Ids,
                      status[i] \in {"failed_final", "cancelled"},
                      i \notin resolved, contract[i].safety # "idempotent"
               PROVE  count[i] = 0 /\ \A r \in requests : r.id # i
    BY DEF NoFalseFailure
  <2>1. Clean(i)
    BY DEF ContractInv, OnceInv, IsCareful
  <2> QED
    BY <2>1, OnItsWay DEF Clean
<1> QED
  BY <1>1, <1>2, ContractInvInit, PTL DEF Spec

\* A new attempt on an effect whose target cannot deduplicate starts only when
\* every earlier one is known not to have committed (statemachine.py).
THEOREM RetriesSee == ASSUME ContractHolds PROVE Spec => NoBlindRetry
<1> DEFINE Blind == \A i \in Ids :
             attempts'[i] > attempts[i] /\ contract[i].safety # "idempotent"
                 => count[i] = 0 /\ \A r \in requests : r.id # i
<1>1. ContractInv /\ [Next]_vars => ContractInv'
  BY ContractInvStep
<1>2. ContractInv /\ [Next]_vars => [Blind]_vars
  <2> SUFFICES ASSUME ContractInv, [Next]_vars, NEW i \in Ids,
                      attempts'[i] > attempts[i], contract[i].safety # "idempotent"
               PROVE  count[i] = 0 /\ \A r \in requests : r.id # i
    OBVIOUS
  <2>1. attempts[i] \in Nat
    BY DEF ContractInv, TypeInv, TypeOK, LedgerType
  <2>2. attempts' # attempts
    BY <2>1
  <2>3. PICK p \in Procs : StartAttempt(p)
    BY <2>2
    DEF Next, Callers, Submit, Cancel, Resolve, MarkUnknown, Write, Step, ClaimDue,
        List, Get, BeginDispatch, Send, Settle, BeginProbe, Probe, Conclude, Refused,
        Advance, Close, Mishap, AdapterFactoryFails, StoreFails, ProbeFails, Timeout,
        Crash, Restart, HandlerGet, TargetStep, Commit, CommitUnconfirmed, Reject,
        Drop, Answer, Tick, vars, ledger
  <2>4. eff[p] = i /\ Owner(p, i) /\ pc[p] = "attempt" /\ status[i] # "absent"
    BY <2>1, <2>3
    DEF StartAttempt, Owner, Current, Dispatching, ContractInv, TypeInv, TypeOK,
        LedgerType, LocalType, Reserved
  <2>5. count[i] = 0
    BY <2>4 DEF ContractInv, OnceInv, IsCareful, Clean, Undone
  <2>6. \A r \in requests : r.id # i
    BY <2>4, OnItsWay, NotInFlight DEF ContractInv, Awaits, Dispatching
  <2> QED
    BY <2>5, <2>6
<1> QED
  BY <1>1, <1>2, ContractInvInit, PTL DEF Spec, NoBlindRetry

-----------------------------------------------------------------------------
(* The refinement *)

\* What a step may do to what was told of i and to how often it was performed.
Kept(i) ==
    \/ Verdict(i)' = Verdict(i) /\ count'[i] = count[i]
    \/ /\ count'[i] = count[i]
       /\ \/ Verdict(i) = "none" /\ Verdict(i)' = "open"
          \/ Verdict(i) = "open" /\ Verdict(i)' = "succeeded" /\ count[i] = 1
          \/ Verdict(i) = "open" /\ Verdict(i)' = "void" /\ count[i] = 0
          \/ Verdict(i) = "open" /\ Verdict(i)' = "human"
          \/ Verdict(i) = "human" /\ Verdict(i)' = "decided"
    \/ /\ Verdict(i) = "open" /\ Verdict(i)' = "open"
       /\ count[i] = 0 /\ count'[i] = 1

Same(i) == Verdict(i)' = Verdict(i) /\ count'[i] = count[i]

\* At most one effect moves.
KeptAll == \E i \in Ids : Kept(i) /\ \A j \in Ids \ {i} : Same(j)

LEMMA KeptIsPromised ==
    ASSUME TypeInv, TypeInv', KeptAll \/ \A i \in Ids : Same(i)
    PROVE  [Promise!PromiseNext]_<<[i \in Ids |-> Verdict(i)], count>>
<1> DEFINE V == [i \in Ids |-> Verdict(i)]
<1>0. count = [i \in Ids |-> count[i]] /\ count' = [i \in Ids |-> count'[i]]
  BY DEF TypeInv, TypeOK, TargetType
<1>1. CASE \A i \in Ids : Same(i)
  BY <1>0, <1>1 DEF Same
<1>2. CASE KeptAll
  <2>1. PICK i \in Ids : Kept(i) /\ \A j \in Ids \ {i} : Same(j)
    BY <1>2 DEF KeptAll
  <2>2. /\ V' = [V EXCEPT ![i] = Verdict(i)']
        /\ count' = [count EXCEPT ![i] = count'[i]]
        /\ V[i] = Verdict(i)
    BY <1>0, <2>1 DEF Same
  <2>3. CASE count'[i] = count[i]
    <3>1. count' = count
      BY <1>0, <2>1, <2>3 DEF Same
    <3>2. CASE Verdict(i)' = Verdict(i)
      BY <2>2, <3>1, <3>2
    <3>3. CASE Verdict(i) = "none" /\ Verdict(i)' = "open"
      BY <2>2, <3>1, <3>3 DEF Promise!PromiseNext, Promise!Accept, Promise!Say
    <3>4. CASE Verdict(i) = "open" /\ Verdict(i)' = "succeeded" /\ count[i] = 1
      BY <2>2, <3>1, <3>4 DEF Promise!PromiseNext, Promise!Succeed, Promise!Say
    <3>5. CASE Verdict(i) = "open" /\ Verdict(i)' = "void" /\ count[i] = 0
      BY <2>2, <3>1, <3>5 DEF Promise!PromiseNext, Promise!Void, Promise!Say
    <3>6. CASE Verdict(i) = "open" /\ Verdict(i)' = "human"
      BY <2>2, <3>1, <3>6 DEF Promise!PromiseNext, Promise!HandOver, Promise!Say
    <3>7. CASE Verdict(i) = "human" /\ Verdict(i)' = "decided"
      BY <2>2, <3>1, <3>7 DEF Promise!PromiseNext, Promise!Decide, Promise!Say
    <3> QED
      BY <2>1, <2>3, <3>2, <3>3, <3>4, <3>5, <3>6, <3>7 DEF Kept
  <2>4. CASE /\ Verdict(i) = "open" /\ Verdict(i)' = "open"
             /\ count[i] = 0 /\ count'[i] = 1
    <3>1. V' = V
      BY <2>1, <2>4 DEF Same
    <3>2. Promise!Perform(i)
      BY <2>2, <2>4, <3>1 DEF Promise!Perform
    <3> QED
      BY <3>2 DEF Promise!PromiseNext
  <2> QED
    BY <2>1, <2>3, <2>4 DEF Kept
<1> QED
  BY <1>1, <1>2

LEMMA SameVerdict ==
    ASSUME NEW i \in Ids, status'[i] = status[i], contract'[i] = contract[i],
           i \in resolved' <=> i \in resolved, count'[i] = count[i]
    PROVE  Same(i)
BY DEF Same, Verdict

\* What the transition of a process tells.
LEMMA AcceptedKept ==
    ASSUME ContractInv, NEW p \in Procs, NEW i \in Ids, eff[p] = i, Accepted(p),
           Write(i, Goal(p)), UNCHANGED <<resolved, count>>
    PROVE  KeptAll
<1>1. IsAllowed(status[i], Goal(p)) /\ ver[p][i] = version[i]
  BY DEF Accepted, Current
<1>2. /\ status'[i] = Goal(p) /\ contract' = contract
      /\ \A j \in Ids \ {i} : status'[j] = status[j]
  BY <1>1, OutdatedTame DEF ContractInv
<1>3. pc[p] \in Dispatching \cup Probing => status[i] \in {"dispatching", "reconciling"}
  BY <1>1 DEF ContractInv, FencedInv, Fenced, Owner
<1>4. status[i] \notin {"manual_review", "absent"} \cup TerminalStatuses
  BY <1>1, <1>3
  DEF IsAllowed, Goal, Resolutions, TerminalStatuses, Dispatching, Probing
<1>5. i \notin resolved
  BY <1>1, <1>4 DEF ContractInv, OnceInv, Resolutions, TerminalStatuses
<1>6. Verdict(i) = "open"
  BY <1>4, <1>5 DEF Verdict, TerminalStatuses
<1>7. Kept(i)
  <2>1. CASE Goal(p) \in {"dispatching", "reconciling", "outcome_unknown",
                          "prepared", "retryable"}
    <3>1. Verdict(i)' = "open"
      BY <1>2, <1>5, <2>1 DEF Verdict
    <3> QED
      BY <1>6, <3>1 DEF Kept
  <2>2. CASE Goal(p) = "succeeded"
    <3>1. count[i] > 0 /\ count[i] <= 1 /\ count[i] \in Nat
      BY <1>1, <2>2, GoalSuccess
      DEF ContractInv, OnceInv, TypeInv, TypeOK, TargetType
    <3>2. Verdict(i)' = "succeeded"
      BY <1>2, <1>5, <2>2 DEF Verdict
    <3> QED
      BY <1>6, <3>1, <3>2 DEF Kept
  <2>3. CASE Goal(p) = "failed_final"
    <3>1. pc[p] = "rejected"
      BY <2>3 DEF Goal
    <3>2. IsCareful(i) => count[i] = 0
      BY <1>1, <3>1 DEF ContractInv, OnceInv, Clean, Owner, Undone, Dispatching
    <3>3. Verdict(i)' = IF contract[i].safety = "idempotent" THEN "human" ELSE "void"
      BY <1>2, <1>5, <2>3 DEF Verdict
    <3> QED
      BY <1>4, <1>6, <3>2, <3>3 DEF Kept, IsCareful
  <2>4. CASE Goal(p) = "manual_review"
    <3>1. Verdict(i)' = "human"
      BY <1>2, <1>5, <2>4 DEF Verdict
    <3> QED
      BY <1>6, <3>1 DEF Kept
  <2> QED
    BY <2>1, <2>2, <2>3, <2>4 DEF Goal
<1> QED
  BY <1>1, <1>2, <1>7, SameVerdict DEF KeptAll

LEMMA CallersKept ==
    ASSUME ContractInv, Callers
    PROVE  KeptAll
<1>1. PICK i \in Ids : \/ \E c \in Contracts : Submit(i, c)
                       \/ Cancel(i)
                       \/ \E s \in Resolutions : Resolve(i, s)
                       \/ MarkUnknown(i)
  BY DEF Callers
<1>2. /\ count' = count
      /\ \A j \in Ids \ {i} : /\ status'[j] = status[j] /\ contract'[j] = contract[j]
                              /\ j \in resolved' <=> j \in resolved
  BY <1>1 DEF Submit, Cancel, Resolve, MarkUnknown, Write, target, ContractInv,
     TypeInv, TypeOK, LedgerType
<1>3. i \in resolved => status[i] \in Resolutions
  BY DEF ContractInv, OnceInv
<1>4. Kept(i)
  <2>1. CASE \E c \in Contracts : Submit(i, c)
    BY <1>2, <1>3, <2>1 DEF Submit, Kept, Verdict, Resolutions, ContractInv, TypeInv,
       TypeOK, LedgerType
  <2>2. CASE Cancel(i)
    <3>1. /\ status[i] \in ClaimableStatuses /\ status'[i] = "cancelled"
          /\ i \notin resolved /\ resolved' = resolved /\ contract' = contract
      BY <1>3, <2>2 DEF Cancel, Write, ClaimableStatuses, Resolutions, ContractInv,
         TypeInv, TypeOK, LedgerType
    <3>2. IsCareful(i) => count[i] = 0
      BY <3>1 DEF ContractInv, OnceInv, Clean
    <3> QED
      BY <1>2, <3>1, <3>2 DEF Kept, Verdict, IsCareful, ClaimableStatuses
  <2>3. CASE \E s \in Resolutions : Resolve(i, s)
    <3>1. PICK s \in Resolutions : Resolve(i, s)
      BY <2>3
    <3>2. status[i] = "manual_review" /\ i \notin resolved /\ Verdict(i) = "human"
      BY <1>3, <3>1 DEF Resolve, Resolutions, Verdict
    <3>3. status'[i] = s /\ i \in resolved' /\ s # "absent"
      BY <3>1 DEF Resolve, Write, Resolutions, ContractInv, TypeInv, TypeOK,
         LedgerType
    <3>4. Verdict(i)' = "decided"
      BY <3>3 DEF Verdict
    <3> QED
      BY <1>2, <3>2, <3>4 DEF Kept
  <2>4. CASE MarkUnknown(i)
    BY <1>2, <1>3, <2>4 DEF MarkUnknown, Write, Kept, Verdict, Resolutions,
       ContractInv, TypeInv, TypeOK, LedgerType
  <2> QED
    BY <1>1, <2>1, <2>2, <2>3, <2>4
<1> QED
  BY <1>2, <1>4, SameVerdict DEF KeptAll

LEMMA TargetKept ==
    ASSUME ContractHolds, ContractInv, ContractInv', TargetStep
    PROVE  KeptAll
<1>1. PICK r \in requests, l \in {"committed", "ambiguous", "rejected"} :
        Answer(r, l) /\ (Perform(r.id) \/ UNCHANGED count)
  BY DEF TargetStep, Commit, CommitUnconfirmed, Reject, Drop
<1> DEFINE i == r.id
<1>2. /\ i \in Ids /\ UNCHANGED <<status, contract, resolved>>
      /\ status[i] = "dispatching" /\ i \notin resolved
  BY <1>1, OnItsWay DEF Answer, ledger, ContractInv, TypeInv, TypeOK, TargetType,
     Request, OnceInv, Resolutions
<1>3. Verdict(i) = "open" /\ Verdict(i)' = "open"
  BY <1>2 DEF Verdict
<1>4. /\ \A j \in Ids \ {i} : count'[j] = count[j]
      /\ count'[i] = count[i] \/ count'[i] = count[i] + 1
  BY <1>1, <1>2 DEF Perform, ContractInv, TypeInv, TypeOK, TargetType
<1>5. count[i] \in Nat /\ count'[i] <= 1
  BY <1>2 DEF ContractInv, TypeInv, TypeOK, TargetType, OnceInv
<1>6. Kept(i)
  BY <1>3, <1>4, <1>5 DEF Kept
<1> QED
  BY <1>2, <1>4, <1>6, SameVerdict DEF KeptAll

LEMMA StepKept ==
    ASSUME ContractHolds, ContractInv, ContractInv', [Next]_vars
    PROVE  KeptAll \/ \A i \in Ids : Same(i)
<1>1. CASE Callers
  BY <1>1, CallersKept
<1>2. CASE TargetStep
  BY <1>2, TargetKept
<1>3. CASE \E p \in Procs : BeginDispatch(p) \/ BeginProbe(p) \/ Settle(p) \/ Conclude(p)
  <2>1. PICK p \in Procs : BeginDispatch(p) \/ BeginProbe(p) \/ Settle(p) \/ Conclude(p)
    BY <1>3
  <2>2. /\ eff[p] \in Ids /\ Accepted(p) /\ Write(eff[p], Goal(p))
        /\ UNCHANGED <<resolved, count>>
    BY <2>1 DEF BeginDispatch, BeginProbe, Settle, Conclude, Advance, Close, target,
       ContractInv, TypeInv, TypeOK, LocalType
  <2> QED
    BY <2>2, AcceptedKept
<1>4. CASE UNCHANGED <<status, contract, resolved, count>>
  BY <1>4, SameVerdict
<1>5. CASE \E p \in Procs : Mishap(p) \/ Restart(p)
  BY <1>4, <1>5 DEF Mishap, AdapterFactoryFails, StoreFails, ProbeFails, Timeout,
     Crash, Restart, ledger, target
<1>6. CASE \E p \in Procs : \/ ClaimDue(p) \/ List(p) \/ Get(p) \/ StartAttempt(p)
                            \/ Send(p) \/ Probe(p) \/ Refused(p)
  BY <1>4, <1>6 DEF ClaimDue, List, Get, StartAttempt, Send, Probe, Refused, ledger,
     target
<1>7. CASE (\E h \in Handlers, i \in Ids : HandlerGet(h, i)) \/ Tick \/ UNCHANGED vars
  BY <1>4, <1>7 DEF HandlerGet, Tick, vars, ledger, target
<1> QED
  BY <1>1, <1>2, <1>3, <1>5, <1>6, <1>7 DEF Next, Step

\* The broker with any number of workers, reconcilers and API sessions
\* implements the promise made to the caller while the contracts hold.
THEOREM BrokerKeepsPromise == ASSUME ContractHolds PROVE Spec => KeepsPromise
<1>1. ContractInv /\ [Next]_vars => ContractInv'
  BY ContractInvStep
<1>2. Init => Promise!PromiseInit
  BY DEF Init, Promise!PromiseInit, Verdict
<1>3. ContractInv /\ ContractInv' /\ [Next]_vars
        => [Promise!PromiseNext]_<<[i \in Ids |-> Verdict(i)], count>>
  BY StepKept, KeptIsPromised DEF ContractInv
<1> QED
  BY <1>1, <1>2, <1>3, ContractInvInit, PTL
  DEF Spec, KeepsPromise, Promise!PromiseSpec

=============================================================================
