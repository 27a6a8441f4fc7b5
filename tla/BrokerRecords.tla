----------------------------- MODULE BrokerRecords -----------------------------
(***************************************************************************)
(* The attempt rows and what else the broker leaves on record, for every   *)
(* value of the constants.  WriteAhead: a row is spent on one thing at a   *)
(* time, a process that is about to send, the request it sent, or what the *)
(* target performed; there may be any number of processes, but only        *)
(* finitely many of them are ever about to send.  RetryBudget: the worker  *)
(* compares the ordinal it was given with the limit, and that bounds the   *)
(* attempts of a transactional effect over all its workers, crashes and    *)
(* reconciliations, because nothing but a counted rejection leads it back  *)
(* to a dispatch.  LedgerIsKept: every step of the broker is one call that *)
(* EffectLedger allows, or none; each attempt row has a DISPATCHING edge   *)
(* of its own in the trail, and a receipt is the last word on its effect.  *)
(***************************************************************************)
EXTENDS BrokerLedger, BrokerFencing, FiniteSetTheorems

-----------------------------------------------------------------------------
(* Write-ahead *)

Senders(i) == {p \in Procs : pc[p] = "send" /\ eff[p] = i}
Sent(i) == {r \in requests : r.id = i}

\* The attempts of i cover those that will send, what they sent and its effects.
Covered(i) ==
    /\ IsFiniteSet(Senders(i)) /\ IsFiniteSet(Sent(i))
    /\ count[i] + Cardinality(Sent(i)) + Cardinality(Senders(i)) <= attempts[i]

AheadInv == \A i \in Ids : Covered(i)

-----------------------------------------------------------------------------
LEMMA AheadInit == Init => AheadInv
<1> SUFFICES ASSUME Init, NEW i \in Ids PROVE Covered(i)
  BY DEF AheadInv
<1>1. Senders(i) = {} /\ Sent(i) = {}
  BY DEF Init, Senders, Sent
<1> QED
  BY <1>1, FS_EmptySet DEF Init, Covered

\* What the invariant says in numbers.
LEMMA CoveredNumbers ==
    ASSUME TypeInv, NEW i \in Ids, Covered(i)
    PROVE  /\ Cardinality(Senders(i)) \in Nat /\ Cardinality(Sent(i)) \in Nat
           /\ count[i] \in Nat /\ attempts[i] \in Nat
BY FS_CardinalityType DEF Covered, TypeInv, TypeOK, LedgerType, TargetType

\* A step that lets nobody send, sends nothing and performs nothing.
LEMMA LessAhead ==
    ASSUME TypeInv, NEW i \in Ids, Covered(i),
           attempts'[i] = attempts[i], count'[i] = count[i],
           requests' \subseteq requests,
           \A p \in Procs : pc'[p] = "send" => pc[p] = "send" /\ eff'[p] = eff[p]
    PROVE  Covered(i)'
<1>1. Senders(i)' \in SUBSET Senders(i) /\ Sent(i)' \in SUBSET Sent(i)
  BY DEF Senders, Sent
<1>2. /\ IsFiniteSet(Senders(i)') /\ IsFiniteSet(Sent(i)')
      /\ Cardinality(Senders(i)') <= Cardinality(Senders(i))
      /\ Cardinality(Sent(i)') <= Cardinality(Sent(i))
  BY <1>1, FS_Subset DEF Covered
<1>3. Cardinality(Senders(i)') \in Nat /\ Cardinality(Sent(i)') \in Nat
  BY <1>2, FS_CardinalityType
<1> QED
  BY <1>2, <1>3, CoveredNumbers DEF Covered

LEMMA QuietAhead ==
    ASSUME TypeInv, AheadInv, UNCHANGED <<attempts, count>>,
           requests' \subseteq requests,
           \A p \in Procs : pc'[p] = "send" => pc[p] = "send" /\ eff'[p] = eff[p]
    PROVE  AheadInv'
BY LessAhead DEF AheadInv

-----------------------------------------------------------------------------
(* The attempt, the request, the answer *)

LEMMA StartAttemptAhead ==
    ASSUME TypeInv, AheadInv, NEW p \in Procs, StartAttempt(p)
    PROVE  AheadInv'
<1> SUFFICES ASSUME NEW i \in Ids PROVE Covered(i)'
  BY DEF AheadInv
<1>0. Covered(i) /\ eff[p] \in Ids
  BY DEF AheadInv, StartAttempt, TypeInv, TypeOK, LocalType
<1>1. /\ \A q \in Procs : pc'[q] = IF q = p THEN "send" ELSE pc[q]
      /\ eff' = eff /\ requests' = requests /\ count' = count
      /\ attempts'[i] = IF i = eff[p] THEN attempts[i] + 1 ELSE attempts[i]
  BY <1>0 DEF StartAttempt, Goto, TypeInv, TypeOK, LocalType, LedgerType, target
<1>2. CASE i # eff[p]
  <2>1. Senders(i)' = Senders(i) /\ Sent(i)' = Sent(i)
    BY <1>1, <1>2 DEF Senders, Sent, StartAttempt
  <2> QED
    BY <1>0, <1>1, <1>2, <2>1 DEF Covered
<1>3. CASE i = eff[p]
  <2>1. Senders(i)' = Senders(i) \cup {p} /\ Sent(i)' = Sent(i)
    BY <1>1, <1>3 DEF Senders, Sent
  <2>2. Cardinality(Senders(i)) \in Nat /\ IsFiniteSet(Senders(i))
    BY <1>0, CoveredNumbers DEF Covered
  <2>3. /\ IsFiniteSet(Senders(i)')
        /\ Cardinality(Senders(i)') \in {Cardinality(Senders(i)), Cardinality(Senders(i)) + 1}
    BY <2>1, <2>2, FS_AddElement
  <2> QED
    BY <1>0, <1>1, <1>3, <2>1, <2>2, <2>3, CoveredNumbers DEF Covered
<1> QED
  BY <1>2, <1>3

LEMMA SendAhead ==
    ASSUME TypeInv, AheadInv, NEW p \in Procs, Send(p)
    PROVE  AheadInv'
<1> SUFFICES ASSUME NEW i \in Ids PROVE Covered(i)'
  BY DEF AheadInv
<1> DEFINE m == [id |-> eff[p], ord |-> ord[p], sent |-> now]
<1>0. Covered(i)
  BY DEF AheadInv
<1>1. /\ \A q \in Procs : pc'[q] = IF q = p THEN "wait" ELSE pc[q]
      /\ eff' = eff /\ count' = count /\ attempts' = attempts
      /\ requests' = requests \cup {m} /\ m.id = eff[p] /\ pc[p] = "send"
  BY DEF Send, Goto, TypeInv, TypeOK, LocalType, ledger
<1> HIDE DEF m
<1>2. CASE i # eff[p]
  <2>1. Senders(i)' = Senders(i) /\ Sent(i)' = Sent(i)
    BY <1>1, <1>2 DEF Senders, Sent
  <2> QED
    BY <1>0, <1>1, <2>1 DEF Covered
<1>3. CASE i = eff[p]
  <2>1. /\ Senders(i)' = Senders(i) \ {p} /\ p \in Senders(i)
        /\ Sent(i)' = Sent(i) \cup {m}
    BY <1>1, <1>3 DEF Senders, Sent
  <2>2. /\ IsFiniteSet(Senders(i)')
        /\ Cardinality(Senders(i)') = Cardinality(Senders(i)) - 1
    BY <1>0, <2>1, FS_RemoveElement DEF Covered
  <2>3. IsFiniteSet(Sent(i))
    BY <1>0 DEF Covered
  <2>4. /\ IsFiniteSet(Sent(i)')
        /\ Cardinality(Sent(i)') \in {Cardinality(Sent(i)), Cardinality(Sent(i)) + 1}
    BY <2>1, <2>3, FS_AddElement
  <2> QED
    BY <1>0, <1>1, <2>2, <2>4, CoveredNumbers DEF Covered
<1> QED
  BY <1>2, <1>3

\* The target turns a request into at most one effect.
LEMMA TargetAhead ==
    ASSUME TypeInv, AheadInv, TargetStep
    PROVE  AheadInv'
<1>1. PICK r \in requests, l \in {"committed", "ambiguous", "rejected"} :
         /\ Answer(r, l)
         /\ Perform(r.id) \/ UNCHANGED <<count, keptUntil>>
  BY DEF TargetStep, Commit, CommitUnconfirmed, Reject, Drop
<1> SUFFICES ASSUME NEW i \in Ids PROVE Covered(i)'
  BY DEF AheadInv
<1>2. Covered(i) /\ r.id \in Ids
  BY DEF AheadInv, TypeInv, TypeOK, TargetType, Request
<1>3. /\ requests' = requests \ {r} /\ attempts' = attempts
      /\ \A p \in Procs : pc'[p] = "send" => pc[p] = "send" /\ eff'[p] = eff[p]
  BY <1>1 DEF Answer, ledger
<1>4. /\ i # r.id => count'[i] = count[i]
      /\ count'[i] \in {count[i], count[i] + 1}
  BY <1>1, <1>2 DEF Perform, TypeInv, TypeOK, TargetType
<1>5. CASE i # r.id
  BY <1>2, <1>3, <1>4, <1>5, LessAhead
<1>6. CASE i = r.id
  <2>1. Sent(i)' = Sent(i) \ {r} /\ r \in Sent(i)
    BY <1>3, <1>6 DEF Sent
  <2>2. /\ IsFiniteSet(Sent(i)')
        /\ Cardinality(Sent(i)') = Cardinality(Sent(i)) - 1
    BY <1>2, <2>1, FS_RemoveElement DEF Covered
  <2>3. Senders(i)' \in SUBSET Senders(i)
    BY <1>3 DEF Senders
  <2>4. /\ IsFiniteSet(Senders(i)')
        /\ Cardinality(Senders(i)') <= Cardinality(Senders(i))
        /\ Cardinality(Senders(i)') \in Nat
    BY <1>2, <2>3, FS_Subset, FS_CardinalityType DEF Covered
  <2> QED
    BY <1>2, <1>3, <1>4, <2>2, <2>4, CoveredNumbers DEF Covered
<1> QED
  BY <1>5, <1>6

-----------------------------------------------------------------------------
(* The other steps *)

LEMMA StepAhead ==
    ASSUME TypeInv, AheadInv, NEW p \in Procs, Step(p)
    PROVE  AheadInv'
<1>0. eff[p] = NoId <=> pc[p] \in {"idle", "stopped"}
  BY DEF TypeInv, TypeOK, LocalType
<1>1. CASE (p \in Workers /\ ClaimDue(p)) \/ List(p)
  <2>1. PICK S : TakeNext(p, S)
    BY <1>1 DEF ClaimDue, List
  <2> QED
    BY <1>1, <2>1, TakeNextLabel, QuietAhead DEF ClaimDue, List, target, ledger
<1>2. CASE Get(p) \/ Probe(p)
  <2>1. Route(eff[p]) \in {"redispatch", "reconcile", "review"}
    BY DEF Route
  <2> QED
    BY <1>2, <2>1, QuietAhead
    DEF Get, Probe, Goto, target, ledger, TypeInv, TypeOK, LocalType
<1>3. CASE BeginDispatch(p) \/ BeginProbe(p)
  BY <1>3, QuietAhead
  DEF BeginDispatch, BeginProbe, Advance, Write, Goto, target, TypeInv, TypeOK,
      LocalType
<1>4. CASE StartAttempt(p)
  BY <1>4, StartAttemptAhead
<1>5. CASE Send(p)
  BY <1>5, SendAhead
<1>6. CASE Settle(p) \/ Conclude(p)
  <2>1. eff[p] # NoId /\ Close(p)
    BY <1>0, <1>6 DEF Settle, Conclude
  <2> QED
    BY <2>1, ClosedLabel, QuietAhead DEF Close, Write, target
<1>7. CASE Refused(p)
  BY <1>7, StopLabel, QuietAhead DEF Refused, target, ledger
<1> QED
  BY <1>1, <1>2, <1>3, <1>4, <1>5, <1>6, <1>7 DEF Step

LEMMA MishapAhead ==
    ASSUME TypeInv, AheadInv, NEW p \in Procs, Mishap(p) \/ Restart(p)
    PROVE  AheadInv'
<1>1. UNCHANGED <<attempts, count>> /\ requests' \subseteq requests
  BY DEF Mishap, AdapterFactoryFails, StoreFails, ProbeFails, Timeout, Crash,
     Restart, Abandon, ledger, target
<1>2. CASE Stop(p)
  BY <1>1, <1>2, StopLabel, QuietAhead
<1>3. CASE (\E l \in {"ambiguous", "idle"} : Goto(p, l)) /\ UNCHANGED eff
  BY <1>1, <1>3, QuietAhead DEF Goto, TypeInv, TypeOK, LocalType
<1> QED
  BY <1>2, <1>3 DEF Mishap, AdapterFactoryFails, StoreFails, ProbeFails, Timeout,
     Crash, Restart

LEMMA AheadStep == TypeInv /\ AheadInv /\ [Next]_vars => AheadInv'
<1> SUFFICES ASSUME TypeInv, AheadInv, [Next]_vars PROVE AheadInv'
  OBVIOUS
<1>1. CASE Callers
  <2>1. UNCHANGED <<attempts, count, requests, pc, eff>>
    BY <1>1 DEF Callers, Submit, Cancel, Resolve, MarkUnknown, Write, local, target
  <2> QED
    BY <2>1, QuietAhead
<1>2. CASE \E p \in Procs : Step(p) \/ Mishap(p) \/ Restart(p)
  BY <1>2, StepAhead, MishapAhead
<1>3. CASE \E h \in Handlers, i \in Ids : HandlerGet(h, i)
  <2>1. \A i : Route(i) \in {"redispatch", "reconcile", "review"}
    BY DEF Route
  <2> QED
    BY <1>3, <2>1, QuietAhead
    DEF HandlerGet, Goto, target, ledger, TypeInv, TypeOK, LocalType, Procs
<1>4. CASE TargetStep
  BY <1>4, TargetAhead
<1>5. CASE Tick \/ UNCHANGED vars
  BY <1>5, QuietAhead DEF Tick, vars, ledger, local, target
<1> QED
  BY <1>1, <1>2, <1>3, <1>4, <1>5 DEF Next

\* The worker "records DISPATCHING and an attempt row before adapter I/O": in
\* every environment, whatever the target performed or may still perform is
\* covered by as many attempt rows (dispatch_once and reconcile_once).
THEOREM AttemptsAhead == Spec => []WriteAhead
<1>1. TypeInv /\ AheadInv /\ [Next]_vars => (TypeInv /\ AheadInv)'
  BY TypeStep, AheadStep
<1>2. Init => TypeInv /\ AheadInv
  BY TypeInit, AheadInit
<1>3. TypeInv /\ AheadInv => WriteAhead
  <2> SUFFICES ASSUME TypeInv, AheadInv, NEW i \in Ids
               PROVE  count[i] + Cardinality(Sent(i)) <= attempts[i]
    BY DEF WriteAhead, Sent
  <2> QED
    BY CoveredNumbers DEF AheadInv, Covered
<1> QED
  BY <1>1, <1>2, <1>3, PTL DEF Spec

-----------------------------------------------------------------------------
(* The budget *)

IsTransactional(i) == status[i] # "absent" /\ contract[i].safety = "transactional"

\* The budget of i allows another attempt.
Budgeted(i) == attempts[i] = 0 \/ attempts[i] < contract[i].retry_limit

\* Whoever is at work on i, or will be, keeps its budget: the effect waits for
\* dispatch only while one is allowed, and who took the edge knows the number
\* of attempts, as nobody else has recorded one since.
WithinBudget(i) ==
    /\ attempts[i] <= 1 \/ attempts[i] <= contract[i].retry_limit
    /\ status[i] \in ClaimableStatuses => Budgeted(i)
    /\ \A p \in Procs : eff[p] = i =>
          /\ pc[p] \notin {"absent", "redispatch"}
          /\ pc[p] \in Dispatching \cup {"claimed"} => p \in Workers
    /\ \A p \in Procs : Owner(p, i) =>
          /\ pc[p] = "attempt" => Budgeted(i)
          /\ pc[p] \in Dispatching \ {"attempt"} => ord[p] = attempts[i]

Unattempted == \A i \in Ids : status[i] = "absent" => attempts[i] = 0

BudgetInv == Unattempted /\ \A i \in Ids : IsTransactional(i) => WithinBudget(i)

LEMMA BudgetInit == Init => BudgetInv
BY DEF Init, BudgetInv, Unattempted, IsTransactional

-----------------------------------------------------------------------------
\* p comes to i to claim, list, read, probe or review it, or goes on with the
\* dispatch it has in hand.
Frugal(p, i) ==
    eff'[p] = i =>
        \/ /\ pc'[p] \notin {"absent", "redispatch"} \cup Dispatching
           /\ pc'[p] = "claimed" => p \in Workers
        \/ /\ eff[p] = i /\ ord'[p] = ord[p]
           /\ \/ pc'[p] = pc[p]
              \/ pc[p] \in Dispatching /\ pc'[p] \in Dispatching \ {"attempt"}
                   /\ pc[p] # "attempt"
           /\ ver'[p][i] = version'[i] => ver[p][i] = version[i]

LEMMA SameBudget ==
    ASSUME TypeInv, NEW i \in Ids, WithinBudget(i),
           contract'[i] = contract[i], attempts'[i] = attempts[i],
           status'[i] \in ClaimableStatuses
               => status[i] \in ClaimableStatuses \/ Budgeted(i),
           \A p \in Procs : Frugal(p, i)
    PROVE  WithinBudget(i)'
<1> USE DEF Frugal
<1>1. Budgeted(i)' <=> Budgeted(i)
  BY DEF Budgeted
<1>2. \A p \in Procs : eff'[p] = i =>
          /\ pc'[p] \notin {"absent", "redispatch"}
          /\ pc'[p] \in Dispatching \cup {"claimed"} => p \in Workers
  BY DEF WithinBudget, Dispatching
<1>3. ASSUME NEW p \in Procs, Owner(p, i)', pc'[p] \in Dispatching
      PROVE  /\ Owner(p, i) /\ ord'[p] = ord[p] /\ pc[p] \in Dispatching
             /\ pc'[p] = "attempt" <=> pc[p] = "attempt"
  BY <1>3 DEF Owner
<1>4. \A p \in Procs : Owner(p, i)' =>
          /\ pc'[p] = "attempt" => Budgeted(i)'
          /\ pc'[p] \in Dispatching \ {"attempt"} => ord'[p] = attempts'[i]
  BY <1>1, <1>3 DEF WithinBudget, Dispatching
<1> QED
  BY <1>1, <1>2, <1>4 DEF WithinBudget

\* A step that records no attempt.
LEMMA SameBudgets ==
    ASSUME TypeInv, BudgetInv, UNCHANGED <<contract, attempts>>,
           \A i \in Ids : status'[i] = "absent" <=> status[i] = "absent",
           \A i \in Ids : IsTransactional(i) =>
               /\ status'[i] \in ClaimableStatuses
                    => status[i] \in ClaimableStatuses \/ Budgeted(i)
               /\ \A p \in Procs : Frugal(p, i)
    PROVE  BudgetInv'
<1>1. Unattempted'
  BY DEF BudgetInv, Unattempted
<1>2. ASSUME NEW i \in Ids, IsTransactional(i)' PROVE WithinBudget(i)'
  <2>1. IsTransactional(i) /\ WithinBudget(i)
    BY <1>2 DEF IsTransactional, BudgetInv
  <2> QED
    BY <2>1, SameBudget
<1> QED
  BY <1>1, <1>2 DEF BudgetInv

\* A step that leaves statuses and contracts alone.
LEMMA FrugalBudget ==
    ASSUME TypeInv, BudgetInv, UNCHANGED <<status, contract, attempts>>,
           \A i \in Ids, p \in Procs : IsTransactional(i) => Frugal(p, i)
    PROVE  BudgetInv'
BY SameBudgets

\* What is left of a process whose call raised is idle.
LEMMA StopFrugal ==
    ASSUME TypeInv, NEW p \in Procs, Stop(p), UNCHANGED version
    PROVE  \A i \in Ids, q \in Procs : Frugal(q, i)
<1>1. \A q \in Procs \ {p} : ord'[q] = ord[q]
  BY DEF Stop, TypeInv, TypeOK, LocalType
<1> QED
  BY <1>1, StopLabel, NullsAssumption DEF Frugal

LEMMA TransactionalRoute ==
    ASSUME TypeInv, NEW i \in Ids, IsTransactional(i)
    PROVE  Route(i) = "reconcile" /\ ~ProvenAbsent(i)
BY DEF IsTransactional, Route, RouteUnknown, ProvenAbsent

\* A process that works on an effect which has been written since holds an old
\* version of it.
LEMMA Outdated ==
    ASSUME TypeInv, FencedInv, NEW i \in Ids, NEW s, Write(i, s)
    PROVE  /\ \A p \in Procs : ver[p][i] # version'[i]
           /\ \A j \in Ids \ {i} : version'[j] = version[j] /\ status'[j] = status[j]
           /\ status'[i] = s
BY DEF Write, FencedInv, VersionsHeld, TypeInv, TypeOK, LedgerType, LocalType

-----------------------------------------------------------------------------
(* The edge, the attempt, the settlement *)

\* Only a claim takes the edge, and only while an attempt is allowed.
LEMMA BeginDispatchBudget ==
    ASSUME TypeInv, FencedInv, BudgetInv, NEW p \in Procs, BeginDispatch(p)
    PROVE  BudgetInv'
<1> DEFINE i == eff[p]
<1>1. eff[p] # NoId /\ i \in Ids /\ Goal(p) = "dispatching"
  BY DEF BeginDispatch, Goal, TypeInv, TypeOK, LocalType
<1>2. /\ Write(i, "dispatching") /\ status[i] # "absent"
      /\ pc' = [pc EXCEPT ![p] = "attempt"]
      /\ UNCHANGED <<contract, attempts, eff, ord>>
      /\ ver[p][i] = version[i]
      /\ \A q \in Procs \ {p} : ver'[q] = ver[q]
  BY <1>1 DEF BeginDispatch, Advance, Accepted, Current, Write, Goto, IsAllowed,
     TypeInv, TypeOK, LocalType
<1>3. /\ \A q \in Procs : ver[q][i] # version'[i]
      /\ \A j \in Ids \ {i} : version'[j] = version[j] /\ status'[j] = status[j]
      /\ status'[i] = "dispatching"
  BY <1>1, <1>2, Outdated
<1>4. Unattempted'
  BY <1>2, <1>3 DEF BudgetInv, Unattempted
<1>5. \A q \in Procs \ {p}, j \in Ids : WithinBudget(j) => Frugal(q, j)
  BY <1>1, <1>2, <1>3 DEF Frugal, WithinBudget, TypeInv, TypeOK, LocalType
<1>6. ASSUME NEW j \in Ids, IsTransactional(j)' PROVE WithinBudget(j)'
  <2>1. IsTransactional(j) /\ WithinBudget(j)
    BY <1>2, <1>3, <1>6 DEF IsTransactional, BudgetInv
  <2>2. CASE j # i
    <3>1. Frugal(p, j)
      BY <1>2, <2>2 DEF Frugal
    <3> QED
      BY <1>2, <1>3, <1>5, <2>1, <2>2, <3>1, SameBudget
  <2>3. CASE j = i
    <3>1. p \in Workers /\ pc[p] = "claimed"
      BY <2>1, <2>3 DEF BeginDispatch, WithinBudget
    <3>2. Budgeted(i)
      BY <1>1, <1>2, <2>1, <2>3, <3>1 DEF FencedInv, ClaimCurrent, WithinBudget
    <3>3. Budgeted(i)' /\ status'[i] \notin ClaimableStatuses
      BY <1>2, <1>3, <3>2 DEF Budgeted, ClaimableStatuses
    <3>4. pc'[p] = "attempt" /\ \A q \in Procs \ {p} : pc'[q] = pc[q]
      BY <1>2 DEF TypeInv, TypeOK, LocalType
    <3>5. \A q \in Procs : Owner(q, i)' => q = p
      BY <1>2, <1>3 DEF Owner
    <3> QED
      BY <1>2, <2>1, <2>3, <3>1, <3>3, <3>4, <3>5 DEF WithinBudget
  <2> QED
    BY <2>2, <2>3
<1> QED
  BY <1>4, <1>6 DEF BudgetInv

\* The row gives its ordinal to the one process that owns the effect.
LEMMA StartAttemptBudget ==
    ASSUME TypeInv, FencedInv, BudgetInv, NEW p \in Procs, StartAttempt(p)
    PROVE  BudgetInv'
<1> DEFINE i == eff[p]
<1>1. eff[p] # NoId /\ i \in Ids /\ Owner(p, i) /\ status[i] # "absent"
  BY DEF StartAttempt, Current, Owner, Dispatching, TypeInv, TypeOK, LocalType,
     Reserved
<1>2. /\ UNCHANGED <<status, version, contract, eff, ver>> /\ pc[p] = "attempt"
      /\ pc'[p] = "send" /\ ord'[p] = attempts[i] + 1
      /\ attempts'[i] = attempts[i] + 1 /\ attempts[i] \in Nat
      /\ \A q \in Procs \ {p} : pc'[q] = pc[q] /\ ord'[q] = ord[q]
      /\ \A j \in Ids \ {i} : attempts'[j] = attempts[j]
  BY <1>1 DEF StartAttempt, Goto, TypeInv, TypeOK, LocalType, LedgerType
<1>3. Unattempted'
  BY <1>1, <1>2 DEF BudgetInv, Unattempted
<1>4. ASSUME NEW j \in Ids, IsTransactional(j)' PROVE WithinBudget(j)'
  <2>1. IsTransactional(j) /\ WithinBudget(j)
    BY <1>2, <1>4 DEF IsTransactional, BudgetInv
  <2>2. CASE j # i
    <3>1. \A q \in Procs : Frugal(q, j)
      BY <1>2, <2>1, <2>2 DEF Frugal, WithinBudget
    <3> QED
      BY <1>2, <2>1, <2>2, <3>1, SameBudget
  <2>3. CASE j = i
    <3>1. /\ p \in Workers /\ Budgeted(i)
          /\ status[i] = "dispatching"
          /\ \A q \in Procs : Owner(q, i) => q = p
      BY <1>1, <1>2, <2>1, <2>3
      DEF WithinBudget, FencedInv, Fenced, Holds, Dispatching
    <3>2. attempts'[i] <= 1 \/ attempts'[i] <= contract'[i].retry_limit
      <4>1. contract[i].retry_limit \in Int
        BY <1>1, ContractsAssumption
        DEF ValidContract, EffectContract, TypeInv, TypeOK, LedgerType
      <4> QED
        BY <1>2, <3>1, <4>1 DEF Budgeted
    <3>3. \A q \in Procs : Owner(q, i)' => q = p
      BY <1>2, <3>1 DEF Owner, Dispatching
    <3> QED
      BY <1>2, <2>1, <2>3, <3>1, <3>2, <3>3
      DEF WithinBudget, ClaimableStatuses, Dispatching
  <2> QED
    BY <2>2, <2>3
<1> QED
  BY <1>3, <1>4 DEF BudgetInv

\* Of the settlements only a rejection within the limit asks for a retry.
LEMMA CloseBudget ==
    ASSUME TypeInv, FencedInv, BudgetInv, NEW p \in Procs, eff[p] # NoId,
           Close(p)
    PROVE  BudgetInv'
<1> DEFINE i == eff[p]
<1>1. i \in Ids /\ Write(i, Goal(p)) /\ Accepted(p)
  BY DEF Close, TypeInv, TypeOK, LocalType
<1>2. /\ \A q \in Procs : ver[q][i] # version'[i]
      /\ \A j \in Ids \ {i} : version'[j] = version[j] /\ status'[j] = status[j]
      /\ status'[i] = Goal(p) /\ UNCHANGED <<contract, attempts>>
      /\ status[i] # "absent" /\ Goal(p) # "absent"
  BY <1>1, Outdated, GoalType DEF Write, Accepted, IsAllowed, EffectStatus
<1>3. /\ pc'[p] \in {"idle", "claimed", "listed"}
      /\ pc'[p] = "claimed" => p \in Workers
      /\ \A q \in Procs \ {p} : /\ pc'[q] = pc[q] /\ eff'[q] = eff[q]
                                /\ ver'[q] = ver[q] /\ ord'[q] = ord[q]
  BY ClosedLabel DEF Close, Finish, TakeNext, Goto, TypeInv, TypeOK, LocalType
<1>4. \A j \in Ids, q \in Procs : Frugal(q, j)
  BY <1>2, <1>3 DEF Frugal, Dispatching
<1>5. ASSUME IsTransactional(i), status'[i] \in ClaimableStatuses
      PROVE  Budgeted(i)
  <2>1. WithinBudget(i) /\ Current(p)
    BY <1>1, <1>5 DEF BudgetInv, Accepted
  <2>2. pc[p] = "rejected" /\ ~Exhausted(p)
    BY <1>2, <1>5, <2>1 DEF Goal, WithinBudget, ClaimableStatuses
  <2>3. p \in Workers /\ ord[p] = attempts[i]
    BY <2>1, <2>2 DEF WithinBudget, Owner, Current, Dispatching
  <2>4. contract[i].retry_limit \in Int /\ attempts[i] \in Nat
    BY <1>1, <1>5, ContractsAssumption
    DEF IsTransactional, ValidContract, EffectContract, TypeInv, TypeOK,
        LedgerType
  <2> QED
    BY <2>2, <2>3, <2>4 DEF Exhausted, Budgeted
<1> QED
  <2>1. \A j \in Ids : status'[j] = "absent" <=> status[j] = "absent"
    BY <1>2
  <2>2. \A j \in Ids : IsTransactional(j) =>
           (status'[j] \in ClaimableStatuses
              => status[j] \in ClaimableStatuses \/ Budgeted(j))
    BY <1>2, <1>5
  <2> QED
    BY <1>2, <1>4, <2>1, <2>2, SameBudgets

-----------------------------------------------------------------------------
(* The other steps *)

LEMMA StepBudget ==
    ASSUME TypeInv, FencedInv, BudgetInv, NEW p \in Procs, Step(p)
    PROVE  BudgetInv'
<1>0. eff[p] = NoId <=> pc[p] \in {"idle", "stopped"}
  BY DEF TypeInv, TypeOK, LocalType
<1>1. CASE (p \in Workers /\ ClaimDue(p)) \/ (p \in Reconcilers /\ List(p))
  <2>1. PICK S : TakeNext(p, S)
    BY <1>1 DEF ClaimDue, List
  <2>2. /\ pc'[p] \in {"idle", "claimed", "listed"}
        /\ pc'[p] = "claimed" => p \in Workers
    BY <2>1 DEF TakeNext, Goto, TypeInv, TypeOK, LocalType
  <2>3. /\ \A q \in Procs \ {p} : /\ pc'[q] = pc[q] /\ eff'[q] = eff[q]
                                  /\ ver'[q] = ver[q]
        /\ ord' = ord /\ UNCHANGED <<status, contract, attempts>>
    BY <1>1, <2>1, TakeNextLabel
    DEF ClaimDue, List, ledger, TypeInv, TypeOK, LocalType
  <2>4. \A i \in Ids, q \in Procs : ver[q][i] = version'[i] => version[i] = version'[i]
    BY <1>1 DEF ClaimDue, List, ledger, FencedInv, VersionsHeld, TypeInv, TypeOK,
       LedgerType, LocalType
  <2>5. \A i \in Ids, q \in Procs : Frugal(q, i)
    BY <2>2, <2>3, <2>4 DEF Frugal, Dispatching
  <2> QED
    BY <2>3, <2>5, FrugalBudget
<1>2. CASE (p \in Reconcilers /\ Get(p)) \/ Probe(p) \/ Send(p)
  <2>1. eff[p] \in Ids
    BY <1>0, <1>2 DEF Get, Probe, Send, TypeInv, TypeOK, LocalType
  <2>2. \A i \in Ids : IsTransactional(i) => Frugal(p, i)
    BY <1>2, <2>1, TransactionalRoute
    DEF Frugal, Get, Probe, Send, Goto, Dispatching, ledger, TypeInv, TypeOK,
        LocalType
  <2>3. \A i \in Ids, q \in Procs \ {p} : Frugal(q, i)
    BY <1>2 DEF Frugal, Get, Probe, Send, Goto, ledger, TypeInv, TypeOK, LocalType
  <2> QED
    BY <1>2, <2>2, <2>3, FrugalBudget DEF Get, Probe, Send, ledger
<1>3. CASE BeginDispatch(p)
  BY <1>3, BeginDispatchBudget
<1>4. CASE StartAttempt(p)
  BY <1>4, StartAttemptBudget
<1>5. CASE Settle(p) \/ Conclude(p)
  BY <1>0, <1>5, CloseBudget DEF Settle, Conclude
<1>6. CASE BeginProbe(p)
  <2>1. eff[p] # NoId /\ eff[p] \in Ids /\ Goal(p) = "reconciling"
    BY <1>0, <1>6 DEF BeginProbe, Goal, TypeInv, TypeOK, LocalType
  <2>2. /\ Write(eff[p], "reconciling") /\ status[eff[p]] # "absent"
        /\ pc' = [pc EXCEPT ![p] = "probe"] /\ eff' = eff /\ ord' = ord
        /\ \A q \in Procs \ {p} : ver'[q] = ver[q]
    BY <1>6, <2>1
    DEF BeginProbe, Advance, Accepted, IsAllowed, Goto, TypeInv, TypeOK, LocalType
  <2>3. \A i \in Ids, q \in Procs : Frugal(q, i)
    BY <2>1, <2>2, Outdated DEF Frugal, Dispatching, TypeInv, TypeOK, LocalType
  <2>4. /\ \A i \in Ids \ {eff[p]} : status'[i] = status[i]
        /\ status'[eff[p]] = "reconciling" /\ UNCHANGED <<contract, attempts>>
    BY <2>1, <2>2, Outdated DEF Write
  <2> QED
    BY <2>1, <2>2, <2>3, <2>4, SameBudgets DEF ClaimableStatuses
<1>7. CASE Refused(p)
  BY <1>7, StopFrugal, FrugalBudget DEF Refused, ledger
<1> QED
  BY <1>1, <1>2, <1>3, <1>4, <1>5, <1>6, <1>7 DEF Step

LEMMA MishapBudget ==
    ASSUME TypeInv, BudgetInv, NEW p \in Procs, Mishap(p) \/ Restart(p)
    PROVE  BudgetInv'
<1>1. UNCHANGED <<status, version, contract, attempts>>
  BY DEF Mishap, AdapterFactoryFails, StoreFails, ProbeFails, Timeout, Crash,
     Restart, ledger
<1>2. CASE Stop(p)
  BY <1>1, <1>2, StopFrugal, FrugalBudget
<1>3. CASE ~Stop(p)
  <2>1. /\ \/ /\ pc[p] \in Dispatching \ {"attempt"}
              /\ pc' = [pc EXCEPT ![p] = "ambiguous"]
           \/ pc[p] = "stopped" /\ pc' = [pc EXCEPT ![p] = "idle"]
        /\ UNCHANGED <<eff, ver, ord>>
    BY <1>3 DEF Mishap, AdapterFactoryFails, StoreFails, ProbeFails, Timeout,
       Crash, Restart, Goto, Dispatching
  <2>2. \A i \in Ids, q \in Procs : Frugal(q, i)
    BY <1>1, <2>1 DEF Frugal, Dispatching, TypeInv, TypeOK, LocalType
  <2> QED
    BY <1>1, <2>2, FrugalBudget
<1> QED
  BY <1>2, <1>3

LEMMA CallersBudget ==
    ASSUME TypeInv, FencedInv, BudgetInv, Callers
    PROVE  BudgetInv'
<1>1. PICK i \in Ids : \/ \E c \in Contracts : Submit(i, c)
                       \/ Cancel(i)
                       \/ \E s \in Resolutions : Resolve(i, s)
                       \/ MarkUnknown(i)
  BY DEF Callers
<1>2. UNCHANGED local
  BY <1>1 DEF Submit, Cancel, Resolve, MarkUnknown
<1>3. CASE \E c \in Contracts : Submit(i, c)
  <2>1. /\ status[i] = "absent" /\ UNCHANGED <<version, attempts>>
        /\ status'[i] = "prepared"
        /\ \A j \in Ids \ {i} : status'[j] = status[j] /\ contract'[j] = contract[j]
    BY <1>3 DEF Submit, TypeInv, TypeOK, LedgerType
  <2>2. Unattempted'
    BY <2>1 DEF BudgetInv, Unattempted
  <2>3. attempts'[i] = 0 /\ \A p \in Procs : eff'[p] # i
    BY <1>2, <2>1, NullsAssumption
    DEF BudgetInv, Unattempted, TypeInv, Reserved, local
  <2>4. WithinBudget(i)'
    BY <2>3 DEF WithinBudget, Budgeted, Owner
  <2>5. ASSUME NEW j \in Ids, j # i, IsTransactional(j)' PROVE WithinBudget(j)'
    <3>1. WithinBudget(j)
      BY <2>1, <2>5 DEF IsTransactional, BudgetInv
    <3>2. \A p \in Procs : Frugal(p, j)
      BY <1>2, <2>1, <3>1 DEF Frugal, WithinBudget, local
    <3> QED
      BY <2>1, <2>5, <3>1, <3>2, SameBudget
  <2> QED
    BY <2>2, <2>4, <2>5 DEF BudgetInv
<1>4. CASE ~\E c \in Contracts : Submit(i, c)
  <2>1. PICK s \in Resolutions \cup {"cancelled", "outcome_unknown"} :
          Write(i, s) /\ status[i] # "absent"
    BY <1>1, <1>4 DEF Cancel, Resolve, MarkUnknown, ClaimableStatuses
  <2>2. /\ \A p \in Procs : ver[p][i] # version'[i]
        /\ \A j \in Ids \ {i} : version'[j] = version[j] /\ status'[j] = status[j]
        /\ status'[i] = s /\ UNCHANGED <<contract, attempts>>
    BY <2>1, Outdated DEF Write
  <2>3. \A j \in Ids, p \in Procs : Frugal(p, j)
    BY <1>2, <2>2 DEF Frugal, local
  <2> QED
    BY <2>1, <2>2, <2>3, SameBudgets DEF Resolutions, ClaimableStatuses
<1> QED
  BY <1>3, <1>4

LEMMA BudgetStep == TypeInv /\ FencedInv /\ BudgetInv /\ [Next]_vars => BudgetInv'
<1> SUFFICES ASSUME TypeInv, FencedInv, BudgetInv, [Next]_vars PROVE BudgetInv'
  OBVIOUS
<1>1. CASE Callers
  BY <1>1, CallersBudget
<1>2. CASE \E p \in Procs : Step(p) \/ Mishap(p) \/ Restart(p)
  BY <1>2, StepBudget, MishapBudget
<1>3. CASE \E h \in Handlers, i \in Ids : HandlerGet(h, i)
  <2>1. PICK h \in Handlers, i \in Ids : HandlerGet(h, i)
    BY <1>3
  <2>2. /\ pc' = [pc EXCEPT ![h] = Route(i)] /\ eff' = [eff EXCEPT ![h] = i]
        /\ \A q \in Procs \ {h} : ver'[q] = ver[q]
        /\ ord' = ord /\ UNCHANGED <<status, version, contract, attempts>>
        /\ h \in Procs
    BY <2>1 DEF HandlerGet, Goto, ledger, Procs, TypeInv, TypeOK, LocalType
  <2>3. \A j \in Ids, q \in Procs : IsTransactional(j) => Frugal(q, j)
    BY <2>2, TransactionalRoute
    DEF Frugal, Dispatching, TypeInv, TypeOK, LocalType
  <2> QED
    BY <2>2, <2>3, FrugalBudget
<1>4. CASE TargetStep
  <2>1. PICK r \in requests, l \in {"committed", "ambiguous", "rejected"} :
          Answer(r, l)
    BY <1>4 DEF TargetStep, Commit, CommitUnconfirmed, Reject, Drop
  <2>2. \A j \in Ids, q \in Procs : Frugal(q, j)
    BY <2>1 DEF Frugal, Answer, Awaits, Dispatching, ledger
  <2> QED
    BY <2>1, <2>2, FrugalBudget DEF Answer, ledger
<1>5. CASE Tick \/ UNCHANGED vars
  <2>1. \A j \in Ids, q \in Procs : Frugal(q, j)
    BY <1>5 DEF Frugal, Tick, vars, ledger, local
  <2> QED
    BY <1>5, <2>1, FrugalBudget DEF Tick, vars, ledger
<1> QED
  BY <1>1, <1>2, <1>3, <1>4, <1>5 DEF Next

\* Each worker compares the ordinal of its own attempt with the limit
\* (dispatch_once); that bounds the attempts of a transactional effect over all
\* workers, crashes, zombies and reconciliations.
THEOREM BudgetKept == Spec => []RetryBudget
<1> DEFINE IInv == TypeInv /\ FencedInv /\ BudgetInv
<1>1. Init => IInv
  BY TypeInit, FencedInit, BudgetInit
<1>2. IInv /\ [Next]_vars => IInv'
  BY TypeStep, FencedStep, BudgetStep
<1>3. IInv => RetryBudget
  BY DEF BudgetInv, IsTransactional, WithinBudget, RetryBudget
<1> QED
  BY <1>1, <1>2, <1>3, PTL DEF Spec

-----------------------------------------------------------------------------
(* What the store is told (BrokerLedger).  Every step of the broker is one  *)
(* call of the store, or none.                                              *)

\* No step but a call of the store touches the rows.
Rests == UNCHANGED <<status, version, contract, lease, attempts>>

\* claim_due took the batch S.
Claims(S) ==
    /\ S # {} /\ Cardinality(S) <= Limit
    /\ \A i \in S : status[i] \in ClaimableStatuses /\ lease[i] <= now
    /\ version' = [i \in Ids |-> IF i \in S THEN version[i] + 1 ELSE version[i]]
    /\ lease' = [i \in Ids |-> IF i \in S THEN now + LeaseFor ELSE lease[i]]
    /\ UNCHANGED <<status, contract, attempts>>

\* Only finitely many effects are ever on the ledger.
OnLedger == {i \in Ids : status[i] # "absent"}

\* The rows the ledger keeps and what its statuses tell.
RowsTold ==
    /\ now \in 0..MaxTime /\ IsFiniteSet(OnLedger)
    /\ \A i \in Ids :
        /\ status[i] = "absent" => version[i] = 0 /\ lease[i] = 0
        /\ lease[i] # 0 => status[i] \in ClaimableStatuses

\* The attempt rows are those counted, of versions the effect has had.
AttemptsTold ==
    /\ rows \in [Ids -> SUBSET [ordinal : Nat, version : Nat]]
    /\ \A i \in Ids :
        /\ IsFiniteSet(rows[i]) /\ Cardinality(rows[i]) = attempts[i]
        /\ \A r \in rows[i] : r.version <= version[i]

\* The DISPATCHING edge an effect stands on is the last of its trail ...
EdgeTold ==
    /\ trail = [i \in Ids |-> trail[i]]
    /\ \A i \in Ids : status[i] = "dispatching" =>
          \E ev \in Ledger!Moves(trail[i]) :
              ev.version = version[i] /\ ev.data[2] = "dispatching"

\* ... and whoever took it has not recorded its attempt yet.
EdgeUnspent ==
    \A p \in Procs :
        pc[p] = "attempt" /\ Current(p) =>
            \A r \in rows[eff[p]] : r.version # version[eff[p]]

RecordsInv ==
    /\ RowsTold /\ AttemptsTold /\ EdgeTold /\ EdgeUnspent
    /\ OwnDispatch /\ ReceiptStands

-----------------------------------------------------------------------------
(* Which call a step is *)

LEMMA StepCalls ==
    ASSUME TypeInv, RowsTold, NEW p \in Procs, Step(p)
    PROVE  \/ Rests
           \/ \E S \in SUBSET Ids : Claims(S)
           \/ StartAttempt(p)
           \/ \E i \in Ids, s \in EffectStatus : IsAllowed(status[i], s) /\ Write(i, s)
<1>0. eff[p] = NoId <=> pc[p] \in {"idle", "stopped"}
  BY DEF TypeInv, TypeOK, LocalType
<1>1. CASE p \in Workers /\ ClaimDue(p)
  <2>1. PICK S \in Oldest(Due) :
           /\ S # {}
           /\ version' = [i \in Ids |-> IF i \in S THEN version[i] + 1
                                                   ELSE version[i]]
           /\ lease' = [i \in Ids |-> IF i \in S THEN now + LeaseFor
                                                 ELSE lease[i]]
    BY <1>1 DEF ClaimDue
  <2>2. S \subseteq Due /\ Due \in SUBSET OnLedger
    BY OldestInside DEF Due, OnLedger, ClaimableStatuses
  <2>3. Cardinality(Due) \in Nat
    BY <2>2, FS_Subset, FS_CardinalityType DEF RowsTold
  <2>4. Cardinality(S) <= Limit
    BY <2>3, NumbersAssumption DEF Oldest
  <2> QED
    BY <1>1, <2>1, <2>2, <2>4 DEF ClaimDue, Claims, Due
<1>2. CASE BeginDispatch(p) \/ BeginProbe(p) \/ Settle(p) \/ Conclude(p)
  <2>1. eff[p] \in Ids
    BY <1>0, <1>2
    DEF BeginDispatch, BeginProbe, Settle, Conclude, TypeInv, TypeOK, LocalType
  <2>2. IsAllowed(status[eff[p]], Goal(p)) /\ Write(eff[p], Goal(p))
    BY <1>2
    DEF BeginDispatch, BeginProbe, Settle, Conclude, Advance, Close, Accepted
  <2> QED
    BY <2>1, <2>2, GoalType
<1>3. CASE StartAttempt(p)
  BY <1>3
<1>4. CASE List(p) \/ Get(p) \/ Send(p) \/ Probe(p) \/ Refused(p)
  BY <1>4 DEF List, Get, Send, Probe, Refused, Rests, ledger
<1> QED
  BY <1>1, <1>2, <1>3, <1>4 DEF Step

LEMMA StoreCalls ==
    ASSUME TypeInv, RowsTold, [Next]_vars
    PROVE  \/ Rests
           \/ \E i \in Ids, c \in Contracts : Submit(i, c)
           \/ \E S \in SUBSET Ids : Claims(S)
           \/ \E p \in Procs : StartAttempt(p)
           \/ \E i \in Ids, s \in EffectStatus : IsAllowed(status[i], s) /\ Write(i, s)
<1>1. CASE Callers
  <2>1. PICK i \in Ids : \/ \E c \in Contracts : Submit(i, c)
                         \/ Cancel(i)
                         \/ \E s \in Resolutions : Resolve(i, s)
                         \/ MarkUnknown(i)
    BY <1>1 DEF Callers
  <2>2. CASE Cancel(i) \/ (\E s \in Resolutions : Resolve(i, s)) \/ MarkUnknown(i)
    <3>1. \E s \in EffectStatus : IsAllowed(status[i], s) /\ Write(i, s)
      BY <2>2 DEF Cancel, Resolve, MarkUnknown, IsAllowed, ClaimableStatuses,
         Resolutions, EffectStatus
    <3> QED
      BY <3>1
  <2> QED
    BY <2>1, <2>2
<1>2. CASE \E p \in Procs : Step(p)
  BY <1>2, StepCalls
<1>3. CASE \E p \in Procs : Mishap(p) \/ Restart(p)
  BY <1>3 DEF Mishap, AdapterFactoryFails, StoreFails, ProbeFails, Timeout, Crash,
     Restart, Rests, ledger
<1>4. CASE \/ \E h \in Handlers, i \in Ids : HandlerGet(h, i)
           \/ TargetStep \/ Tick \/ UNCHANGED vars
  BY <1>4 DEF HandlerGet, TargetStep, Commit, CommitUnconfirmed, Reject, Drop,
     Answer, Tick, Rests, vars, ledger
<1> QED
  BY <1>1, <1>2, <1>3, <1>4 DEF Next

\* Nobody comes to stand before start_attempt but by the DISPATCHING edge.
LEMMA ToTheAttempt ==
    ASSUME TypeInv, [Next]_vars, NEW p \in Procs, pc'[p] = "attempt"
    PROVE  \/ pc[p] = "attempt" /\ eff'[p] = eff[p] /\ ver'[p] = ver[p]
           \/ Advance(p, "attempt") /\ eff[p] \in Ids
<1> DEFINE Stays == pc'[p] = pc[p] /\ eff'[p] = eff[p] /\ ver'[p] = ver[p]
<1>1. CASE Callers
  BY <1>1 DEF Callers, Submit, Cancel, Resolve, MarkUnknown, local
<1>2. ASSUME NEW q \in Procs, Step(q)
      PROVE  Stays \/ (Advance(p, "attempt") /\ eff[p] \in Ids)
  <2>0. eff[q] = NoId <=> pc[q] \in {"idle", "stopped"}
    BY DEF TypeInv, TypeOK, LocalType
  <2>1. CASE ClaimDue(q) \/ List(q)
    <3>1. PICK S : TakeNext(q, S)
      BY <2>1 DEF ClaimDue, List
    <3>2. p # q => ver'[p] = ver[p]
      BY <2>1 DEF ClaimDue, List, TypeInv, TypeOK, LocalType
    <3>3. pc'[q] # "attempt" /\ (p # q => pc'[p] = pc[p] /\ eff'[p] = eff[p])
      BY <3>1, TakeNextLabel
    <3> QED
      BY <3>2, <3>3
  <2>2. CASE Get(q)
    BY <2>2 DEF Get, Goto, Route, TypeInv, TypeOK, LocalType
  <2>3. CASE BeginDispatch(q) \/ BeginProbe(q)
    <3>1. eff[q] \in Ids
      BY <2>0, <2>3 DEF BeginDispatch, BeginProbe, TypeInv, TypeOK, LocalType
    <3>2. PICK l \in {"attempt", "probe"} : Advance(q, l)
      BY <2>3 DEF BeginDispatch, BeginProbe
    <3>3. CASE p = q
      <4>1. pc'[p] = l
        BY <3>2, <3>3 DEF Advance, Goto, TypeInv, TypeOK, LocalType
      <4> QED
        BY <3>1, <3>2, <3>3, <4>1
    <3>4. CASE p # q
      BY <3>2, <3>4 DEF Advance, Goto, TypeInv, TypeOK, LocalType
    <3> QED
      BY <3>3, <3>4
  <2>4. CASE StartAttempt(q) \/ Send(q) \/ Probe(q)
    BY <2>4 DEF StartAttempt, Send, Probe, Goto, TypeInv, TypeOK, LocalType
  <2>5. CASE Settle(q) \/ Conclude(q)
    <3>1. /\ pc'[q] # "attempt"
          /\ p # q => pc'[p] = pc[p] /\ eff'[p] = eff[p] /\ ver'[p] = ver[p]
      BY <2>0, <2>5, ClosedLabel DEF Settle, Conclude
    <3> QED
      BY <3>1
  <2>6. CASE Refused(q)
    <3>1. /\ pc'[q] # "attempt"
          /\ p # q => pc'[p] = pc[p] /\ eff'[p] = eff[p] /\ ver'[p] = ver[p]
      BY <2>6, StopLabel DEF Refused
    <3> QED
      BY <3>1
  <2> HIDE DEF Stays
  <2> QED
    BY <1>2, <2>1, <2>2, <2>3, <2>4, <2>5, <2>6 DEF Step
<1>3. ASSUME NEW q \in Procs, Mishap(q) \/ Restart(q) PROVE Stays
  <2>1. CASE Stop(q)
    BY <2>1, StopLabel
  <2>2. CASE ~Stop(q)
    <3>1. (\E l \in {"ambiguous", "idle"} : Goto(q, l)) /\ UNCHANGED <<eff, ver>>
      BY <1>3, <2>2 DEF Mishap, AdapterFactoryFails, StoreFails, ProbeFails,
         Timeout, Crash, Restart
    <3> QED
      BY <3>1 DEF Goto, TypeInv, TypeOK, LocalType
  <2> QED
    BY <2>1, <2>2
<1>4. CASE \E h \in Handlers, i \in Ids : HandlerGet(h, i)
  BY <1>4 DEF HandlerGet, Goto, Route, TypeInv, TypeOK, LocalType, Procs
<1>5. CASE TargetStep
  <2>1. PICK r \in requests, l \in {"committed", "ambiguous", "rejected"} : Answer(r, l)
    BY <1>5 DEF TargetStep, Commit, CommitUnconfirmed, Reject, Drop
  <2> QED
    BY <2>1 DEF Answer
<1>6. CASE Tick \/ UNCHANGED vars
  BY <1>6 DEF Tick, vars, local
<1> HIDE DEF Stays
<1>7. Stays => pc[p] = "attempt" /\ eff'[p] = eff[p] /\ ver'[p] = ver[p]
  BY DEF Stays
<1>8. Stays \/ (Advance(p, "attempt") /\ eff[p] \in Ids)
  <2>1. CASE Callers \/ Tick \/ UNCHANGED vars \/ TargetStep
    BY <1>1, <1>5, <1>6, <2>1 DEF Stays
  <2>2. CASE \E h \in Handlers, i \in Ids : HandlerGet(h, i)
    BY <1>4, <2>2 DEF Stays
  <2>3. CASE \E q \in Procs : Step(q) \/ Mishap(q) \/ Restart(q)
    BY <1>2, <1>3, <2>3
  <2> QED
    BY <2>1, <2>2, <2>3 DEF Next
<1> QED
  BY <1>7, <1>8

-----------------------------------------------------------------------------
(* What a step does to one effect, and the event it leaves *)

Kept(i) ==
    /\ status'[i] = status[i] /\ version'[i] = version[i]
    /\ lease'[i] = lease[i] /\ attempts'[i] = attempts[i]

Reserves(i) ==
    /\ status[i] = "absent" /\ status'[i] = "prepared"
    /\ version'[i] = version[i] /\ lease'[i] = lease[i]
    /\ attempts'[i] = attempts[i]

Leases(i) ==
    /\ status[i] \in ClaimableStatuses /\ status'[i] = status[i]
    /\ version'[i] = version[i] + 1 /\ attempts'[i] = attempts[i]

Spends(i) ==
    /\ \E p \in Procs : StartAttempt(p) /\ eff[p] = i
    /\ status[i] # "absent" /\ status'[i] = status[i]
    /\ version'[i] = version[i] /\ lease'[i] = lease[i]
    /\ attempts'[i] = attempts[i] + 1

Moves(i) ==
    /\ IsAllowed(status[i], status'[i])
    /\ version'[i] = version[i] + 1 /\ lease'[i] = 0
    /\ attempts'[i] = attempts[i]

LEMMA OneCall ==
    ASSUME TypeInv, RowsTold, [Next]_vars, NEW i \in Ids
    PROVE  Kept(i) \/ Reserves(i) \/ Leases(i) \/ Spends(i) \/ Moves(i)
<1>0. /\ status[i] \in EffectStatus \cup {"absent"} /\ version[i] \in Nat
      /\ attempts[i] \in Nat /\ DOMAIN status = Ids /\ DOMAIN version = Ids
      /\ DOMAIN lease = Ids /\ DOMAIN attempts = Ids
  BY DEF TypeInv, TypeOK, LedgerType
<1>1. CASE Rests
  BY <1>1 DEF Rests, Kept
<1>2. CASE \E j \in Ids, c \in Contracts : Submit(j, c)
  BY <1>0, <1>2 DEF Submit, Kept, Reserves
<1>3. CASE \E S \in SUBSET Ids : Claims(S)
  BY <1>0, <1>3 DEF Claims, Kept, Leases
<1>4. CASE \E p \in Procs : StartAttempt(p)
  <2>1. PICK p \in Procs : StartAttempt(p)
    BY <1>4
  <2>2. eff[p] \in Ids /\ status[eff[p]] # "absent"
    BY <2>1 DEF StartAttempt, TypeInv, TypeOK, LocalType, Reserved
  <2> QED
    BY <1>0, <2>1, <2>2 DEF StartAttempt, Kept, Spends
<1>5. CASE \E j \in Ids, s \in EffectStatus : IsAllowed(status[j], s) /\ Write(j, s)
  BY <1>0, <1>5 DEF Write, Kept, Moves
<1> QED
  BY <1>1, <1>2, <1>3, <1>4, <1>5, StoreCalls

\* The next event of i.
Entry(i, type, v, data) ==
    [sequence |-> Cardinality(trail[i]) + 1, type |-> type, version |-> v,
     data |-> data]

LEMMA EventLeft ==
    ASSUME TypeInv, NEW i \in Ids
    PROVE  /\ Kept(i) => EventsOf(i) = {}
           /\ Reserves(i) =>
                 EventsOf(i) = {Entry(i, "reserved", version'[i], <<"prepared">>)}
           /\ Leases(i) =>
                 EventsOf(i) = {Entry(i, "claimed", version'[i], <<>>)}
           /\ Spends(i) =>
                 EventsOf(i) = {Entry(i, "attempt_started", version[i], <<>>)}
           /\ Moves(i) =>
                 EventsOf(i) = {Entry(i, "transition", version'[i],
                                      <<status[i], status'[i]>>)}
<1>0. version[i] \in Nat /\ attempts[i] \in Nat
  BY DEF TypeInv, TypeOK, LedgerType
<1>1. Kept(i) => EventsOf(i) = {}
  BY <1>0 DEF Kept, EventsOf
<1>2. Reserves(i) =>
         EventsOf(i) = {Entry(i, "reserved", version'[i], <<"prepared">>)}
  BY <1>0 DEF Reserves, EventsOf, Entry
<1>3. Leases(i) => EventsOf(i) = {Entry(i, "claimed", version'[i], <<>>)}
  BY <1>0 DEF Leases, EventsOf, Entry, ClaimableStatuses
<1>4. Spends(i) => EventsOf(i) = {Entry(i, "attempt_started", version[i], <<>>)}
  <2> SUFFICES ASSUME Spends(i)
               PROVE  EventsOf(i) = {Entry(i, "attempt_started", version[i], <<>>)}
    OBVIOUS
  <2>1. /\ status[i] # "absent" /\ status'[i] = status[i]
        /\ version'[i] = version[i] /\ attempts'[i] # attempts[i]
    BY <1>0 DEF Spends
  <2> QED
    BY <2>1 DEF EventsOf, Entry
<1>5. Moves(i) =>
         EventsOf(i) = {Entry(i, "transition", version'[i],
                              <<status[i], status'[i]>>)}
  <2> SUFFICES ASSUME Moves(i)
               PROVE  EventsOf(i) = {Entry(i, "transition", version'[i],
                                           <<status[i], status'[i]>>)}
    OBVIOUS
  <2>1. status[i] # "absent" /\ status'[i] # "absent" /\ status'[i] # status[i]
    BY DEF Moves, IsAllowed, Resolutions
  <2> QED
    BY <2>1 DEF EventsOf, Entry
<1> QED
  BY <1>1, <1>2, <1>3, <1>4, <1>5

\* A step that changes nothing leaves nothing.
LEMMA LeavesRecord ==
    ASSUME TypeInv, AttemptsTold, EdgeTold, [LNext]_<<vars, history>>
    PROVE  [Next]_vars /\ Recorded
<1>1. CASE LNext
  BY <1>1 DEF LNext
<1>2. CASE UNCHANGED <<vars, history>>
  <2>1. \A i \in Ids : Kept(i) /\ EventsOf(i) = {}
    BY <1>2, EventLeft DEF Kept, vars, ledger
  <2>2. rows' = [i \in Ids |-> rows[i]] /\ trail' = [i \in Ids |-> trail[i]]
    BY <1>2 DEF history, AttemptsTold, EdgeTold
  <2> QED
    BY <1>2, <2>1, <2>2 DEF Recorded, Kept
<1> QED
  BY <1>1, <1>2

\* What the call on i adds to its rows and its trail.
LEMMA Added ==
    ASSUME TypeInv, RowsTold, [Next]_vars, Recorded, NEW i \in Ids
    PROVE  /\ trail'[i] = trail[i] \cup EventsOf(i)
           /\ ~Spends(i) => rows'[i] = rows[i]
           /\ Spends(i) => rows'[i] = rows[i] \cup
                 {[ordinal |-> attempts[i] + 1, version |-> version[i]]}
<1>1. attempts[i] \in Nat
  BY DEF TypeInv, TypeOK, LedgerType
<1>2. ~Spends(i) => attempts'[i] = attempts[i]
  BY OneCall DEF Kept, Reserves, Leases, Moves
<1> QED
  BY <1>1, <1>2 DEF Recorded, Spends

-----------------------------------------------------------------------------
(* The records stay true *)

LEMMA RecordsInit == LInit => RecordsInv
<1> SUFFICES ASSUME LInit PROVE RecordsInv
  OBVIOUS
<1>1. OnLedger = {} /\ \A i \in Ids : rows[i] = {} /\ trail[i] = {}
  BY DEF LInit, Init, OnLedger
<1>2. RowsTold
  BY <1>1, FS_EmptySet, NumbersAssumption DEF LInit, Init, RowsTold
<1>3. AttemptsTold
  BY <1>1, FS_EmptySet DEF LInit, Init, AttemptsTold
<1>4. EdgeTold /\ EdgeUnspent
  BY <1>1 DEF LInit, Init, EdgeTold, EdgeUnspent
<1>5. OwnDispatch /\ ReceiptStands
  BY <1>1 DEF OwnDispatch, ReceiptStands, Ledger!Moves
<1> QED
  BY <1>2, <1>3, <1>4, <1>5 DEF RecordsInv

LEMMA RowsStep ==
    ASSUME TypeInv, RowsTold, [Next]_vars
    PROVE  RowsTold'
<1>1. now' \in 0..MaxTime
  <2>1. now' = now \/ (now < MaxTime /\ now' = now + 1)
    BY DEF Next, Callers, Submit, Cancel, Resolve, MarkUnknown, Step, ClaimDue,
       List, Get, BeginDispatch, Advance, StartAttempt, Send, Settle, Close,
       BeginProbe, Probe, Conclude, Refused, Mishap, AdapterFactoryFails,
       StoreFails, ProbeFails, Timeout, Crash, Restart, HandlerGet, TargetStep,
       Commit, CommitUnconfirmed, Reject, Drop, Tick, Fault, vars, env
  <2> QED
    BY <2>1, NumbersAssumption DEF RowsTold
<1>2. IsFiniteSet(OnLedger')
  <2>1. \E i : OnLedger' \subseteq OnLedger \cup {i}
    <3>1. CASE \E j \in Ids, c \in Contracts : Submit(j, c)
      BY <3>1 DEF Submit, OnLedger, TypeInv, TypeOK, LedgerType
    <3>2. CASE \E j \in Ids, s \in EffectStatus : IsAllowed(status[j], s) /\ Write(j, s)
      BY <3>2 DEF Write, OnLedger, TypeInv, TypeOK, LedgerType
    <3>3. CASE status' = status
      BY <3>3 DEF OnLedger
    <3>4. Rests \/ (\E S \in SUBSET Ids : Claims(S)) \/ (\E p \in Procs : StartAttempt(p))
             => status' = status
      BY DEF Rests, Claims, StartAttempt
    <3> QED
      BY <3>1, <3>2, <3>3, <3>4, StoreCalls
  <2>2. PICK i : OnLedger' \subseteq OnLedger \cup {i}
    BY <2>1
  <2>3. IsFiniteSet(OnLedger \cup {i})
    BY FS_AddElement DEF RowsTold
  <2> QED
    BY <2>2, <2>3, FS_Subset
<1>3. ASSUME NEW i \in Ids
      PROVE  /\ status'[i] = "absent" => version'[i] = 0 /\ lease'[i] = 0
             /\ lease'[i] # 0 => status'[i] \in ClaimableStatuses
  <2>1. CASE Kept(i) \/ Reserves(i)
    BY <2>1 DEF Kept, Reserves, RowsTold, ClaimableStatuses
  <2>2. CASE Leases(i)
    BY <2>2 DEF Leases, ClaimableStatuses
  <2>3. CASE Spends(i)
    BY <2>3 DEF Spends, RowsTold
  <2>4. CASE Moves(i)
    BY <2>4 DEF Moves, IsAllowed, Resolutions
  <2> QED
    BY <2>1, <2>2, <2>3, <2>4, OneCall
<1> QED
  BY <1>1, <1>2, <1>3 DEF RowsTold

\* An attempt is recorded for the version the process was handed by its edge.
LEMMA SpentFresh ==
    ASSUME TypeInv, FencedInv, RecordsInv, NEW i \in Ids, Spends(i)
    PROVE  /\ status[i] = "dispatching"
           /\ \A r \in rows[i] : r.version # version[i]
           /\ [ordinal |-> attempts[i] + 1, version |-> version[i]] \notin rows[i]
<1>1. PICK p \in Procs : StartAttempt(p) /\ eff[p] = i
  BY DEF Spends
<1>2. Owner(p, i) /\ pc[p] = "attempt" /\ Current(p)
  BY <1>1 DEF StartAttempt, Owner, Current, Dispatching
<1>3. status[i] = "dispatching"
  BY <1>2 DEF FencedInv, Fenced, Dispatching
<1>4. \A r \in rows[i] : r.version # version[i]
  BY <1>1, <1>2 DEF RecordsInv, EdgeUnspent
<1> QED
  BY <1>3, <1>4

LEMMA AttemptsStep ==
    ASSUME TypeInv, FencedInv, RecordsInv, [Next]_vars, Recorded
    PROVE  AttemptsTold'
<1> USE DEF RecordsInv
<1>1. ASSUME NEW i \in Ids
      PROVE  /\ rows'[i] \in SUBSET [ordinal : Nat, version : Nat]
             /\ IsFiniteSet(rows'[i]) /\ Cardinality(rows'[i]) = attempts'[i]
             /\ \A r \in rows'[i] : r.version <= version'[i]
  <2>1. /\ rows[i] \in SUBSET [ordinal : Nat, version : Nat]
        /\ IsFiniteSet(rows[i]) /\ Cardinality(rows[i]) = attempts[i]
        /\ \A r \in rows[i] : r.version <= version[i]
        /\ attempts[i] \in Nat /\ version[i] \in Nat
    BY DEF AttemptsTold, TypeInv, TypeOK, LedgerType
  <2>2. CASE ~Spends(i)
    <3>1. attempts'[i] = attempts[i] /\ version'[i] \in {version[i], version[i] + 1}
      BY <2>2, OneCall DEF Kept, Reserves, Leases, Moves
    <3>2. \A r \in rows[i] : r.version \in Nat
      BY <2>1
    <3> QED
      BY <2>1, <2>2, <3>1, <3>2, Added
  <2>3. CASE Spends(i)
    <3> DEFINE r == [ordinal |-> attempts[i] + 1, version |-> version[i]]
    <3>1. rows'[i] = rows[i] \cup {r} /\ r \notin rows[i]
      BY <2>3, Added, SpentFresh
    <3>2. r \in [ordinal : Nat, version : Nat] /\ r.version = version[i]
      BY <2>1
    <3>3. attempts'[i] = attempts[i] + 1 /\ version'[i] = version[i]
      BY <2>3 DEF Spends
    <3> HIDE DEF r
    <3>4. IsFiniteSet(rows'[i]) /\ Cardinality(rows'[i]) = Cardinality(rows[i]) + 1
      <4>1. IsFiniteSet(rows[i])
        BY <2>1
      <4>2. /\ IsFiniteSet(rows[i] \cup {r})
            /\ Cardinality(rows[i] \cup {r}) = Cardinality(rows[i]) + 1
        BY <3>1, <4>1, FS_AddElement
      <4> QED
        BY <3>1, <4>2
    <3> QED
      BY <2>1, <3>1, <3>2, <3>3, <3>4
  <2> QED
    BY <2>2, <2>3
<1>2. rows' = [i \in Ids |-> rows'[i]]
  BY DEF Recorded
<1> QED
  BY <1>1, <1>2 DEF AttemptsTold

LEMMA EdgeStep ==
    ASSUME TypeInv, RecordsInv, [Next]_vars, Recorded
    PROVE  EdgeTold'
<1> USE DEF RecordsInv
<1>1. trail' = [i \in Ids |-> trail'[i]]
  BY DEF Recorded
<1>2. ASSUME NEW i \in Ids, status'[i] = "dispatching"
      PROVE  \E ev \in Ledger!Moves(trail'[i]) :
                ev.version = version'[i] /\ ev.data[2] = "dispatching"
  <2>1. trail'[i] = trail[i] \cup EventsOf(i)
    BY Added
  <2>2. CASE Kept(i) \/ Spends(i)
    <3>1. status[i] = "dispatching" /\ version'[i] = version[i]
      BY <1>2, <2>2 DEF Kept, Spends
    <3>2. PICK ev \in Ledger!Moves(trail[i]) :
             ev.version = version[i] /\ ev.data[2] = "dispatching"
      BY <3>1 DEF EdgeTold
    <3> QED
      BY <2>1, <3>1, <3>2 DEF Ledger!Moves
  <2>3. CASE Moves(i)
    <3> DEFINE ev == Entry(i, "transition", version'[i], <<status[i], status'[i]>>)
    <3>1. ev \in trail'[i]
      BY <2>1, <2>3, EventLeft
    <3>2. ev.type = "transition" /\ ev.version = version'[i] /\ ev.data[2] = status'[i]
      BY DEF Entry
    <3> HIDE DEF ev
    <3> QED
      BY <1>2, <3>1, <3>2 DEF Ledger!Moves
  <2>4. ~Reserves(i) /\ ~Leases(i)
    BY <1>2 DEF Reserves, Leases, ClaimableStatuses
  <2> QED
    BY <2>2, <2>3, <2>4, OneCall
<1> QED
  BY <1>1, <1>2 DEF EdgeTold

LEMMA UnspentStep ==
    ASSUME TypeInv, FencedInv, RecordsInv, [Next]_vars, Recorded
    PROVE  EdgeUnspent'
<1> USE DEF RecordsInv
<1> SUFFICES ASSUME NEW p \in Procs, pc'[p] = "attempt", Current(p)',
                    NEW r \in rows'[eff'[p]]
             PROVE  r.version # version'[eff'[p]]
  BY DEF EdgeUnspent
<1> DEFINE i == eff'[p]
<1>1. CASE Advance(p, "attempt") /\ eff[p] \in Ids
  <2>1. i = eff[p] /\ i \in Ids /\ version'[i] = version[i] + 1 /\ version[i] \in Nat
    BY <1>1 DEF Advance, Write, TypeInv, TypeOK, LedgerType
  <2>2. attempts'[i] = attempts[i] /\ attempts[i] \in Nat
    BY <1>1, <2>1 DEF Advance, Write, TypeInv, TypeOK, LedgerType
  <2>3. rows'[i] = rows[i]
    BY <2>1, <2>2, Added DEF Spends
  <2>4. r \in rows[i] /\ r.version \in Nat /\ r.version <= version[i]
    BY <2>1, <2>3 DEF AttemptsTold
  <2> QED
    BY <2>1, <2>4
<1>2. CASE pc[p] = "attempt" /\ eff'[p] = eff[p] /\ ver'[p] = ver[p]
  <2>1. i = eff[p] /\ i \in Ids /\ version[i] \in Nat /\ ver[p][i] \in Nat
    BY <1>2 DEF TypeInv, TypeOK, LocalType, LedgerType
  <2>2. ver[p][i] = version'[i] /\ ver[p][i] <= version[i]
    BY <1>2, <2>1 DEF Current, FencedInv, VersionsHeld
  <2>3. version'[i] \in {version[i], version[i] + 1}
    BY <2>1, OneCall DEF Kept, Reserves, Leases, Spends, Moves
  <2>4. version'[i] = version[i] /\ Current(p) /\ Owner(p, i)
    BY <1>2, <2>1, <2>2, <2>3 DEF Current, Owner, Dispatching
  <2>5. ~Spends(i)
    <3> SUFFICES ASSUME NEW q \in Procs, StartAttempt(q), eff[q] = i PROVE FALSE
      BY DEF Spends
    <3>1. Owner(q, i)
      BY DEF StartAttempt, Current, Owner, Dispatching
    <3>2. q = p
      BY <2>1, <2>4, <3>1 DEF FencedInv, Fenced, Holds
    <3> QED
      BY <3>2 DEF StartAttempt, Goto, TypeInv, TypeOK, LocalType
  <2>6. r \in rows[i]
    BY <2>1, <2>5, Added
  <2> QED
    BY <1>2, <2>1, <2>4, <2>6 DEF EdgeUnspent
<1> QED
  BY <1>1, <1>2, ToTheAttempt

LEMMA DispatchStep ==
    ASSUME TypeInv, FencedInv, RecordsInv, [Next]_vars, Recorded
    PROVE  OwnDispatch'
<1> USE DEF RecordsInv
<1> SUFFICES ASSUME NEW i \in Ids, NEW r \in rows'[i]
             PROVE  /\ \E ev \in Ledger!Moves(trail'[i]) :
                          ev.version = r.version /\ ev.data[2] = "dispatching"
                    /\ \A s \in rows'[i] : s.version = r.version => s = r
  BY DEF OwnDispatch
<1>1. Ledger!Moves(trail[i]) \subseteq Ledger!Moves(trail'[i])
  BY Added DEF Ledger!Moves
<1>2. CASE ~Spends(i)
  BY <1>1, <1>2, Added DEF OwnDispatch
<1>3. CASE Spends(i)
  <2> DEFINE n == [ordinal |-> attempts[i] + 1, version |-> version[i]]
  <2>1. rows'[i] = rows[i] \cup {n} /\ n.version = version[i]
    BY <1>3, Added
  <2>2. status[i] = "dispatching" /\ \A s \in rows[i] : s.version # version[i]
    BY <1>3, SpentFresh
  <2>3. \E ev \in Ledger!Moves(trail[i]) :
           ev.version = version[i] /\ ev.data[2] = "dispatching"
    BY <2>2 DEF EdgeTold
  <2> HIDE DEF n
  <2>4. CASE r = n
    BY <1>1, <2>1, <2>2, <2>3, <2>4
  <2>5. CASE r \in rows[i]
    BY <1>1, <2>1, <2>2, <2>5 DEF OwnDispatch
  <2> QED
    BY <2>1, <2>4, <2>5
<1> QED
  BY <1>2, <1>3

\* No edge leads out of SUCCEEDED, no claim takes it, and there is no second.
LEMMA ReceiptStep ==
    ASSUME TypeInv, RecordsInv, [Next]_vars, Recorded, NoFalseSuccess'
    PROVE  ReceiptStands'
<1> USE DEF RecordsInv
<1> SUFFICES ASSUME NEW i \in Ids, NEW ev \in Ledger!Moves(trail'[i]),
                    ev.data[2] = "succeeded"
             PROVE  status'[i] = "succeeded" /\ version'[i] = ev.version
  BY DEF ReceiptStands, NoFalseSuccess
<1>1. ev \in trail[i] \cup EventsOf(i) /\ ev.type = "transition"
  BY Added DEF Ledger!Moves
<1>2. CASE ev \in trail[i]
  <2>1. status[i] = "succeeded" /\ version[i] = ev.version
    BY <1>1, <1>2 DEF ReceiptStands, Ledger!Moves
  <2>2. ~Reserves(i) /\ ~Leases(i) /\ ~Moves(i)
    BY <2>1 DEF Reserves, Leases, Moves, ClaimableStatuses, IsAllowed
  <2> QED
    BY <2>1, <2>2, OneCall DEF Kept, Spends
<1>3. CASE ev \in EventsOf(i)
  <2>1. Moves(i)
    BY <1>1, <1>3, OneCall, EventLeft DEF Entry
  <2>2. ev = Entry(i, "transition", version'[i], <<status[i], status'[i]>>)
    BY <1>3, <2>1, EventLeft
  <2> QED
    BY <2>2 DEF Entry
<1> QED
  BY <1>1, <1>2, <1>3

LEMMA RecordsStep ==
    /\ TypeInv /\ FencedInv /\ SuccessInv /\ RecordsInv
    /\ [LNext]_<<vars, history>>
    => (TypeInv /\ FencedInv /\ SuccessInv /\ RecordsInv)'
<1> SUFFICES ASSUME TypeInv, FencedInv, SuccessInv, RecordsInv,
                    [LNext]_<<vars, history>>
             PROVE  (TypeInv /\ FencedInv /\ SuccessInv /\ RecordsInv)'
  OBVIOUS
<1>1. [Next]_vars /\ Recorded
  BY LeavesRecord DEF RecordsInv
<1>2. TypeInv' /\ FencedInv' /\ SuccessInv'
  BY <1>1, TypeStep, FencedStep, SuccessStep
<1>3. RowsTold' /\ AttemptsTold' /\ EdgeTold' /\ EdgeUnspent' /\ OwnDispatch'
  BY <1>1, RowsStep, AttemptsStep, EdgeStep, UnspentStep, DispatchStep
  DEF RecordsInv
<1>4. ReceiptStands'
  BY <1>1, <1>2, ReceiptStep DEF SuccessInv
<1> QED
  BY <1>2, <1>3, <1>4 DEF RecordsInv

LEMMA AlwaysOnRecord ==
    LSpec => [](TypeInv /\ FencedInv /\ SuccessInv /\ RecordsInv)
<1>1. LInit => TypeInv /\ FencedInv /\ SuccessInv /\ RecordsInv
  BY TypeInit, FencedInit, SuccessInit, RecordsInit DEF LInit
<1> QED
  BY <1>1, RecordsStep, PTL DEF LSpec

\* However leases run out and zombies wake up, each attempt row stands behind a
\* DISPATCHING edge of its own, that of the process that recorded it
\* (start_attempt is fenced by the version the edge returned).
THEOREM DispatchesOwned == LSpec => []OwnDispatch
BY AlwaysOnRecord, PTL DEF RecordsInv

\* A receipt, once written, is the last word on its effect and true.
THEOREM ReceiptsStand == LSpec => []ReceiptStands
BY AlwaysOnRecord, PTL DEF RecordsInv

-----------------------------------------------------------------------------
(* The broker's ledger is the one of EffectLedger *)

LEMMA LedgerWords ==
    /\ Ledger!EffectStatus = EffectStatus
    /\ Ledger!ClaimableStatuses = ClaimableStatuses
    /\ \A s, t : Ledger!IsAllowed(s, t) <=> IsAllowed(s, t)
BY DEF Ledger!EffectStatus, EffectStatus, Ledger!ClaimableStatuses,
       ClaimableStatuses, Ledger!IsAllowed, IsAllowed, Ledger!Resolutions,
       Resolutions

\* A row is what its five fields say.
LEMMA SameRow ==
    ASSUME NEW a \in Ledger!Row, NEW b \in Ledger!Row,
           a.key = b.key, a.digest = b.digest, a.status = b.status,
           a.version = b.version, a.lease = b.lease
    PROVE  a = b
BY DEF Ledger!Row

LEMMA RowIsRow ==
    ASSUME NEW k \in Ids, NEW d \in Contracts, NEW s \in EffectStatus,
           NEW v \in Nat, NEW l \in Nat
    PROVE  [key |-> k, digest |-> d, status |-> s, version |-> v, lease |-> l]
               \in Ledger!Row
BY LedgerWords DEF Ledger!Row

LEMMA RowsAre ==
    ASSUME TypeInv, NEW i \in Ids
    PROVE  /\ Intents[i] = RowOf(i)
           /\ status[i] = "absent" => Intents[i] = NoRow
           /\ status[i] # "absent" =>
                 /\ Intents[i] # NoRow
                 /\ Intents[i] = [key |-> i, digest |-> contract[i],
                                  status |-> status[i], version |-> version[i],
                                  lease |-> lease[i]]
                 /\ Intents[i] \in Ledger!Row
                 /\ Intents[i].key = i /\ Intents[i].digest = contract[i]
                 /\ Intents[i].status = status[i]
                 /\ Intents[i].version = version[i] /\ Intents[i].lease = lease[i]
                 /\ i \in Ledger!Reserved
<1>1. status[i] # "absent" =>
         [key |-> i, digest |-> contract[i], status |-> status[i],
          version |-> version[i], lease |-> lease[i]]
           \in [key : Ids, digest : Contracts, status : EffectStatus,
                version : Nat, lease : Nat]
  BY DEF TypeInv, TypeOK, LedgerType
<1>2. Intents[i] = RowOf(i)
  BY DEF Intents
<1>3. status[i] = "absent" => Intents[i] = NoRow
  BY <1>2 DEF RowOf
<1>4. status[i] # "absent" =>
         /\ Intents[i] # NoRow
         /\ Intents[i] = [key |-> i, digest |-> contract[i],
                          status |-> status[i], version |-> version[i],
                          lease |-> lease[i]]
  BY <1>1, <1>2, NoRowAssumption DEF RowOf
<1>5. status[i] # "absent" => Intents[i] \in Ledger!Row
  BY <1>4, RowIsRow DEF TypeInv, TypeOK, LedgerType
<1> QED
  BY <1>2, <1>3, <1>4, <1>5 DEF Ledger!Reserved

LEMMA LedgerSizes == \A S : Ledger!Cardinality(S) = Cardinality(S)
BY Zenon DEF Ledger!Cardinality, Cardinality

LEMMA RowsBecome ==
    ASSUME TypeInv', NEW i \in Ids, status'[i] # "absent"
    PROVE  /\ RowOf(i)' \in Ledger!Row
           /\ RowOf(i)'.key = i /\ RowOf(i)'.digest = contract'[i]
           /\ RowOf(i)'.status = status'[i] /\ RowOf(i)'.version = version'[i]
           /\ RowOf(i)'.lease = lease'[i]
<1>1. RowOf(i)' = [key |-> i, digest |-> contract'[i], status |-> status'[i],
                   version |-> version'[i], lease |-> lease'[i]]
  BY DEF RowOf
<1> QED
  BY <1>1, RowIsRow DEF TypeInv, TypeOK, LedgerType

LEMMA RowClaimed ==
    ASSUME NEW r \in Ledger!Row, NEW t \in Nat
    PROVE  /\ Ledger!Claimed(r, t) \in Ledger!Row
           /\ Ledger!Claimed(r, t).key = r.key
           /\ Ledger!Claimed(r, t).digest = r.digest
           /\ Ledger!Claimed(r, t).status = r.status
           /\ Ledger!Claimed(r, t).version = r.version + 1
           /\ Ledger!Claimed(r, t).lease = t + LeaseFor
<1> DEFINE v == r.version + 1
           l == t + LeaseFor
           n == Ledger!Claimed(r, t)
<1>1. v \in Nat /\ l \in Nat
  BY NumbersAssumption DEF Ledger!Row
<1>2. n = [r EXCEPT !.version = v, !.lease = l]
  BY DEF Ledger!Claimed
<1> SUFFICES /\ n \in Ledger!Row
             /\ n.key = r.key /\ n.digest = r.digest
             /\ n.status = r.status /\ n.version = v /\ n.lease = l
  OBVIOUS
<1> HIDE DEF v, l, n
<1> QED
  BY <1>1, <1>2 DEF Ledger!Row

LEMMA RowMoved ==
    ASSUME NEW r \in Ledger!Row, NEW t \in EffectStatus
    PROVE  /\ Ledger!Moved(r, t) \in Ledger!Row
           /\ Ledger!Moved(r, t).key = r.key
           /\ Ledger!Moved(r, t).digest = r.digest
           /\ Ledger!Moved(r, t).status = t
           /\ Ledger!Moved(r, t).version = r.version + 1
           /\ Ledger!Moved(r, t).lease =
                 IF t \in ClaimableStatuses THEN r.lease ELSE 0
<1> DEFINE v == r.version + 1
           l == IF t \in ClaimableStatuses THEN r.lease ELSE 0
           n == Ledger!Moved(r, t)
<1>1. v \in Nat /\ l \in Nat
  BY DEF Ledger!Row
<1>2. n = [r EXCEPT !.status = t, !.version = v, !.lease = l]
  BY LedgerWords DEF Ledger!Moved
<1> SUFFICES /\ n \in Ledger!Row
             /\ n.key = r.key /\ n.digest = r.digest
             /\ n.status = t /\ n.version = v /\ n.lease = l
  OBVIOUS
<1> HIDE DEF v, l, n
<1> QED
  BY <1>1, <1>2, LedgerWords DEF Ledger!Row

LEMMA AppendedIs ==
    ASSUME NEW i, NEW type, NEW v, NEW data
    PROVE  Ledger!Appended(i, type, v, data)
               = trail[i] \cup {Entry(i, type, v, data)}
BY LedgerSizes DEF Ledger!Appended, Entry

\* An effect the call is not about keeps its row, its attempts and its trail.
LEMMA OthersStay ==
    ASSUME TypeInv, RecordsInv, Recorded, NEW i \in Ids,
           \A j \in Ids \ {i} : Kept(j) /\ contract'[j] = contract[j]
    PROVE  /\ Intents' = [Intents EXCEPT ![i] = RowOf(i)']
           /\ rows' = [rows EXCEPT ![i] = rows'[i]]
           /\ trail' = [trail EXCEPT ![i] = trail[i] \cup EventsOf(i)]
<1>1. \A j \in Ids \ {i} : /\ RowOf(j)' = RowOf(j)
                           /\ rows'[j] = rows[j]
                           /\ EventsOf(j) = {}
  BY EventLeft DEF Kept, RowOf, Recorded
<1>2. Intents' = [Intents EXCEPT ![i] = RowOf(i)']
  BY <1>1 DEF Intents
<1>3. rows' = [rows EXCEPT ![i] = rows'[i]]
  BY <1>1 DEF Recorded, RecordsInv, AttemptsTold
<1>4. trail' = [trail EXCEPT ![i] = trail[i] \cup EventsOf(i)]
  <2> DEFINE E == [j \in Ids |-> EventsOf(j)]
  <2>1. trail' = [j \in Ids |-> trail[j] \cup E[j]] /\ trail = [j \in Ids |-> trail[j]]
    BY DEF Recorded, RecordsInv, EdgeTold
  <2>2. E[i] = EventsOf(i) /\ \A j \in Ids \ {i} : E[j] = {}
    BY <1>1
  <2> HIDE DEF E
  <2> QED
    BY <2>1, <2>2
<1> QED
  BY <1>2, <1>3, <1>4

LEMMA RestsIsNone ==
    ASSUME TypeInv, RecordsInv, Recorded, Rests
    PROVE  UNCHANGED <<Intents, rows, trail>>
<1>1. \A j \in Ids : /\ RowOf(j)' = RowOf(j)
                     /\ rows'[j] = rows[j]
                     /\ EventsOf(j) = {}
  BY EventLeft DEF Rests, Kept, RowOf, Recorded
<1>2. Intents' = Intents
  BY <1>1 DEF Intents
<1>3. rows' = rows
  BY <1>1 DEF Recorded, RecordsInv, AttemptsTold
<1>4. trail' = trail
  <2> DEFINE E == [j \in Ids |-> EventsOf(j)]
  <2>1. trail' = [j \in Ids |-> trail[j] \cup E[j]] /\ trail = [j \in Ids |-> trail[j]]
    BY DEF Recorded, RecordsInv, EdgeTold
  <2>2. \A j \in Ids : E[j] = {}
    BY <1>1
  <2> HIDE DEF E
  <2> QED
    BY <2>1, <2>2
<1> QED
  BY <1>2, <1>3, <1>4

LEMMA SubmitIsReserve ==
    ASSUME TypeInv, TypeInv', RecordsInv, Recorded, NEW i \in Ids,
           NEW c \in Contracts, Submit(i, c)
    PROVE  Ledger!Reserve(i, i, c)
<1>1. /\ status[i] = "absent" /\ version[i] = 0 /\ lease[i] = 0
      /\ status'[i] = "prepared" /\ contract'[i] = c
      /\ version'[i] = 0 /\ lease'[i] = 0 /\ Reserves(i)
      /\ \A j \in Ids \ {i} : Kept(j) /\ contract'[j] = contract[j]
  BY DEF Submit, RecordsInv, RowsTold, TypeInv, TypeOK, LedgerType, Reserves, Kept
<1>2. Intents[i] = NoRow
  BY <1>1, RowsAre
<1>3. \A f \in Ledger!Reserved : Intents[f].key # i
  <2>1. \A f \in Ledger!Reserved : f \in Ids /\ Intents[f] # NoRow
    BY DEF Ledger!Reserved
  <2>2. \A f \in Ledger!Reserved : status[f] # "absent" /\ f # i
    BY <1>2, <2>1, RowsAre
  <2> QED
    BY <2>1, <2>2, RowsAre
<1>4. Intents' = [Intents EXCEPT ![i] =
          [key |-> i, digest |-> c, status |-> "prepared", version |-> 0,
           lease |-> 0]]
  <2>1. RowOf(i)' = [key |-> i, digest |-> c, status |-> "prepared",
                     version |-> 0, lease |-> 0]
    BY <1>1 DEF RowOf
  <2> QED
    BY <1>1, <2>1, OthersStay
<1>5. Ledger!Recorded(i, "reserved", 0, <<"prepared">>)
  <2>1. EventsOf(i) = {Entry(i, "reserved", 0, <<"prepared">>)}
    BY <1>1, EventLeft
  <2> QED
    BY <1>1, <2>1, OthersStay, AppendedIs DEF Ledger!Recorded
<1>6. rows' = rows
  <2>1. rows'[i] = rows[i]
    BY <1>1 DEF Recorded, Reserves
  <2> QED
    BY <1>1, <2>1, OthersStay DEF RecordsInv, AttemptsTold
<1> QED
  BY <1>2, <1>3, <1>4, <1>5, <1>6 DEF Ledger!Reserve

LEMMA ClaimsIsClaimDue ==
    ASSUME TypeInv, TypeInv', RecordsInv, Recorded, NEW S \in SUBSET Ids, Claims(S)
    PROVE  S \in SUBSET Ledger!Reserved /\ Ledger!ClaimDue(S, now)
<1>1. /\ \A i \in S : /\ status[i] \in ClaimableStatuses /\ lease[i] <= now
                      /\ status[i] # "absent" /\ status'[i] = status[i]
                      /\ version'[i] = version[i] + 1
                      /\ lease'[i] = now + LeaseFor
                      /\ contract'[i] = contract[i] /\ Leases(i)
      /\ \A i \in Ids \ S : Kept(i) /\ contract'[i] = contract[i]
      /\ \A i \in Ids : attempts'[i] = attempts[i]
  BY DEF Claims, TypeInv, TypeOK, LedgerType, Leases, Kept, ClaimableStatuses
<1>2. S \in SUBSET Ledger!Reserved
  BY <1>1, RowsAre
<1>3. S # {} /\ Ledger!Cardinality(S) <= Limit
  BY LedgerSizes DEF Claims
<1>4. \A i \in S : Ledger!Due(Intents[i], now)
  BY <1>1, RowsAre, LedgerWords DEF Ledger!Due
<1>5. Intents' = [i \in Ids |-> IF i \in S THEN Ledger!Claimed(Intents[i], now)
                                          ELSE Intents[i]]
  <2>1. \A i \in S : RowOf(i)' = Ledger!Claimed(Intents[i], now)
    <3> TAKE i \in S
    <3>1. /\ Intents[i] \in Ledger!Row
          /\ Intents[i].key = i /\ Intents[i].digest = contract[i]
          /\ Intents[i].status = status[i] /\ Intents[i].version = version[i]
      BY <1>1, RowsAre
    <3>2. /\ Ledger!Claimed(Intents[i], now) \in Ledger!Row
          /\ Ledger!Claimed(Intents[i], now).key = i
          /\ Ledger!Claimed(Intents[i], now).digest = contract[i]
          /\ Ledger!Claimed(Intents[i], now).status = status[i]
          /\ Ledger!Claimed(Intents[i], now).version = version[i] + 1
          /\ Ledger!Claimed(Intents[i], now).lease = now + LeaseFor
      <4> DEFINE r == Intents[i]
      <4>1. now \in Nat
        BY DEF TypeInv, TypeOK, EnvType
      <4>2. /\ Ledger!Claimed(r, now) \in Ledger!Row
            /\ Ledger!Claimed(r, now).key = r.key
            /\ Ledger!Claimed(r, now).digest = r.digest
            /\ Ledger!Claimed(r, now).status = r.status
            /\ Ledger!Claimed(r, now).version = r.version + 1
            /\ Ledger!Claimed(r, now).lease = now + LeaseFor
        BY <3>1, <4>1, RowClaimed
      <4> QED
        BY <3>1, <4>2
    <3>3. /\ RowOf(i)' \in Ledger!Row
          /\ RowOf(i)'.key = i /\ RowOf(i)'.digest = contract[i]
          /\ RowOf(i)'.status = status[i] /\ RowOf(i)'.version = version[i] + 1
          /\ RowOf(i)'.lease = now + LeaseFor
      BY <1>1, RowsBecome
    <3> QED
      BY <3>2, <3>3, SameRow
  <2>2. \A i \in Ids \ S : RowOf(i)' = Intents[i]
    BY <1>1 DEF RowOf, Kept, Intents
  <2> QED
    BY <2>1, <2>2 DEF Intents
<1>6. trail' = [i \in Ids |->
          IF i \in S
          THEN Ledger!Appended(i, "claimed", Intents[i].version + 1, <<>>)
          ELSE trail[i]]
  <2>1. ASSUME NEW i \in S
        PROVE  trail[i] \cup EventsOf(i)
                  = Ledger!Appended(i, "claimed", Intents[i].version + 1, <<>>)
    <3>1. EventsOf(i) = {Entry(i, "claimed", version'[i], <<>>)}
      BY <1>1, EventLeft
    <3>2. version'[i] = Intents[i].version + 1
      <4>1. i \in Ids /\ status[i] # "absent" /\ version'[i] = version[i] + 1
        BY <1>1
      <4>2. Intents[i].version = version[i]
        BY <4>1, RowsAre
      <4> QED
        BY <4>1, <4>2
    <3> QED
      BY <3>1, <3>2, AppendedIs
  <2>2. \A i \in Ids \ S : trail[i] \cup EventsOf(i) = trail[i]
    BY <1>1, EventLeft
  <2> QED
    BY <2>1, <2>2 DEF Recorded
<1>7. rows' = rows
  BY <1>1 DEF Recorded, RecordsInv, AttemptsTold
<1> QED
  BY <1>2, <1>3, <1>4, <1>5, <1>6, <1>7 DEF Ledger!ClaimDue

LEMMA AttemptIsStartAttempt ==
    ASSUME TypeInv, TypeInv', RecordsInv, Recorded, NEW p \in Procs,
           StartAttempt(p), NEW i, i = eff[p]
    PROVE  i \in Ledger!Reserved /\ Ledger!StartAttempt(i)
<1>1. i \in Ids /\ status[i] # "absent"
  BY DEF StartAttempt, TypeInv, TypeOK, LocalType, Reserved
<1>2. Spends(i) /\ \A j \in Ids \ {i} : Kept(j) /\ contract'[j] = contract[j]
  BY <1>1 DEF StartAttempt, TypeInv, TypeOK, LedgerType, Spends, Kept
<1>3. i \in Ledger!Reserved /\ Intents[i].version = version[i]
  BY <1>1, RowsAre
<1>4. Intents' = Intents
  <2>1. RowOf(i)' = RowOf(i)
    BY <1>1 DEF StartAttempt, RowOf
  <2> QED
    <3>1. Intents' = [Intents EXCEPT ![i] = RowOf(i)']
      BY <1>1, <1>2, OthersStay
    <3>2. Intents[i] = RowOf(i)
      BY <1>1, RowsAre
    <3>3. Intents = [j \in Ids |-> Intents[j]]
      BY DEF Intents
    <3> QED
      BY <1>1, <2>1, <3>1, <3>2, <3>3
<1>5. Ledger!Recorded(i, "attempt_started", Intents[i].version, <<>>)
  <2>1. EventsOf(i) = {Entry(i, "attempt_started", version[i], <<>>)}
    BY <1>1, <1>2, EventLeft
  <2> QED
    <3>1. Ledger!Appended(i, "attempt_started", Intents[i].version, <<>>)
             = trail[i] \cup EventsOf(i)
      BY <1>3, <2>1, AppendedIs
    <3> QED
      BY <1>1, <1>2, <3>1, OthersStay DEF Ledger!Recorded
<1>6. rows' = [rows EXCEPT ![i] = rows[i] \cup
          {[ordinal |-> Ledger!Cardinality(rows[i]) + 1,
            version |-> Intents[i].version]}]
  <2>1. attempts'[i] # attempts[i] /\ attempts'[i] = attempts[i] + 1
    BY <1>1, <1>2 DEF Spends, TypeInv, TypeOK, LedgerType
  <2>2. Ledger!Cardinality(rows[i]) = attempts[i]
    BY <1>1, LedgerSizes DEF RecordsInv, AttemptsTold
  <2>3. rows'[i] = rows[i] \cup {[ordinal |-> attempts[i] + 1, version |-> version[i]]}
    BY <1>1, <2>1 DEF Recorded
  <2> QED
    BY <1>1, <1>2, <1>3, <2>2, <2>3, OthersStay
<1> QED
  BY <1>3, <1>4, <1>5, <1>6 DEF Ledger!StartAttempt

\* No edge leads from one claimable status to another: the lease the in-memory
\* store keeps for a claimable target has been cleared long before.
LEMMA WriteIsTransition ==
    ASSUME TypeInv, TypeInv', RecordsInv, Recorded, NEW i \in Ids,
           NEW s \in EffectStatus, IsAllowed(status[i], s), Write(i, s)
    PROVE  i \in Ledger!Reserved /\ Ledger!Transition(i, s)
<1>1. /\ status[i] # "absent" /\ status'[i] = s /\ s # "absent"
      /\ version'[i] = version[i] + 1
      /\ lease'[i] = 0 /\ Moves(i) /\ contract'[i] = contract[i]
      /\ \A j \in Ids \ {i} : Kept(j) /\ contract'[j] = contract[j]
  BY DEF Write, TypeInv, TypeOK, LedgerType, Moves, Kept, IsAllowed, EffectStatus
<1>2. i \in Ledger!Reserved /\ Intents[i].version = version[i]
      /\ Intents[i].status = status[i]
  BY <1>1, RowsAre
<1>3. lease'[i] = IF s \in ClaimableStatuses THEN lease[i] ELSE 0
  BY <1>1 DEF RecordsInv, RowsTold, IsAllowed, ClaimableStatuses, Resolutions
<1>4. Intents' = [Intents EXCEPT ![i] = Ledger!Moved(Intents[i], s)]
  <2>1. RowOf(i)' = Ledger!Moved(Intents[i], s)
    <3>1. /\ Intents[i] \in Ledger!Row
          /\ Intents[i].key = i /\ Intents[i].digest = contract[i]
          /\ Intents[i].version = version[i] /\ Intents[i].lease = lease[i]
      BY <1>1, RowsAre
    <3>2. /\ Ledger!Moved(Intents[i], s) \in Ledger!Row
          /\ Ledger!Moved(Intents[i], s).key = i
          /\ Ledger!Moved(Intents[i], s).digest = contract[i]
          /\ Ledger!Moved(Intents[i], s).status = s
          /\ Ledger!Moved(Intents[i], s).version = version[i] + 1
          /\ Ledger!Moved(Intents[i], s).lease =
                IF s \in ClaimableStatuses THEN lease[i] ELSE 0
      BY <3>1, RowMoved
    <3>3. /\ RowOf(i)' \in Ledger!Row
          /\ RowOf(i)'.key = i /\ RowOf(i)'.digest = contract[i]
          /\ RowOf(i)'.status = s /\ RowOf(i)'.version = version[i] + 1
          /\ RowOf(i)'.lease = lease'[i]
      BY <1>1, RowsBecome
    <3> QED
      BY <1>3, <3>2, <3>3, SameRow
  <2> QED
    BY <1>1, <2>1, OthersStay
<1>5. Ledger!Recorded(i, "transition", Intents[i].version + 1,
                      <<Intents[i].status, s>>)
  <2>1. EventsOf(i) = {Entry(i, "transition", version[i] + 1, <<status[i], s>>)}
    BY <1>1, EventLeft
  <2> QED
    <3>1. Ledger!Appended(i, "transition", Intents[i].version + 1,
                          <<Intents[i].status, s>>) = trail[i] \cup EventsOf(i)
      BY <1>2, <2>1, AppendedIs
    <3> QED
      BY <1>1, <3>1, OthersStay DEF Ledger!Recorded
<1>6. rows' = rows
  <2>1. rows'[i] = rows[i]
    BY <1>1 DEF Recorded, Moves
  <2> QED
    BY <1>1, <2>1, OthersStay DEF RecordsInv, AttemptsTold
<1>7. Ledger!IsAllowed(Intents[i].status, s)
  BY <1>2, LedgerWords
<1> QED
  BY <1>2, <1>4, <1>5, <1>6, <1>7 DEF Ledger!Transition

LEMMA CallIsLedgerStep ==
    /\ TypeInv /\ RecordsInv /\ TypeInv' /\ [LNext]_<<vars, history>>
    => [Ledger!LedgerNext]_<<Intents, rows, trail>>
<1> SUFFICES ASSUME TypeInv, RecordsInv, TypeInv', [LNext]_<<vars, history>>
             PROVE  Ledger!LedgerNext \/ UNCHANGED <<Intents, rows, trail>>
  OBVIOUS
<1>1. [Next]_vars /\ Recorded /\ RowsTold
  BY LeavesRecord DEF RecordsInv
<1>2. CASE Rests
  BY <1>1, <1>2, RestsIsNone
<1>3. CASE \E i \in Ids, c \in Contracts : Submit(i, c)
  <2>1. PICK i \in Ids, c \in Contracts : Submit(i, c)
    BY <1>3
  <2>2. Ledger!Reserve(i, i, c)
    BY <1>1, <2>1, SubmitIsReserve
  <2> QED
    BY <2>2 DEF Ledger!LedgerNext
<1>4. CASE \E S \in SUBSET Ids : Claims(S)
  <2>1. PICK S \in SUBSET Ids : Claims(S)
    BY <1>4
  <2>2. S \in SUBSET Ledger!Reserved /\ Ledger!ClaimDue(S, now)
    BY <1>1, <2>1, ClaimsIsClaimDue
  <2>3. now \in 0..MaxTime
    BY <1>1 DEF RowsTold
  <2> QED
    BY <2>2, <2>3 DEF Ledger!LedgerNext
<1>5. CASE \E p \in Procs : StartAttempt(p)
  <2>1. PICK p \in Procs : StartAttempt(p)
    BY <1>5
  <2>2. eff[p] \in Ledger!Reserved /\ Ledger!StartAttempt(eff[p])
    BY <1>1, <2>1, AttemptIsStartAttempt
  <2> QED
    BY <2>2 DEF Ledger!LedgerNext
<1>6. CASE \E i \in Ids, s \in EffectStatus : IsAllowed(status[i], s) /\ Write(i, s)
  <2>1. PICK i \in Ids, s \in EffectStatus : IsAllowed(status[i], s) /\ Write(i, s)
    BY <1>6
  <2>2. i \in Ledger!Reserved /\ Ledger!Transition(i, s)
    BY <1>1, <2>1, WriteIsTransition
  <2>3. s \in Ledger!EffectStatus
    BY LedgerWords
  <2> QED
    BY <2>2, <2>3 DEF Ledger!LedgerNext
<1> QED
  BY <1>1, <1>2, <1>3, <1>4, <1>5, <1>6, StoreCalls

\* Workers, reconcilers, API sessions, callers and operators do to the ledger
\* what EffectLedger allows, whatever crashes or arrives late: one call of the
\* store at a time, or nothing.
THEOREM LedgerIsKept == LSpec => IsLedger
<1>1. LInit => Ledger!LedgerInit
  BY DEF LInit, Init, Ledger!LedgerInit, Intents, RowOf
<1>2. /\ TypeInv /\ RecordsInv /\ TypeInv' /\ [LNext]_<<vars, history>>
      => [Ledger!LedgerNext]_<<Intents, rows, trail>>
  BY CallIsLedgerStep
<1> QED
  BY <1>1, <1>2, AlwaysOnRecord, PTL DEF LSpec, IsLedger, Ledger!LedgerSpec
=============================================================================
