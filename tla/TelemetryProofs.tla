---------------------------- MODULE TelemetryProofs ----------------------------
(***************************************************************************)
(* The metrics, for any number of processes, of API sessions and of        *)
(* effects.                                                                *)
(*                                                                         *)
(* Unknown effects: while no process ends, each is in a table or about to  *)
(* be.  A record may be late, and another may overtake it: what keeps a    *)
(* late one from taking away an effect that is unknown again is that the   *)
(* process which owes it still has the effect to itself.                   *)
(*                                                                         *)
(* Counters: what has been counted and what is owed together never exceed  *)
(* what has happened, and make it up while no process ends.  There may be  *)
(* infinitely many processes: that the sets counted are finite is part of  *)
(* the invariant.                                                          *)
(***************************************************************************)
EXTENDS Telemetry, BrokerFencing, FiniteSetTheorems

Debts ==
    {NoDebt} \cup [what : {"attempts", "fenced"}]
        \cup [what : {"transition"}, id : Ids,
              before : EffectStatus \cup {"absent"},
              after : EffectStatus \cup {"absent"}]

TelemetryType ==
    /\ unknowns \in [Registries -> SUBSET Ids]
    /\ owes \in [Procs -> Debts]

\* i has left OUTCOME_UNKNOWN and does not come back before p goes on.
Gone(p, i) ==
    \/ status[i] \in {"dispatching", "reconciling"} /\ Owner(p, i)
    \/ status[i] \in TerminalStatuses \cup {"manual_review"}

Departed ==
    \A p \in Procs :
        /\ owes[p].what = "transition" /\ owes[p].before = "outcome_unknown"
        /\ owes[p].after # "outcome_unknown"
        => Gone(p, owes[p].id)

TrackedInv ==
    AllAlive =>
        TypeInv /\ FencedInv /\ TelemetryType /\ Departed /\ UnknownsTracked

-----------------------------------------------------------------------------
(* What a process does in the store *)

\* What Work lets a process do.
Works(p) ==
    \/ Step(p)
    \/ AdapterFactoryFails(p) \/ StoreFails(p) \/ ProbeFails(p) \/ Timeout(p)
    \/ p \in Handlers /\ \E i \in Ids : HandlerGet(p, i)

\* Nothing of the others changes.
Alone(p) ==
    \A q \in Procs \ {p} :
        pc'[q] = pc[q] /\ eff'[q] = eff[q] /\ ver'[q] = ver[q]

\* A step that changes no status outdates only what can be claimed ...
Quiet ==
    /\ status' = status
    /\ \A i \in Ids : status[i] \notin ClaimableStatuses => version'[i] = version[i]

\* ... and the others are the accepted transitions.
TransitsOf(p, i) ==
    /\ pc[p] \in Writing /\ eff[p] = i /\ Accepted(p) /\ Write(i, Goal(p))
    /\ pc[p] \in {"claimed", "redispatch", "reconcile"} => Owner(p, i)'

Transits(p) == \E i \in Ids : TransitsOf(p, i)

LEMMA AdvanceTransits ==
    ASSUME TypeInv, NEW p \in Procs, NEW l \in {"attempt", "probe"}, Advance(p, l),
           pc[p] \in Writing
    PROVE  Alone(p) /\ Transits(p)
<1>1. PICK i \in Ids : eff[p] = i
  BY DEF TypeInv, TypeOK, LocalType, Writing
<1>2. Alone(p)
  BY DEF Advance, Goto, Alone, TypeInv, TypeOK, LocalType
<1>3. /\ version'[i] = version[i] + 1 /\ ver'[p][i] = ver[p][i] + 1
      /\ pc'[p] = l /\ eff'[p] = i
  BY <1>1 DEF Advance, Write, Goto, TypeInv, TypeOK, LocalType, LedgerType
<1>4. Owner(p, i)'
  BY <1>1, <1>3 DEF Advance, Accepted, Current, Owner, Dispatching, Probing
<1> QED
  BY <1>1, <1>2, <1>4 DEF Advance, Transits, TransitsOf

LEMMA CloseTransits ==
    ASSUME TypeInv, NEW p \in Procs, Close(p), pc[p] \in Writing,
           pc[p] \notin {"claimed", "redispatch", "reconcile"}
    PROVE  Alone(p) /\ Transits(p)
<1>1. PICK i \in Ids : eff[p] = i
  BY DEF TypeInv, TypeOK, LocalType, Writing
<1>2. Alone(p)
  BY TakeNextLabel DEF Close, Finish, Alone, TypeInv, TypeOK, LocalType
<1> QED
  BY <1>1, <1>2 DEF Close, Transits, TransitsOf

LEMMA WorkDoes ==
    ASSUME TypeInv, FencedInv, NEW p \in Procs, Works(p)
    PROVE  Alone(p) /\ (Quiet \/ Transits(p))
<1>1. CASE (p \in Workers /\ ClaimDue(p)) \/ List(p)
  <2>1. PICK S : TakeNext(p, S)
    BY <1>1 DEF ClaimDue, List
  <2>2. Alone(p)
    BY <1>1, <2>1, TakeNextLabel
    DEF ClaimDue, List, Alone, TypeInv, TypeOK, LocalType
  <2>3. Quiet
    BY <1>1, OldestInside
    DEF ClaimDue, List, Quiet, ledger, Due, TypeInv, TypeOK, LedgerType
  <2> QED
    BY <2>2, <2>3
<1>2. CASE Get(p) \/ StartAttempt(p) \/ Send(p) \/ Probe(p)
  BY <1>2
  DEF Get, StartAttempt, Send, Probe, Goto, Alone, Quiet, ledger, TypeInv, TypeOK,
      LocalType
<1>3. CASE BeginDispatch(p)
  BY <1>3, AdvanceTransits DEF BeginDispatch, Writing
<1>4. CASE BeginProbe(p)
  BY <1>4, AdvanceTransits DEF BeginProbe, Writing
<1>5. CASE Settle(p) \/ Conclude(p)
  BY <1>5, CloseTransits DEF Settle, Conclude, Writing
<1>6. CASE Refused(p) \/ ProbeFails(p)
  BY <1>6, StopLabel DEF Refused, ProbeFails, Alone, Quiet, ledger
<1>7. CASE AdapterFactoryFails(p) \/ Timeout(p) \/ StoreFails(p)
  <2>1. Quiet
    BY <1>7 DEF AdapterFactoryFails, Timeout, StoreFails, Quiet, ledger
  <2>2. CASE Stop(p)
    BY <2>1, <2>2, StopLabel DEF Alone
  <2>3. CASE Goto(p, "ambiguous") /\ UNCHANGED <<eff, ver>>
    BY <2>1, <2>3 DEF Goto, Alone, TypeInv, TypeOK, LocalType
  <2> QED
    BY <1>7, <2>2, <2>3 DEF AdapterFactoryFails, Timeout, StoreFails
<1>8. CASE p \in Handlers /\ \E i \in Ids : HandlerGet(p, i)
  BY <1>8
  DEF HandlerGet, Goto, Alone, Quiet, ledger, TypeInv, TypeOK, LocalType
<1> QED
  BY <1>1, <1>2, <1>3, <1>4, <1>5, <1>6, <1>7, <1>8 DEF Works, Step

\* An effect that left OUTCOME_UNKNOWN with p does not come back while another
\* process works: what p owns no other may write, and of what is settled or in
\* an operator's hands no process can say that it is unknown.
LEMMA GoneThroughWork ==
    ASSUME TypeInv, FencedInv, NEW p \in Procs, NEW q \in Procs \ {p},
           Works(q), NEW i \in Ids, Gone(p, i)
    PROVE  Gone(p, i)'
<1>1. Alone(q) /\ (Quiet \/ Transits(q))
  BY WorkDoes
<1>2. pc'[p] = pc[p] /\ eff'[p] = eff[p] /\ ver'[p] = ver[p]
  BY <1>1 DEF Alone
<1>3. CASE status'[i] = status[i] /\ version'[i] = version[i]
  BY <1>2, <1>3 DEF Gone, Owner
<1>4. CASE Quiet
  <2>1. status'[i] = status[i]
    BY <1>4 DEF Quiet
  <2>2. status[i] \notin ClaimableStatuses
    BY DEF Gone, ClaimableStatuses, TerminalStatuses
  <2> QED
    BY <1>3, <1>4, <2>1, <2>2 DEF Quiet
<1>5. CASE Transits(q) /\ eff[q] # i
  BY <1>3, <1>5 DEF Transits, TransitsOf, Write, TypeInv, TypeOK, LedgerType
<1>6. CASE Transits(q) /\ eff[q] = i
  <2>1. /\ pc[q] \in Writing /\ ver[q][i] = version[i]
        /\ IsAllowed(status[i], Goal(q)) /\ status'[i] = Goal(q)
    BY <1>6
    DEF Transits, TransitsOf, Accepted, Current, Write, TypeInv, TypeOK, LedgerType
  <2>2. CASE status[i] \in {"dispatching", "reconciling"}
    <3>1. Owner(p, i)
      BY <2>2 DEF Gone, TerminalStatuses
    <3>2. ~Owner(q, i)
      BY <3>1 DEF FencedInv, Fenced, Holds
    <3>3. pc[q] \notin Dispatching \cup Probing
      BY <1>6, <2>1, <3>2 DEF Owner
    <3>4. Goal(q) = "manual_review"
      BY <2>1, <2>2, <3>3 DEF Goal, IsAllowed, Writing, Dispatching, Probing
    <3> QED
      BY <2>1, <3>4 DEF Gone
  <2>3. CASE status[i] \notin {"dispatching", "reconciling"}
    <3>1. Goal(q) \in TerminalStatuses
      BY <2>1, <2>3 DEF Gone, IsAllowed, TerminalStatuses, Resolutions
    <3> QED
      BY <2>1, <3>1 DEF Gone
  <2> QED
    BY <2>2, <2>3
<1> QED
  BY <1>1, <1>4, <1>5, <1>6

\* Nor while the callers, the target and the clock go on, nor by a restart.
LEMMA GoneThroughRest ==
    ASSUME TypeInv, FencedInv, ~Recovery,
           Callers \/ TargetStep \/ Tick \/ \E q \in Procs : Restart(q),
           NEW p \in Procs, NEW i \in Ids, Gone(p, i)
    PROVE  Gone(p, i)'
<1>1. CASE Callers
  <2>1. PICK j \in Ids : \/ \E c \in Contracts : Submit(j, c)
                         \/ Cancel(j)
                         \/ \E s \in Resolutions : Resolve(j, s)
    BY <1>1 DEF Callers, MarkUnknown
  <2>2. CASE j # i
    <3>1. /\ status'[i] = status[i] /\ version'[i] = version[i]
          /\ UNCHANGED local
      BY <2>1, <2>2
      DEF Submit, Cancel, Resolve, Write, TypeInv, TypeOK, LedgerType
    <3> QED
      BY <3>1 DEF Gone, Owner, local
  <2>3. CASE j = i
    <3>1. \E s \in Resolutions : status' = [status EXCEPT ![i] = s]
      BY <2>1, <2>3
      DEF Submit, Cancel, Resolve, Write, Gone, ClaimableStatuses, TerminalStatuses
    <3>2. status'[i] \in Resolutions
      BY <3>1 DEF TypeInv, TypeOK, LedgerType
    <3> QED
      BY <3>2 DEF Gone, Resolutions, TerminalStatuses
  <2> QED
    BY <2>2, <2>3
<1>2. CASE TargetStep
  <2>1. PICK r \in requests, l \in {"committed", "ambiguous", "rejected"} :
          Answer(r, l)
    BY <1>2 DEF TargetStep, Commit, CommitUnconfirmed, Reject, Drop
  <2>2. Owner(p, i) => Owner(p, i)'
    BY <2>1 DEF Answer, Awaits, Owner, Dispatching, Probing, ledger
  <2> QED
    BY <2>1, <2>2 DEF Gone, Answer, ledger
<1>3. CASE Tick
  BY <1>3 DEF Tick, Gone, Owner, ledger, local
<1>4. CASE \E q \in Procs : Restart(q)
  <2>1. Owner(p, i) => Owner(p, i)'
    BY <1>4
    DEF Restart, Goto, Owner, Dispatching, Probing, ledger, TypeInv, TypeOK,
        LocalType
  <2> QED
    BY <1>4, <2>1 DEF Restart, Gone, ledger
<1> QED
  BY <1>1, <1>2, <1>3, <1>4

\* They write OUTCOME_UNKNOWN nowhere.
LEMMA RestQuiet ==
    ASSUME TypeInv, ~Recovery,
           Callers \/ TargetStep \/ Tick \/ \E q \in Procs : Restart(q)
    PROVE  \A i \in Ids : status'[i] = "outcome_unknown" => status[i] = "outcome_unknown"
<1>1. CASE Callers
  BY <1>1
  DEF Callers, MarkUnknown, Submit, Cancel, Resolve, Write, Resolutions, TypeInv,
      TypeOK, LedgerType
<1>2. CASE TargetStep \/ Tick \/ \E q \in Procs : Restart(q)
  BY <1>2
  DEF TargetStep, Commit, CommitUnconfirmed, Reject, Drop, Answer, Tick, Restart,
      ledger
<1> QED
  BY <1>1, <1>2

-----------------------------------------------------------------------------
(* The steps of the metrics *)

\* A process works, and owes the record of what it did.
Worked(p) ==
    /\ owes[p] = NoDebt /\ Works(p)
    /\ owes' = [owes EXCEPT ![p] = Debt(p)] /\ UNCHANGED unknowns

\* While no process ends, a step of the metrics is one of Broker's by a process
\* that has recorded the last, one of the others', or a record.
LEMMA AliveSteps ==
    ASSUME [TNext]_allVars, AllAlive'
    PROVE  /\ AllAlive /\ [Next]_vars
           /\ \/ \E p \in Procs : Worked(p)
              \/ \E p \in Procs : Record(p)
              \/ /\ Callers \/ TargetStep \/ Tick \/ \E q \in Procs : Restart(q)
                 /\ UNCHANGED <<unknowns, owes>>
              \/ UNCHANGED allVars
<1>1. CASE Client
  BY <1>1 DEF Client, AllAlive, Next, Callers, telemetry
<1>2. ASSUME NEW p \in Procs, Work(p)
      PROVE  AllAlive /\ Next /\ Worked(p)
  <2>1. pc'[p] # "stopped"
    BY <1>2 DEF Work, Lose, AllAlive
  <2> QED
    BY <1>2, <2>1 DEF Work, Works, Worked, AllAlive, Next, Mishap
<1>3. ASSUME NEW p \in Procs, Record(p)
      PROVE  AllAlive /\ UNCHANGED vars
  BY <1>3 DEF Record, AllAlive
<1>4. ~\E p \in Procs : Death(p)
  BY DEF Death, Lose, AllAlive
<1>5. CASE (\E p \in Procs : Restart(p) /\ UNCHANGED telemetry)
             \/ ((TargetStep \/ Tick) /\ UNCHANGED telemetry)
  BY <1>5 DEF telemetry, AllAlive, Next
<1>6. CASE UNCHANGED allVars
  BY <1>6 DEF allVars, telemetry, AllAlive
<1> QED
  BY <1>1, <1>2, <1>3, <1>4, <1>5, <1>6 DEF TNext

LEMMA WorkTracked ==
    ASSUME TypeInv, FencedInv, TypeInv', TelemetryType, Departed, UnknownsTracked,
           AllAlive, NEW p \in Procs, Worked(p)
    PROVE  TelemetryType' /\ Departed' /\ UnknownsTracked'
<1>0. Alone(p) /\ (Quiet \/ Transits(p))
  BY WorkDoes DEF Worked
<1>1. /\ owes' = [owes EXCEPT ![p] = Debt(p)] /\ unknowns' = unknowns
      /\ owes'[p] = Debt(p) /\ \A q \in Procs \ {p} : owes'[q] = owes[q]
      /\ owes[p] = NoDebt
  BY DEF Worked, TelemetryType
<1>2. CASE status' = status
  <2>1. Debt(p) \in {NoDebt, [what |-> "attempts"], [what |-> "fenced"]}
    BY <1>2 DEF Debt
  <2>2. Debt(p) \in Debts /\ Debt(p).what # "transition"
    BY <2>1 DEF Debts, NoDebt
  <2>3. TelemetryType'
    BY <1>1, <2>2 DEF TelemetryType
  <2>4. Departed'
    <3>1. ASSUME NEW q \in Procs \ {p}, owes[q].what = "transition",
                 owes[q].before = "outcome_unknown",
                 owes[q].after # "outcome_unknown"
          PROVE  Gone(q, owes[q].id)'
      <4>1. owes[q].id \in Ids
        BY <3>1 DEF TelemetryType, Debts, NoDebt
      <4> QED
        BY <3>1, <4>1, GoneThroughWork DEF Departed, Worked
    <3> QED
      BY <1>1, <2>2, <3>1 DEF Departed
  <2>5. UnknownsTracked'
    BY <1>1, <1>2 DEF UnknownsTracked, NoDebt
  <2> QED
    BY <2>3, <2>4, <2>5
<1>3. CASE status' # status
  <2>0. PICK i \in Ids : TransitsOf(p, i)
    BY <1>0, <1>3 DEF Quiet, Transits
  <2>1. /\ status'[i] = Goal(p) /\ IsAllowed(status[i], Goal(p))
        /\ \A j \in Ids \ {i} : status'[j] = status[j]
        /\ attempts' = attempts /\ Current(p)
    BY <2>0 DEF TransitsOf, Accepted, Write, TypeInv, TypeOK, LedgerType
  <2>2. Debt(p) = [what |-> "transition", id |-> i, before |-> status[i],
                   after |-> status'[i]]
    BY <1>3, <2>0, <2>1 DEF TransitsOf, Debt
  <2>3. Debt(p) \in Debts
    BY <2>1, <2>2 DEF Debts, TypeInv, TypeOK, LedgerType
  <2>4. TelemetryType'
    BY <1>1, <2>3 DEF TelemetryType
  <2>5. ASSUME status[i] = "outcome_unknown", status'[i] # "outcome_unknown"
        PROVE  Gone(p, i)'
    <3>1. Goal(p) \in {"dispatching", "reconciling", "manual_review"}
      BY <2>1, <2>5 DEF IsAllowed
    <3>2. CASE Goal(p) = "manual_review"
      BY <2>1, <3>2 DEF Gone
    <3>3. CASE Goal(p) \in {"dispatching", "reconciling"}
      <4>1. Owner(p, i)'
        BY <2>0, <3>3 DEF TransitsOf, Goal, Writing
      <4> QED
        BY <2>1, <3>3, <4>1 DEF Gone
    <3> QED
      BY <3>1, <3>2, <3>3
  <2>6. Departed'
    <3>1. ASSUME NEW q \in Procs \ {p}, owes[q].what = "transition",
                 owes[q].before = "outcome_unknown",
                 owes[q].after # "outcome_unknown"
          PROVE  Gone(q, owes[q].id)'
      <4>1. owes[q].id \in Ids
        BY <3>1 DEF TelemetryType, Debts, NoDebt
      <4> QED
        BY <3>1, <4>1, GoneThroughWork DEF Departed, Worked
    <3>2. /\ Debt(p).before = status[i] /\ Debt(p).after = status'[i]
          /\ Debt(p).id = i
      BY <2>2
    <3> QED
      BY <1>1, <2>5, <3>1, <3>2 DEF Departed
  <2>7. UnknownsTracked'
    <3>1. /\ Debt(p) # NoDebt /\ Debt(p).what = "transition"
          /\ Debt(p).id = i /\ Debt(p).after = status'[i]
      <4>1. /\ Debt(p).what = "transition" /\ Debt(p).id = i
            /\ Debt(p).after = status'[i] /\ NoDebt.what = "nothing"
        BY <2>2 DEF NoDebt
      <4> QED
        BY <4>1
    <3>2. ASSUME NEW j \in Ids, status'[j] = "outcome_unknown"
          PROVE  \/ \E q \in Registries : j \in unknowns'[q]
                 \/ \E q \in Procs : /\ owes'[q] # NoDebt
                                     /\ owes'[q].what = "transition"
                                     /\ owes'[q].id = j
                                     /\ owes'[q].after = "outcome_unknown"
      <4>1. CASE j = i
        BY <1>1, <3>1, <3>2, <4>1
      <4>2. CASE j # i
        <5>1. status[j] = "outcome_unknown"
          BY <2>1, <3>2, <4>2
        <5> QED
          BY <1>1, <5>1 DEF UnknownsTracked
      <4> QED
        BY <4>1, <4>2
    <3> QED
      BY <3>2 DEF UnknownsTracked
  <2> QED
    BY <2>4, <2>6, <2>7
<1> QED
  BY <1>2, <1>3

LEMMA RecordTracked ==
    ASSUME TypeInv, TelemetryType, Departed, UnknownsTracked, AllAlive,
           NEW p \in Procs, Record(p)
    PROVE  TelemetryType' /\ Departed' /\ UnknownsTracked'
<1> DEFINE d == owes[p]
<1>1. /\ d # NoDebt /\ UNCHANGED <<status, version, pc, eff, ver, ended>>
      /\ owes' = [owes EXCEPT ![p] = NoDebt]
      /\ \/ d.what = "transition" /\ TrackUnknown(Registry(p), d)
         \/ d.what # "transition" /\ unknowns' = unknowns
  BY DEF Record, RecordTransition, vars, ledger, local
<1>2. owes'[p] = NoDebt /\ \A q \in Procs \ {p} : owes'[q] = owes[q]
  BY <1>1 DEF TelemetryType
<1>3. d.what = "transition" => d.id \in Ids
  BY DEF TelemetryType, Debts, NoDebt
<1>4. PICK g \in Registries : g = Registry(p)
  BY DEF Registry, Registries, Procs
<1>5. \/ d.what = "transition"
           /\ unknowns' = [unknowns EXCEPT
                 ![g] = IF d.after = "outcome_unknown" THEN unknowns[g] \cup {d.id}
                        ELSE IF d.before = "outcome_unknown"
                             THEN unknowns[g] \ {d.id}
                             ELSE unknowns[g]]
      \/ d.what # "transition" /\ unknowns' = unknowns
  BY <1>1, <1>4 DEF TrackUnknown
<1>6. TelemetryType'
  <2>1. unknowns' \in [Registries -> SUBSET Ids]
    BY <1>3, <1>5 DEF TelemetryType
  <2>2. owes' \in [Procs -> Debts]
    BY <1>1 DEF TelemetryType, Debts
  <2> QED
    BY <2>1, <2>2 DEF TelemetryType
<1>7. Departed'
  <2>1. \A q \in Procs, i \in Ids : Gone(q, i)' <=> Gone(q, i)
    BY <1>1 DEF Gone, Owner
  <2>2. owes'[p].what # "transition"
    BY <1>2 DEF NoDebt
  <2>3. \A q \in Procs : owes[q].what = "transition" => owes[q].id \in Ids
    BY DEF TelemetryType, Debts, NoDebt
  <2>4. \A q \in Procs \ {p} : owes'[q] = owes[q]
    BY <1>2
  <2>5. ASSUME NEW q \in Procs, owes'[q].what = "transition",
               owes'[q].before = "outcome_unknown",
               owes'[q].after # "outcome_unknown"
        PROVE  Gone(q, owes[q].id)' /\ owes'[q] = owes[q]
    <3>1. q # p /\ owes'[q] = owes[q]
      BY <2>2, <2>4, <2>5
    <3>2. PICK i \in Ids : i = owes[q].id
      BY <2>3, <2>5, <3>1
    <3>3. Gone(q, i)'
      BY <2>1, <2>5, <3>1, <3>2 DEF Departed
    <3> QED
      BY <3>1, <3>2, <3>3
  <2> QED
    BY <2>5 DEF Departed
<1>8. UnknownsTracked'
  <2>1. ASSUME NEW i \in Ids, status[i] = "outcome_unknown"
        PROVE  \/ \E q \in Registries : i \in unknowns'[q]
               \/ \E q \in Procs : /\ owes'[q] # NoDebt
                                   /\ owes'[q].what = "transition"
                                   /\ owes'[q].id = i
                                   /\ owes'[q].after = "outcome_unknown"
    <3>1. CASE \E q \in Registries : i \in unknowns[q]
      <4>1. PICK q \in Registries : i \in unknowns[q]
        BY <3>1
      <4>2. ~(d.what = "transition" /\ d.before = "outcome_unknown"
                /\ d.after # "outcome_unknown" /\ d.id = i)
        <5>1. ~Gone(p, i)
          BY <2>1 DEF Gone, TerminalStatuses
        <5> QED
          BY <5>1 DEF Departed
      <4>3. i \in unknowns'[q]
        BY <1>5, <4>1, <4>2 DEF TelemetryType
      <4> QED
        BY <4>3
    <3>2. CASE \E q \in Procs : /\ owes[q] # NoDebt
                                /\ owes[q].what = "transition"
                                /\ owes[q].id = i
                                /\ owes[q].after = "outcome_unknown"
      <4>1. PICK q \in Procs : /\ owes[q] # NoDebt
                               /\ owes[q].what = "transition"
                               /\ owes[q].id = i
                               /\ owes[q].after = "outcome_unknown"
        BY <3>2
      <4>2. CASE q = p
        <5>1. i \in unknowns'[g]
          BY <1>5, <4>1, <4>2 DEF TelemetryType
        <5> QED
          BY <5>1
      <4>3. CASE q # p
        BY <1>2, <4>1, <4>3
      <4> QED
        BY <4>2, <4>3
    <3> QED
      BY <2>1, <3>1, <3>2 DEF UnknownsTracked
  <2> QED
    BY <1>1, <2>1 DEF UnknownsTracked
<1> QED
  BY <1>6, <1>7, <1>8

-----------------------------------------------------------------------------
(* No unknown effect goes unseen *)

LEMMA TrackedInit == TInit => TrackedInv
<1> SUFFICES ASSUME TInit PROVE TrackedInv
  OBVIOUS
<1>1. TypeInv /\ FencedInv
  BY TypeInit, FencedInit DEF TInit
<1>2. TelemetryType /\ Departed
  BY DEF TInit, TelemetryType, Debts, Departed, NoDebt
<1>3. UnknownsTracked
  BY DEF TInit, Init, UnknownsTracked
<1> QED
  BY <1>1, <1>2, <1>3 DEF TrackedInv

LEMMA TrackedStep ==
    ASSUME ~Recovery, TrackedInv, [TNext]_allVars
    PROVE  TrackedInv'
<1> SUFFICES ASSUME AllAlive'
             PROVE  /\ TypeInv' /\ FencedInv'
                    /\ TelemetryType' /\ Departed' /\ UnknownsTracked'
  BY DEF TrackedInv
<1>1. AllAlive /\ [Next]_vars
  BY AliveSteps
<1>2. TypeInv /\ FencedInv /\ TelemetryType /\ Departed /\ UnknownsTracked
  BY <1>1 DEF TrackedInv
<1>3. TypeInv' /\ FencedInv'
  BY <1>1, <1>2, TypeStep, FencedStep
<1>4. CASE \E p \in Procs : Worked(p)
  BY <1>1, <1>2, <1>3, <1>4, WorkTracked
<1>5. CASE \E p \in Procs : Record(p)
  BY <1>1, <1>2, <1>3, <1>5, RecordTracked
<1>6. CASE /\ Callers \/ TargetStep \/ Tick \/ \E q \in Procs : Restart(q)
           /\ UNCHANGED <<unknowns, owes>>
  <2>1. TelemetryType'
    BY <1>2, <1>6 DEF TelemetryType
  <2>2. Departed'
    <3>1. ASSUME NEW p \in Procs, owes[p].what = "transition",
                 owes[p].before = "outcome_unknown",
                 owes[p].after # "outcome_unknown"
          PROVE  Gone(p, owes[p].id)'
      <4>1. PICK i \in Ids : i = owes[p].id
        BY <1>2, <3>1 DEF TelemetryType, Debts, NoDebt
      <4>2. Gone(p, i)'
        BY <1>2, <1>6, <3>1, <4>1, GoneThroughRest DEF Departed
      <4> QED
        BY <1>6, <4>1, <4>2
    <3> QED
      BY <1>6, <3>1 DEF Departed
  <2>3. UnknownsTracked'
    BY <1>1, <1>2, <1>6, RestQuiet DEF UnknownsTracked
  <2> QED
    BY <1>3, <2>1, <2>2, <2>3
<1>7. CASE UNCHANGED allVars
  BY <1>1, <1>2, <1>3, <1>7
  DEF allVars, telemetry, vars, ledger, local, TelemetryType, Departed, Gone, Owner,
      UnknownsTracked
<1> QED
  BY <1>3, <1>4, <1>5, <1>6, <1>7, AliveSteps

\* While no process ends, and nobody writes an outcome unknown past the broker
\* (the package never does), every unknown effect is in the table of a process
\* or about to be, for any number of processes and sessions in whatever order
\* they record.  Which tables are scraped is another question.
THEOREM UnknownsAreTracked ==
    ASSUME ~Recovery
    PROVE  TSpec => []UnknownsTracked
<1>1. TrackedInv => UnknownsTracked
  BY DEF TrackedInv, UnknownsTracked
<1>2. ~Recovery /\ TrackedInv /\ [TNext]_allVars => TrackedInv'
  BY TrackedStep
<1> QED
  BY <1>1, <1>2, TrackedInit, PTL DEF TSpec

-----------------------------------------------------------------------------
(* What is counted, what is still to be counted, and what happened *)

\* I has been counted and D is owed, of what has happened, W.  Without a death
\* nothing is missing.
Balanced(alive, I, D, W) ==
    /\ IsFiniteSet(I) /\ IsFiniteSet(D) /\ IsFiniteSet(W)
    /\ Cardinality(I) + Cardinality(D) <= Cardinality(W)
    /\ alive => Cardinality(I) + Cardinality(D) = Cardinality(W)

\* It happens once more, and p owes the record.
LEMMA BalanceOwes ==
    ASSUME NEW a, NEW I, NEW D, NEW W, Balanced(a, I, D, W),
           NEW p, p \notin D, NEW x, x \notin W
    PROVE  Balanced(a, I, D \cup {p}, W \cup {x})
<1>1. /\ IsFiniteSet(D \cup {p}) /\ Cardinality(D \cup {p}) = Cardinality(D) + 1
      /\ IsFiniteSet(W \cup {x}) /\ Cardinality(W \cup {x}) = Cardinality(W) + 1
  BY FS_AddElement DEF Balanced
<1>2. /\ Cardinality(I) \in Nat /\ Cardinality(D) \in Nat
      /\ Cardinality(W) \in Nat
  BY FS_CardinalityType DEF Balanced
<1> QED
  BY <1>1, <1>2 DEF Balanced

\* p pays.
LEMMA BalancePays ==
    ASSUME NEW a, NEW I, NEW D, NEW W, Balanced(a, I, D, W),
           NEW p, p \in D, NEW x, x \notin I
    PROVE  Balanced(a, I \cup {x}, D \ {p}, W)
<1>1. /\ IsFiniteSet(I \cup {x}) /\ Cardinality(I \cup {x}) = Cardinality(I) + 1
      /\ IsFiniteSet(D \ {p}) /\ Cardinality(D \ {p}) = Cardinality(D) - 1
  BY FS_AddElement, FS_RemoveElement DEF Balanced
<1>2. /\ Cardinality(I) \in Nat /\ Cardinality(D) \in Nat
      /\ Cardinality(W) \in Nat
  BY FS_CardinalityType DEF Balanced
<1> QED
  BY <1>1, <1>2 DEF Balanced

\* A registry and a debt are lost.
LEMMA BalanceLoses ==
    ASSUME NEW a, NEW I, NEW D, NEW W, Balanced(a, I, D, W),
           NEW J \in SUBSET I, NEW E \in SUBSET D
    PROVE  Balanced(FALSE, J, E, W)
BY FS_Subset, FS_CardinalityType DEF Balanced

\* The processes whose next record counts an effect that came to s, or an
\* attempt, given what each of them owes.
OwingOutcome(o, s) == {p \in Procs : o[p].what = "transition" /\ o[p].after = s}

OwingAttempt(o) == {p \in Procs : o[p].what = "attempts"}

TallyOf(alive, o) ==
    /\ Balanced(alive, Increments("succeeded"), OwingOutcome(o, "succeeded"),
                Written("succeeded"))
    /\ Balanced(alive, Increments("failed"), OwingOutcome(o, "failed_final"),
                Written("failed_final"))
    /\ Balanced(alive, Increments("attempts"), OwingAttempt(o), Attempted)

Tally == TallyOf(AllAlive, owes)

TallyInv ==
    /\ TypeInv
    /\ counter \in [Registries -> [Counters -> Nat]]
    /\ owes \in [Procs -> Debts]
    /\ \A i \in resolved : status[i] \in TerminalStatuses
    /\ Tally

-----------------------------------------------------------------------------
(* What is counted moves by one *)

LEMMA IncrementsOf ==
    \A c, x : x \in Increments(c)
        <=> \E q \in Registries : \E n \in 1..counter[q][c] : x = <<q, n>>
BY DEF Increments

LEMMA AttemptedOf ==
    \A x : x \in Attempted <=> \E i \in Ids : \E n \in 1..attempts[i] : x = <<i, n>>
BY DEF Attempted

\* A counter and a half-open range of attempts grow by one element.
LEMMA CountIncrements ==
    ASSUME counter \in [Registries -> [Counters -> Nat]],
           NEW q \in Registries, NEW c \in Counters, Count(q, c)
    PROVE  /\ <<q, counter[q][c] + 1>> \notin Increments(c)
           /\ Increments(c)' = Increments(c) \cup {<<q, counter[q][c] + 1>>}
           /\ \A d \in Counters \ {c} : Increments(d)' = Increments(d)
<1>1. /\ counter'[q][c] = counter[q][c] + 1
      /\ \A r \in Registries, d \in Counters :
            r # q \/ d # c => counter'[r][d] = counter[r][d]
  BY DEF Count
<1>2. \A d, x : x \in Increments(d)'
          <=> \E r \in Registries : \E n \in 1..counter'[r][d] : x = <<r, n>>
  BY DEF Increments
<1>3. <<q, counter[q][c] + 1>> \notin Increments(c)
  BY IncrementsOf
<1>4. ASSUME NEW d \in Counters \ {c}
      PROVE  Increments(d)' = Increments(d)
  <2>1. \A r \in Registries : counter'[r][d] = counter[r][d]
    BY <1>1
  <2>2. ASSUME NEW x
        PROVE  x \in Increments(d)' <=> x \in Increments(d)
    <3>1. x \in Increments(d)' <=> \E r \in Registries : \E n \in 1..counter'[r][d] : x = <<r, n>>
      BY <1>2
    <3>2. x \in Increments(d) <=> \E r \in Registries : \E n \in 1..counter[r][d] : x = <<r, n>>
      BY IncrementsOf
    <3> QED
      BY <2>1, <3>1, <3>2
  <2> QED
    BY <2>2
<1>5. ASSUME NEW x
      PROVE  x \in Increments(c)'
                 <=> x \in Increments(c) \/ x = <<q, counter[q][c] + 1>>
  <2>1. counter[q][c] \in Nat
    OBVIOUS
  <2>2. \A n : n \in 1..counter'[q][c] <=> n \in 1..counter[q][c] \/ n = counter[q][c] + 1
    BY <1>1, <2>1
  <2>3. \A r \in Registries : r # q => counter'[r][c] = counter[r][c]
    BY <1>1
  <2>4. x \in Increments(c)' <=> \E r \in Registries : \E n \in 1..counter'[r][c] : x = <<r, n>>
    BY <1>2
  <2>5. x \in Increments(c) <=> \E r \in Registries : \E n \in 1..counter[r][c] : x = <<r, n>>
    BY IncrementsOf
  <2> QED
    BY <2>2, <2>3, <2>4, <2>5
<1> QED
  BY <1>3, <1>4, <1>5

LEMMA AttemptGrows ==
    ASSUME attempts \in [Ids -> Nat], NEW i \in Ids,
           attempts' = [attempts EXCEPT ![i] = @ + 1]
    PROVE  /\ <<i, attempts[i] + 1>> \notin Attempted
           /\ Attempted' = Attempted \cup {<<i, attempts[i] + 1>>}
<1>1. attempts'[i] = attempts[i] + 1 /\ \A j \in Ids : j # i => attempts'[j] = attempts[j]
  OBVIOUS
<1>2. <<i, attempts[i] + 1>> \notin Attempted
  BY AttemptedOf
<1>3. ASSUME NEW x
      PROVE  x \in Attempted' <=> x \in Attempted \/ x = <<i, attempts[i] + 1>>
  <2>1. attempts[i] \in Nat
    OBVIOUS
  <2>2. \A n : n \in 1..attempts'[i] <=> n \in 1..attempts[i] \/ n = attempts[i] + 1
    BY <1>1, <2>1
  <2>3. x \in Attempted' <=> \E j \in Ids : \E n \in 1..attempts'[j] : x = <<j, n>>
    BY DEF Attempted
  <2>4. x \in Attempted <=> \E j \in Ids : \E n \in 1..attempts[j] : x = <<j, n>>
    BY AttemptedOf
  <2> QED
    BY <1>1, <2>2, <2>3, <2>4
<1> QED
  BY <1>2, <1>3

\* No edge leads to where it starts, or out of a terminal status.
LEMMA EdgesLead ==
    \A s, t : IsAllowed(s, t) => s # t /\ s \notin TerminalStatuses
BY DEF IsAllowed, TerminalStatuses, Resolutions

\* p takes an edge of the graph with the effect in hand.
TakesEdge(p) ==
    /\ pc[p] \in Writing /\ Current(p) /\ attempts' = attempts
    /\ \E i \in Ids : /\ eff[p] = i /\ IsAllowed(status[i], Goal(p))
                      /\ status' = [status EXCEPT ![i] = Goal(p)]

StartsAttempt(p) ==
    /\ pc[p] \notin Writing /\ status' = status
    /\ \E i \in Ids : attempts' = [attempts EXCEPT ![i] = @ + 1]

LEMMA WorkIs ==
    ASSUME TypeInv, NEW p \in Procs, Works(p)
    PROVE  /\ resolved' = resolved
           /\ \/ UNCHANGED <<status, attempts>>
              \/ StartsAttempt(p)
              \/ TakesEdge(p)
<1>1. CASE \/ p \in Workers /\ ClaimDue(p)
           \/ List(p) \/ Get(p) \/ Send(p) \/ Probe(p) \/ Refused(p)
           \/ AdapterFactoryFails(p) \/ ProbeFails(p) \/ Timeout(p)
           \/ StoreFails(p) \/ \E i \in Ids : HandlerGet(p, i)
  BY <1>1
  DEF ClaimDue, List, Get, Send, Probe, Refused, AdapterFactoryFails, ProbeFails,
      Timeout, StoreFails, HandlerGet, ledger
<1>2. CASE StartAttempt(p)
  <2>1. eff[p] \in Ids
    BY <1>2 DEF StartAttempt, TypeInv, TypeOK, LocalType
  <2> QED
    BY <1>2, <2>1 DEF StartAttempt, StartsAttempt, Writing
<1>3. CASE BeginDispatch(p) \/ BeginProbe(p) \/ Settle(p) \/ Conclude(p)
  <2>1. /\ pc[p] \in Writing /\ Accepted(p) /\ Write(eff[p], Goal(p))
        /\ resolved' = resolved
    BY <1>3 DEF BeginDispatch, BeginProbe, Settle, Conclude, Advance, Close, Writing
  <2>2. eff[p] \in Ids
    BY <2>1 DEF TypeInv, TypeOK, LocalType, Writing
  <2> QED
    BY <2>1, <2>2 DEF TakesEdge, Accepted, Write
<1> QED
  BY <1>1, <1>2, <1>3 DEF Works, Step

-----------------------------------------------------------------------------
(* Each step keeps the tally *)

\* p works: what it did is written, and owed.
LEMMA WorkTallies ==
    ASSUME TallyInv, NEW p \in Procs, owes[p] = NoDebt, Works(p),
           NEW o, o = [owes EXCEPT ![p] = Debt(p)]
    PROVE  /\ o \in [Procs -> Debts]
           /\ \A i \in resolved' : status'[i] \in TerminalStatuses
           /\ Balanced(AllAlive, Increments("succeeded"),
                       OwingOutcome(o, "succeeded"), Written("succeeded")')
           /\ Balanced(AllAlive, Increments("failed"),
                       OwingOutcome(o, "failed_final"), Written("failed_final")')
           /\ Balanced(AllAlive, Increments("attempts"), OwingAttempt(o), Attempted')
<1>0. /\ o[p] = Debt(p) /\ \A q \in Procs \ {p} : o[q] = owes[q]
      /\ owes[p].what = "nothing"
  BY DEF TallyInv, NoDebt
<1>1. resolved' = resolved
  BY WorkIs DEF TallyInv
<1>2. CASE UNCHANGED <<status, attempts>>
  <2>1. Debt(p) \in {NoDebt, [what |-> "fenced"]}
    BY <1>2 DEF Debt
  <2>2. Debt(p) \in Debts /\ Debt(p).what \notin {"transition", "attempts"}
    BY <2>1 DEF Debts, NoDebt
  <2>3. /\ OwingOutcome(o, "succeeded") = OwingOutcome(owes, "succeeded")
        /\ OwingOutcome(o, "failed_final") = OwingOutcome(owes, "failed_final")
        /\ OwingAttempt(o) = OwingAttempt(owes)
    BY <1>0, <2>2 DEF OwingOutcome, OwingAttempt
  <2>4. /\ Written("succeeded")' = Written("succeeded")
        /\ Written("failed_final")' = Written("failed_final")
        /\ Attempted' = Attempted
    BY <1>1, <1>2 DEF Written, Attempted
  <2> QED
    BY <1>1, <1>2, <2>2, <2>3, <2>4 DEF TallyInv, Tally, TallyOf
<1>3. CASE StartsAttempt(p)
  <2>1. PICK i \in Ids : attempts' = [attempts EXCEPT ![i] = @ + 1]
    BY <1>3 DEF StartsAttempt
  <2>2. attempts \in [Ids -> Nat] /\ status' = status
    BY <1>3 DEF StartsAttempt, TallyInv, TypeInv, TypeOK, LedgerType
  <2>3. attempts' # attempts
    BY <2>1, <2>2
  <2>4. Debt(p) = [what |-> "attempts"]
    BY <1>3, <2>2, <2>3 DEF StartsAttempt, Debt
  <2>5. Debt(p) \in Debts
    BY <2>4 DEF Debts
  <2>6. /\ OwingOutcome(o, "succeeded") = OwingOutcome(owes, "succeeded")
        /\ OwingOutcome(o, "failed_final") = OwingOutcome(owes, "failed_final")
        /\ OwingAttempt(o) = OwingAttempt(owes) \cup {p}
        /\ p \notin OwingAttempt(owes)
    BY <1>0, <2>4 DEF OwingOutcome, OwingAttempt
  <2>7. /\ Written("succeeded")' = Written("succeeded")
        /\ Written("failed_final")' = Written("failed_final")
    BY <1>1, <2>2 DEF Written
  <2>8. Balanced(AllAlive, Increments("attempts"), OwingAttempt(o), Attempted')
    <3>1. /\ <<i, attempts[i] + 1>> \notin Attempted
          /\ Attempted' = Attempted \cup {<<i, attempts[i] + 1>>}
      BY <2>1, <2>2, AttemptGrows
    <3>2. Balanced(AllAlive, Increments("attempts"), OwingAttempt(owes), Attempted)
      BY DEF TallyInv, Tally, TallyOf
    <3>3. Balanced(AllAlive, Increments("attempts"), OwingAttempt(owes) \cup {p},
                   Attempted \cup {<<i, attempts[i] + 1>>})
      BY <2>6, <3>1, <3>2, BalanceOwes, Zenon
    <3> QED
      BY <2>6, <3>1, <3>3
  <2> QED
    BY <1>1, <2>2, <2>5, <2>6, <2>7, <2>8 DEF TallyInv, Tally, TallyOf
<1>4. CASE TakesEdge(p)
  <2>1. PICK i \in Ids : /\ eff[p] = i /\ IsAllowed(status[i], Goal(p))
                         /\ status' = [status EXCEPT ![i] = Goal(p)]
    BY <1>4 DEF TakesEdge
  <2>2. /\ status'[i] = Goal(p) /\ \A j \in Ids : j # i => status'[j] = status[j]
        /\ status[i] # Goal(p) /\ status[i] \notin TerminalStatuses
        /\ attempts' = attempts
    BY <1>4, <2>1, EdgesLead DEF TakesEdge, TallyInv, TypeInv, TypeOK, LedgerType
  <2>3. Debt(p) = [what |-> "transition", id |-> i, before |-> status[i],
                   after |-> Goal(p)]
    BY <1>4, <2>1, <2>2 DEF TakesEdge, Debt
  <2>4. Debt(p) \in Debts
    BY <2>3, GoalType DEF Debts, TallyInv, TypeInv, TypeOK, LedgerType
  <2>5. Debt(p).what = "transition" /\ Debt(p).after = Goal(p)
    BY <2>3
  <2>6. i \notin resolved
    BY <2>2 DEF TallyInv
  <2>7. OwingAttempt(o) = OwingAttempt(owes) /\ Attempted' = Attempted
    BY <1>0, <2>2, <2>5 DEF OwingAttempt, Attempted
  <2>8. ASSUME NEW s \in {"succeeded", "failed_final"}, NEW I,
               Balanced(AllAlive, I, OwingOutcome(owes, s), Written(s))
        PROVE  Balanced(AllAlive, I, OwingOutcome(o, s), Written(s)')
    <3>1. CASE Goal(p) = s
      <4>1. /\ OwingOutcome(o, s) = OwingOutcome(owes, s) \cup {p}
            /\ p \notin OwingOutcome(owes, s)
        BY <1>0, <2>5, <3>1 DEF OwingOutcome
      <4>2. i \notin Written(s) /\ Written(s)' = Written(s) \cup {i}
        BY <1>1, <2>2, <2>6, <3>1 DEF Written
      <4>3. Balanced(AllAlive, I, OwingOutcome(owes, s) \cup {p}, Written(s) \cup {i})
        BY <2>8, <4>1, <4>2, BalanceOwes, Zenon
      <4> QED
        BY <4>1, <4>2, <4>3
    <3>2. CASE Goal(p) # s
      <4>1. OwingOutcome(o, s) = OwingOutcome(owes, s)
        BY <1>0, <2>5, <3>2 DEF OwingOutcome
      <4>2. Written(s)' = Written(s)
        BY <1>1, <2>2, <3>2 DEF Written, TerminalStatuses
      <4> QED
        BY <2>8, <4>1, <4>2
    <3> QED
      BY <3>1, <3>2
  <2>9. \A j \in resolved' : status'[j] \in TerminalStatuses
    BY <1>1, <2>2, <2>6 DEF TallyInv, TypeInv, TypeOK, LedgerType
  <2> QED
    BY <2>4, <2>7, <2>8, <2>9 DEF TallyInv, Tally, TallyOf
<1> QED
  BY <1>2, <1>3, <1>4, WorkIs DEF TallyInv

\* A process that ends takes what it counted and owed along.
LEMMA LoseTallies ==
    ASSUME NEW p \in Procs, Lose(p), counter \in [Registries -> [Counters -> Nat]],
           owes \in [Procs -> Debts],
           NEW o, \A q \in Procs : q = p \/ o[q] = owes[q],
           NEW I, NEW J, NEW K,
           I = Written("succeeded")', J = Written("failed_final")', K = Attempted',
           Balanced(AllAlive, Increments("succeeded"),
                    OwingOutcome(o, "succeeded"), I),
           Balanced(AllAlive, Increments("failed"),
                    OwingOutcome(o, "failed_final"), J),
           Balanced(AllAlive, Increments("attempts"), OwingAttempt(o), K)
    PROVE  /\ Tally'
           /\ counter' \in [Registries -> [Counters -> Nat]]
           /\ owes' \in [Procs -> Debts]
<1>1. AllAlive' = FALSE
  BY DEF Lose, AllAlive
<1>2. /\ counter' \in [Registries -> [Counters -> Nat]]
      /\ owes' \in [Procs -> Debts]
  BY DEF Lose, Debts
<1>3. \A q \in Registries, c \in Counters : counter'[q][c] \in {0, counter[q][c]}
  BY DEF Lose
<1>4. \A c \in Counters : Increments(c)' \subseteq Increments(c)
  <2> SUFFICES ASSUME NEW c \in Counters, NEW x \in Increments(c)'
               PROVE  x \in Increments(c)
    OBVIOUS
  <2>1. PICK q \in Registries : \E n \in 1..counter'[q][c] : x = <<q, n>>
    BY DEF Increments
  <2>2. counter'[q][c] = counter[q][c]
    BY <1>3, <2>1
  <2> QED
    BY <2>1, <2>2, IncrementsOf
<1>5. /\ owes'[p].what = "nothing"
      /\ \A q \in Procs : q = p \/ owes'[q] = o[q]
  BY DEF Lose, NoDebt
<1>6. /\ OwingOutcome(owes', "succeeded") \subseteq OwingOutcome(o, "succeeded")
      /\ OwingOutcome(owes', "failed_final") \subseteq OwingOutcome(o, "failed_final")
      /\ OwingAttempt(owes') \subseteq OwingAttempt(o)
  BY <1>5 DEF OwingOutcome, OwingAttempt
<1>7. /\ Balanced(FALSE, Increments("succeeded")', OwingOutcome(owes', "succeeded"), I)
      /\ Balanced(FALSE, Increments("failed")', OwingOutcome(owes', "failed_final"), J)
      /\ Balanced(FALSE, Increments("attempts")', OwingAttempt(owes'), K)
  BY <1>4, <1>6, BalanceLoses DEF Counters
<1> QED
  BY <1>1, <1>2, <1>7 DEF Tally, TallyOf, OwingOutcome, OwingAttempt

LEMMA WorkKeepsTally ==
    ASSUME TallyInv, NEW p \in Procs, Work(p)
    PROVE  /\ Tally'
           /\ counter' \in [Registries -> [Counters -> Nat]]
           /\ owes' \in [Procs -> Debts]
           /\ \A i \in resolved' : status'[i] \in TerminalStatuses
<1> DEFINE o == [owes EXCEPT ![p] = Debt(p)]
<1>1. owes[p] = NoDebt /\ Works(p)
  BY DEF Work, Works
<1>2. /\ o \in [Procs -> Debts]
      /\ \A i \in resolved' : status'[i] \in TerminalStatuses
      /\ Balanced(AllAlive, Increments("succeeded"),
                  OwingOutcome(o, "succeeded"), Written("succeeded")')
      /\ Balanced(AllAlive, Increments("failed"),
                  OwingOutcome(o, "failed_final"), Written("failed_final")')
      /\ Balanced(AllAlive, Increments("attempts"), OwingAttempt(o), Attempted')
  BY <1>1, WorkTallies
<1>3. CASE Lose(p)
  <2>1. \A q \in Procs : q = p \/ o[q] = owes[q]
    BY DEF TallyInv
  <2>2. /\ counter \in [Registries -> [Counters -> Nat]] /\ owes \in [Procs -> Debts]
    BY DEF TallyInv
  <2> HIDE DEF o
  <2> QED
    BY <1>2, <1>3, <2>1, <2>2, LoseTallies
<1>4. CASE owes' = o /\ UNCHANGED <<counter, ended>>
  BY <1>2, <1>4
  DEF TallyInv, Tally, TallyOf, AllAlive, Increments, OwingOutcome, OwingAttempt
<1> QED
  BY <1>3, <1>4 DEF Work

\* p pays its debt.
LEMMA RecordKeepsTally ==
    ASSUME TallyInv, NEW p \in Procs, Record(p)
    PROVE  /\ Tally'
           /\ counter' \in [Registries -> [Counters -> Nat]]
           /\ owes' \in [Procs -> Debts]
<1> DEFINE d == owes[p]
           q == Registry(p)
<1>1. /\ d # NoDebt /\ d \in Debts /\ q \in Registries
      /\ UNCHANGED <<status, attempts, resolved, ended>>
      /\ owes' = [owes EXCEPT ![p] = NoDebt]
      /\ IF d.what = "transition" THEN RecordTransition(q, d) ELSE Count(q, d.what)
  BY DEF Record, vars, ledger, TallyInv, Registry, Registries, Procs
<1>2. /\ owes'[p].what = "nothing" /\ \A r \in Procs \ {p} : owes'[r] = owes[r]
      /\ owes' \in [Procs -> Debts]
  BY <1>1 DEF TallyInv, NoDebt, Debts
<1>3. /\ Written("succeeded")' = Written("succeeded")
      /\ Written("failed_final")' = Written("failed_final")
      /\ Attempted' = Attempted /\ AllAlive' = AllAlive
  BY <1>1 DEF Written, Attempted, AllAlive
<1>4. d.what \in {"attempts", "fenced", "transition"}
  BY <1>1 DEF Debts
<1>5. /\ OwingOutcome(owes', "succeeded") = OwingOutcome(owes, "succeeded") \ {p}
      /\ OwingOutcome(owes', "failed_final") = OwingOutcome(owes, "failed_final") \ {p}
      /\ OwingAttempt(owes') = OwingAttempt(owes) \ {p}
  BY <1>2 DEF OwingOutcome, OwingAttempt
\* It counts c, and nothing else that happened is owed by p.
<1>6. ASSUME NEW c \in Counters, Count(q, c),
             p \in OwingOutcome(owes, "succeeded") <=> c = "succeeded",
             p \in OwingOutcome(owes, "failed_final") <=> c = "failed",
             p \in OwingAttempt(owes) <=> c = "attempts"
      PROVE  Tally' /\ counter' \in [Registries -> [Counters -> Nat]]
  <2>1. counter \in [Registries -> [Counters -> Nat]]
    BY DEF TallyInv
  <2>2. counter' \in [Registries -> [Counters -> Nat]]
    BY <1>1, <1>6, <2>1 DEF Count
  <2>3. /\ <<q, counter[q][c] + 1>> \notin Increments(c)
        /\ Increments(c)' = Increments(c) \cup {<<q, counter[q][c] + 1>>}
        /\ \A e \in Counters \ {c} : Increments(e)' = Increments(e)
    BY <1>1, <1>6, <2>1, CountIncrements
  <2>4. ASSUME NEW e \in Counters, NEW D, NEW W,
               Balanced(AllAlive, Increments(e), D, W), p \in D <=> c = e
        PROVE  Balanced(AllAlive, Increments(e)', D \ {p}, W)
    <3>1. CASE c = e
      BY <2>3, <2>4, <3>1, BalancePays
    <3>2. CASE c # e
      <4>1. D \ {p} = D /\ Increments(e)' = Increments(e)
        BY <2>3, <2>4, <3>2
      <4> QED
        BY <2>4, <4>1
    <3> QED
      BY <3>1, <3>2
  <2>5. /\ Balanced(AllAlive, Increments("succeeded")',
                    OwingOutcome(owes', "succeeded"), Written("succeeded"))
        /\ Balanced(AllAlive, Increments("failed")',
                    OwingOutcome(owes', "failed_final"), Written("failed_final"))
        /\ Balanced(AllAlive, Increments("attempts")', OwingAttempt(owes'), Attempted)
    BY <1>5, <1>6, <2>4 DEF TallyInv, Tally, TallyOf, Counters
  <2> QED
    BY <1>3, <2>2, <2>5 DEF Tally, TallyOf, OwingOutcome, OwingAttempt
<1>7. CASE d.what = "attempts"
  BY <1>1, <1>6, <1>7, <1>2 DEF OwingOutcome, OwingAttempt, Counters
<1>8. CASE d.what = "fenced"
  BY <1>1, <1>6, <1>8, <1>2 DEF OwingOutcome, OwingAttempt, Counters
<1>9. CASE d.what = "transition" /\ d.after = "succeeded"
  BY <1>1, <1>6, <1>9, <1>2 DEF OwingOutcome, OwingAttempt, Counters, RecordTransition
<1>10. CASE d.what = "transition" /\ d.after = "failed_final"
  BY <1>1, <1>6, <1>10, <1>2 DEF OwingOutcome, OwingAttempt, Counters, RecordTransition
<1>11. CASE d.what = "transition" /\ d.after = "outcome_unknown"
  BY <1>1, <1>6, <1>11, <1>2 DEF OwingOutcome, OwingAttempt, Counters, RecordTransition
<1>12. CASE /\ d.what = "transition"
            /\ d.after \notin {"succeeded", "failed_final", "outcome_unknown"}
  <2>1. counter' = counter
    BY <1>1, <1>12 DEF RecordTransition
  <2>2. /\ p \notin OwingOutcome(owes, "succeeded")
        /\ p \notin OwingOutcome(owes, "failed_final") /\ p \notin OwingAttempt(owes)
    BY <1>12 DEF OwingOutcome, OwingAttempt
  <2>3. /\ OwingOutcome(owes', "succeeded") = OwingOutcome(owes, "succeeded")
        /\ OwingOutcome(owes', "failed_final") = OwingOutcome(owes, "failed_final")
        /\ OwingAttempt(owes') = OwingAttempt(owes)
    BY <1>5, <2>2
  <2>4. \A c : Increments(c)' = Increments(c)
    BY <2>1 DEF Increments
  <2>5. /\ Balanced(AllAlive, Increments("succeeded"),
                    OwingOutcome(owes', "succeeded"), Written("succeeded"))
        /\ Balanced(AllAlive, Increments("failed"),
                    OwingOutcome(owes', "failed_final"), Written("failed_final"))
        /\ Balanced(AllAlive, Increments("attempts"), OwingAttempt(owes'), Attempted)
    BY <2>3 DEF TallyInv, Tally, TallyOf
  <2>6. Tally'
    BY <1>3, <2>4, <2>5 DEF Tally, TallyOf, OwingOutcome, OwingAttempt
  <2> QED
    BY <1>2, <2>1, <2>6 DEF TallyInv
<1> QED
  BY <1>2, <1>4, <1>7, <1>8, <1>9, <1>10, <1>11, <1>12

\* Callers and the environment count nothing: an operator's decision is not the
\* broker's outcome, and what the broker wrote stays.
LEMMA RestKeepsTally ==
    ASSUME TallyInv, UNCHANGED <<counter, owes, ended>>,
           Callers \/ TargetStep \/ Tick \/ \E p \in Procs : Restart(p)
    PROVE  Tally' /\ \A i \in resolved' : status'[i] \in TerminalStatuses
<1>1. /\ attempts' = attempts
      /\ \A s \in {"succeeded", "failed_final"} : Written(s)' = Written(s)
      /\ \A i \in resolved' : status'[i] \in TerminalStatuses
  <2>1. CASE TargetStep \/ Tick \/ \E p \in Procs : Restart(p)
    <3>1. UNCHANGED ledger
      BY <2>1
      DEF TargetStep, Commit, CommitUnconfirmed, Reject, Drop, Answer, Tick, Restart
    <3> QED
      BY <3>1 DEF ledger, Written, TallyInv
  <2>2. ASSUME NEW i \in Ids,
               \/ \E c \in Contracts : Submit(i, c)
               \/ Cancel(i) \/ MarkUnknown(i)
        PROVE  /\ attempts' = attempts
               /\ \A s \in {"succeeded", "failed_final"} : Written(s)' = Written(s)
               /\ \A j \in resolved' : status'[j] \in TerminalStatuses
    <3>1. PICK s \in {"prepared", "cancelled", "outcome_unknown"} :
            status' = [status EXCEPT ![i] = s]
      BY <2>2 DEF Submit, Cancel, MarkUnknown, Write
    <3>2. /\ attempts' = attempts /\ resolved' = resolved
          /\ status[i] \notin TerminalStatuses
      BY <2>2
      DEF Submit, Cancel, MarkUnknown, Write, ClaimableStatuses, TerminalStatuses
    <3>3. i \notin resolved
      BY <3>2 DEF TallyInv
    <3>4. status'[i] = s /\ \A j \in Ids : j # i => status'[j] = status[j]
      BY <3>1 DEF TallyInv, TypeInv, TypeOK, LedgerType
    <3>5. resolved \subseteq Ids
      BY DEF TallyInv, TypeInv, TypeOK, LedgerType
    <3> QED
      BY <3>2, <3>3, <3>4, <3>5 DEF Written, TerminalStatuses, TallyInv
  <2>3. ASSUME NEW i \in Ids, NEW s \in Resolutions, Resolve(i, s)
        PROVE  /\ attempts' = attempts
               /\ \A t \in {"succeeded", "failed_final"} : Written(t)' = Written(t)
               /\ \A j \in resolved' : status'[j] \in TerminalStatuses
    <3>1. /\ attempts' = attempts /\ resolved' = resolved \cup {i}
          /\ status[i] = "manual_review"
      BY <2>3 DEF Resolve, Write
    <3>2. status'[i] = s /\ \A j \in Ids : j # i => status'[j] = status[j]
      BY <2>3 DEF Resolve, Write, TallyInv, TypeInv, TypeOK, LedgerType
    <3>3. resolved \subseteq Ids
      BY DEF TallyInv, TypeInv, TypeOK, LedgerType
    <3> QED
      BY <3>1, <3>2, <3>3 DEF Written, TerminalStatuses, Resolutions, TallyInv
  <2> QED
    BY <2>1, <2>2, <2>3 DEF Callers
<1>2. /\ Increments("succeeded")' = Increments("succeeded")
      /\ Increments("failed")' = Increments("failed")
      /\ Increments("attempts")' = Increments("attempts")
      /\ Attempted' = Attempted /\ AllAlive' = AllAlive
  BY <1>1 DEF Increments, Attempted, AllAlive
<1> QED
  BY <1>1, <1>2 DEF TallyInv, Tally, TallyOf, OwingOutcome, OwingAttempt

LEMMA DeathKeepsTally ==
    ASSUME TallyInv, NEW p \in Procs, Death(p)
    PROVE  /\ Tally'
           /\ counter' \in [Registries -> [Counters -> Nat]]
           /\ owes' \in [Procs -> Debts]
           /\ \A i \in resolved' : status'[i] \in TerminalStatuses
<1>1. UNCHANGED <<status, attempts, resolved>> /\ Lose(p)
  BY DEF Death, Crash, ledger
<1>2. /\ Written("succeeded")' = Written("succeeded")
      /\ Written("failed_final")' = Written("failed_final")
      /\ Attempted' = Attempted
  BY <1>1 DEF Written, Attempted
<1> QED
  BY <1>1, <1>2, LoseTallies DEF TallyInv, Tally, TallyOf

\* The death of an idle process is the only step of the metrics that Broker
\* does not have.
LEMMA TypeStaysWithDeaths ==
    ASSUME TypeInv, [TNext]_allVars
    PROVE  TypeInv'
<1>1. CASE [Next]_vars
  BY <1>1, TypeStep
<1>2. ASSUME NEW p \in Procs, Stop(p), crashes < MaxCrashes,
             crashes' = crashes + 1, UNCHANGED <<ledger, target, now, faults>>
      PROVE  TypeInv'
  <2>1. EnvType'
    BY <1>2, NumbersAssumption DEF TypeInv, TypeOK, EnvType
  <2> QED
    BY <1>2, <2>1, StopInv DEF target
<1>3. CASE Client
  BY <1>1, <1>3 DEF Client, Next, Callers
<1>4. CASE \E p \in Procs : Work(p)
  BY <1>1, <1>4 DEF Work, Next, Mishap
<1>5. CASE \E p \in Procs : Record(p)
  BY <1>1, <1>5 DEF Record
<1>6. CASE \E p \in Procs : Death(p)
  BY <1>1, <1>2, <1>6 DEF Death, Next, Mishap
<1>7. CASE (TargetStep \/ Tick) \/ \E p \in Procs : Restart(p)
  BY <1>1, <1>7 DEF Next
<1>8. CASE UNCHANGED allVars
  BY <1>1, <1>8 DEF allVars
<1> QED
  BY <1>3, <1>4, <1>5, <1>6, <1>7, <1>8 DEF TNext

LEMMA TallyInit == TInit => TallyInv
<1> SUFFICES ASSUME TInit PROVE TallyInv
  OBVIOUS
<1>1. TypeInv
  BY TypeInit DEF TInit
<1>2. /\ counter \in [Registries -> [Counters -> Nat]]
      /\ owes \in [Procs -> Debts]
      /\ \A i \in resolved : status[i] \in TerminalStatuses
  BY DEF TInit, Init, Debts
<1>3. \A c \in Counters : Increments(c) = {}
  BY IncrementsOf DEF TInit
<1>4. /\ OwingOutcome(owes, "succeeded") = {}
      /\ OwingOutcome(owes, "failed_final") = {} /\ OwingAttempt(owes) = {}
  BY DEF TInit, OwingOutcome, OwingAttempt, NoDebt
<1>5. /\ Written("succeeded") = {} /\ Written("failed_final") = {}
      /\ Attempted = {}
  BY AttemptedOf DEF TInit, Init, Written
<1>6. \A a : Balanced(a, {}, {}, {})
  BY FS_EmptySet DEF Balanced
<1>7. Tally
  BY <1>3, <1>4, <1>5, <1>6 DEF Tally, TallyOf, Counters
<1> QED
  BY <1>1, <1>2, <1>7 DEF TallyInv

LEMMA TallyStep ==
    ASSUME TallyInv, [TNext]_allVars
    PROVE  TallyInv'
<1>0. TypeInv'
  BY TypeStaysWithDeaths DEF TallyInv
<1>1. CASE \E p \in Procs : Work(p)
  BY <1>0, <1>1, WorkKeepsTally DEF TallyInv
<1>2. CASE \E p \in Procs : Record(p)
  BY <1>0, <1>2, RecordKeepsTally DEF TallyInv, Record, vars, ledger
<1>3. CASE \E p \in Procs : Death(p)
  BY <1>0, <1>3, DeathKeepsTally DEF TallyInv
<1>4. CASE Client \/ (\/ \E p \in Procs : Restart(p) /\ UNCHANGED telemetry
                      \/ (TargetStep \/ Tick) /\ UNCHANGED telemetry)
  <2>1. /\ UNCHANGED <<counter, owes, ended>>
        /\ Callers \/ TargetStep \/ Tick \/ \E p \in Procs : Restart(p)
    BY <1>4 DEF Client, Callers, telemetry
  <2> QED
    BY <1>0, <2>1, RestKeepsTally DEF TallyInv
<1>5. CASE UNCHANGED allVars
  <2>1. UNCHANGED <<status, attempts, resolved, counter, owes, ended>>
    BY <1>5 DEF allVars, vars, ledger, telemetry
  <2> QED
    BY <1>0, <2>1
    DEF TallyInv, Tally, TallyOf, AllAlive, Increments, Written, Attempted,
        OwingOutcome, OwingAttempt
<1> QED
  BY <1>1, <1>2, <1>3, <1>4, <1>5 DEF TNext

\* The counters of all processes together never say more than the ledger, and
\* say all of it when no process has ended and none owes a record: whatever
\* conflicts, lost responses, deaths and restarts there are (observability.py,
\* record_transition and record_dispatch_attempt after the store's call).
THEOREM CountersAreTrue == TSpec => []CountersTell
<1>1. TallyInv => CountersTell
  <2> SUFFICES ASSUME TallyInv PROVE CountersTell
    OBVIOUS
  <2>1. /\ Balanced(AllAlive, Increments("succeeded"),
                    OwingOutcome(owes, "succeeded"), Written("succeeded"))
        /\ Balanced(AllAlive, Increments("failed"),
                    OwingOutcome(owes, "failed_final"), Written("failed_final"))
        /\ Balanced(AllAlive, Increments("attempts"), OwingAttempt(owes), Attempted)
    BY DEF TallyInv, Tally, TallyOf
  <2>2. ASSUME NEW I, NEW D, NEW W, Balanced(AllAlive, I, D, W)
        PROVE  /\ Cardinality(I) <= Cardinality(W)
               /\ AllAlive /\ D = {} => Cardinality(I) = Cardinality(W)
    BY <2>2, FS_CardinalityType, FS_EmptySet DEF Balanced
  <2>3. (\A p \in Procs : owes[p] = NoDebt)
            => /\ OwingOutcome(owes, "succeeded") = {}
               /\ OwingOutcome(owes, "failed_final") = {}
               /\ OwingAttempt(owes) = {}
    BY DEF OwingOutcome, OwingAttempt, NoDebt
  <2> QED
    BY <2>1, <2>2, <2>3 DEF CountersTell, Total
<1> QED
  BY <1>1, TallyInit, TallyStep, PTL DEF TSpec
=============================================================================
