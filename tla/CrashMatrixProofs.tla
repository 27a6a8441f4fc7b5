--------------------------- MODULE CrashMatrixProofs ---------------------------
(***************************************************************************)
(* The crash matrix for any number of recoveries, of target faults, and    *)
(* any choice of classes and failpoints: the target never saw more calls   *)
(* than the ledger has attempts, ledger and target keep the promise, one   *)
(* recovery of those that race resolves the effect, the zombie writes      *)
(* nothing, and the failpoint the matrix is run with passes.               *)
(***************************************************************************)
EXTENDS CrashMatrix, FiniteSetTheorems, TLAPS

\* Processes that took the DISPATCHING edge, and that took the RECONCILING one.
InFlight == {"attempt", "commit", "committed", "ambiguous"}
Probing == {"probe", "found", "absent", "unproven"}

\* Who has started when.
Staged ==
    /\ stage = "submit" <=> status = "absent"
    /\ stage = "submit" => \A p \in Procs : pc[p] = "waiting"
    /\ stage = "worker" => \A p \in Procs \ {Worker} : pc[p] = "waiting"
    /\ stage = "recover" => pc[Zombie] = "waiting"
    /\ pc[Worker] = "claim" => stage = "worker" /\ status = "prepared"

\* The branch a recovery is in is the one of the class.
Routed ==
    \A p \in Procs :
        /\ pc[p] \in Probing \cup {"reconcile"}
             => RouteUnknown(safety) = "reconciling"
        /\ pc[p] = "review" => RouteUnknown(safety) # "reconciling"

\* One process at most is past its edge, and it holds the record as it stands.
Alone ==
    /\ \A p \in Procs :
        /\ pc[p] \in InFlight => status = "dispatching" /\ held[p] = version
        /\ pc[p] \in Probing => status = "reconciling" /\ held[p] = version
    /\ \A p, q \in Procs :
        pc[p] \in InFlight \cup Probing /\ pc[q] \in InFlight \cup Probing
            => p = q

\* A call that is about to be made has its attempt.
Ahead ==
    /\ calls <= attempts
    /\ \A p \in Procs : pc[p] = "commit" => calls < attempts

\* Success is written on what the target holds.
Evidence ==
    /\ effects \in {0, 1}
    /\ \A p \in Procs : pc[p] \in {"committed", "found"} => effects = 1
    /\ status = "succeeded" => effects = 1

MatrixInv == TypeOK /\ Staged /\ Routed /\ Alone /\ Ahead /\ Evidence

LEMMA ProcsType ==
    /\ Worker \in Procs /\ Zombie \in Procs /\ Recoverers \subseteq Procs
    /\ Worker # Zombie /\ \A r \in Recoverers : r # Worker /\ r # Zombie
BY MatrixAssumption DEF Procs

LEMMA MatrixInit == Init => MatrixInv
BY ProcsType, MatrixAssumption
DEF Init, MatrixInv, TypeOK, Staged, Routed, Alone, Ahead, Evidence, Stages,
    Labels, Codes, NoCode, Conflict, InFlight, Probing

-----------------------------------------------------------------------------
(* The runner and the worker's claim *)

LEMMA RunnerStep == MatrixInv /\ (Runner \/ Over) => MatrixInv'
<1> SUFFICES ASSUME MatrixInv, Runner \/ Over PROVE MatrixInv'
  OBVIOUS
<1> USE ProcsType DEF MatrixInv, TypeOK, Stages, Labels, InFlight, Probing
<1>1. CASE RunSubmit
  <2>1. TypeOK' /\ Staged'
    BY <1>1 DEF RunSubmit, Staged, EffectStatus, scenario, target
  <2>2. Routed' /\ Alone' /\ Ahead' /\ Evidence'
    BY <1>1 DEF RunSubmit, Staged, Routed, Alone, Ahead, Evidence, scenario,
                target
  <2> QED
    BY <2>1, <2>2
<1>2. CASE RunRecoveries
  <2>1. pc[Worker] = "exited" /\ \A p \in Procs \ {Worker} : pc[p] = "waiting"
    BY <1>2 DEF RunRecoveries, Staged, NoCode
  <2>2. TypeOK' /\ Staged'
    BY <1>2, <2>1 DEF RunRecoveries, Staged, EffectStatus, scenario, target
  <2>3. Routed' /\ Alone' /\ Ahead' /\ Evidence'
    BY <1>2, <2>1 DEF RunRecoveries, Routed, Alone, Ahead, Evidence, scenario,
                      target
  <2> QED
    BY <2>2, <2>3
<1>3. CASE RunZombie
  <2>1. TypeOK' /\ Staged'
    BY <1>3 DEF RunZombie, Staged, scenario, ledger, target
  <2>2. Routed' /\ Alone' /\ Ahead' /\ Evidence'
    BY <1>3 DEF RunZombie, Routed, Alone, Ahead, Evidence, scenario, ledger,
                target
  <2> QED
    BY <2>1, <2>2
<1>4. CASE RunLive \/ Judge
  <2>1. /\ stage \in {"worker", "zombie"} /\ stage' \in {"passed", "failed"}
        /\ UNCHANGED <<scenario, ledger, target, procs, faults>>
        /\ pc[Worker] = "claim" => stage = "worker" /\ exit[Worker] = 0
    BY <1>4 DEF RunLive, Judge, Staged
  <2>2. TypeOK' /\ Staged'
    BY <2>1 DEF Staged, scenario, ledger, target, procs, NoCode
  <2>3. Routed' /\ Alone' /\ Ahead' /\ Evidence'
    BY <2>1 DEF Routed, Alone, Ahead, Evidence, scenario, ledger, target, procs
  <2> QED
    BY <2>2, <2>3
<1>5. CASE Over
  BY <1>5 DEF Over, vars, Staged, Routed, Alone, Ahead, Evidence, scenario,
              ledger, target, procs
<1> QED
  BY <1>1, <1>2, <1>3, <1>4, <1>5 DEF Runner

LEMMA ClaimStep == MatrixInv /\ Claim => MatrixInv'
<1> SUFFICES ASSUME MatrixInv, Claim PROVE MatrixInv'
  OBVIOUS
<1> USE ProcsType DEF MatrixInv, TypeOK, Labels, InFlight, Probing, Claim, Goto
<1>1. TypeOK' /\ Staged'
  BY DEF Staged, scenario, target
<1>2. Routed' /\ Alone' /\ Ahead' /\ Evidence'
  BY DEF Staged, Routed, Alone, Ahead, Evidence, scenario, target
<1> QED
  BY <1>1, <1>2

-----------------------------------------------------------------------------
(* Steps of a subprocess that write no status *)

LEMMA GetStep ==
    ASSUME MatrixInv, NEW r \in Recoverers, Get(r)
    PROVE  MatrixInv'
<1> USE ProcsType DEF MatrixInv, TypeOK, Labels, InFlight, Probing, Get, Goto
<1> DEFINE l == CASE RouteUnknown(safety) = "dispatching" -> "redispatch"
                  [] RouteUnknown(safety) = "reconciling" -> "reconcile"
                  [] OTHER -> "review"
<1>1. /\ l \in {"redispatch", "reconcile", "review"}
      /\ l = "reconcile" => RouteUnknown(safety) = "reconciling"
      /\ l = "review" => RouteUnknown(safety) # "reconciling"
      /\ pc' = [pc EXCEPT ![r] = l]
  OBVIOUS
<1> HIDE DEF l
<1>2. /\ held' = [held EXCEPT ![r] = version]
      /\ UNCHANGED <<scenario, stage, ledger, target, faults, exit>>
      /\ pc[r] = "get"
  OBVIOUS
<1>3. TypeOK' /\ Staged'
  BY <1>1, <1>2 DEF Staged, scenario, ledger, target
<1>4. Routed' /\ Alone' /\ Ahead' /\ Evidence'
  BY <1>1, <1>2 DEF Routed, Alone, Ahead, Evidence, scenario, ledger, target
<1> QED
  BY <1>3, <1>4

LEMMA AttemptStep ==
    ASSUME MatrixInv, NEW p \in Procs, StartAttempt(p)
    PROVE  MatrixInv'
<1> USE ProcsType DEF MatrixInv, TypeOK, Labels, InFlight, Probing, Codes
<1>1. /\ pc[p] = "attempt" /\ held[p] = version
      /\ UNCHANGED <<scenario, stage, status, version, target, held, faults>>
      /\ attempts' = attempts + 1
      /\ Exit(p, 137) \/ Goto(p, "commit")
  BY DEF StartAttempt, Alone
<1>2. TypeOK' /\ Staged'
  BY <1>1 DEF Exit, Goto, Staged, scenario, target, NoCode
<1>3. /\ pc'[p] \in {"exited", "commit"}
      /\ \A q \in Procs \ {p} : pc'[q] = pc[q]
  BY <1>1 DEF Exit, Goto
<1>4. Routed' /\ Alone' /\ Ahead' /\ Evidence'
  BY <1>1, <1>3 DEF Routed, Alone, Ahead, Evidence, scenario, target
<1> QED
  BY <1>2, <1>4

LEMMA CommitStep ==
    ASSUME MatrixInv, NEW p \in Procs, Commit(p) \/ CommitFails(p)
    PROVE  MatrixInv'
<1> USE ProcsType DEF MatrixInv, TypeOK, Labels, InFlight, Probing, Codes
<1>1. /\ pc[p] = "commit" /\ faults' \in {faults, faults + 1}
      /\ faults' \in 0..MaxFaults
      /\ UNCHANGED <<scenario, stage, ledger, held>>
      /\ \/ /\ calls' = calls + 1 /\ effects' = 1
            /\ Exit(p, 137) \/ Goto(p, "committed")
         \/ UNCHANGED target /\ (Exit(p, 1) \/ Goto(p, "ambiguous"))
  BY MatrixAssumption
  DEF Commit, CommitFails, CommitOnce, Fault, Evidence
<1>2. TypeOK'
  <2>1. CASE Goto(p, "committed") \/ Goto(p, "ambiguous")
    BY <1>1, <2>1 DEF Goto, scenario, ledger, target, NoCode
  <2>2. CASE Exit(p, 137) \/ Exit(p, 1)
    BY <1>1, <2>2 DEF Exit, scenario, ledger, target, NoCode
  <2> QED
    BY <1>1, <2>1, <2>2
<1>3. /\ pc'[p] \in {"exited", "committed", "ambiguous"}
      /\ pc'[p] = "committed" => effects' = 1
      /\ effects' \in {1, effects}
      /\ calls' \in {calls, calls + 1}
      /\ \A q \in Procs \ {p} : pc'[q] = pc[q]
  BY <1>1 DEF Exit, Goto, target
<1>6. \A q \in Procs \ {p} : pc[q] # "commit"
  BY <1>1 DEF Alone
<1>7. Staged'
  BY <1>1, <1>3 DEF Staged, ledger
<1>4. Routed' /\ Alone'
  BY <1>1, <1>3 DEF Routed, Alone, scenario, ledger
<1>5. Ahead' /\ Evidence'
  BY <1>1, <1>3, <1>6 DEF Ahead, Evidence, ledger
<1> QED
  BY <1>2, <1>4, <1>5, <1>7

LEMMA ProbeStep ==
    ASSUME MatrixInv, NEW r \in Recoverers, Probe(r) \/ ProbeFails(r)
    PROVE  MatrixInv'
<1> USE ProcsType DEF MatrixInv, TypeOK, Labels, InFlight, Probing, Codes
<1>1. /\ pc[r] = "probe" /\ faults' \in 0..MaxFaults
      /\ UNCHANGED <<scenario, stage, ledger, target, held>>
      /\ \/ Goto(r, "unproven") \/ Goto(r, "absent") \/ Exit(r, 1)
         \/ Goto(r, "found") /\ effects = 1
  BY MatrixAssumption DEF Probe, ProbeFails, Found, Fault, Evidence
<1>2. TypeOK' /\ Staged'
  BY <1>1 DEF Exit, Goto, Staged, scenario, ledger, target, NoCode
<1>3. /\ pc'[r] \in {"unproven", "absent", "exited", "found"}
      /\ pc'[r] = "found" => effects = 1
      /\ \A q \in Procs \ {r} : pc'[q] = pc[q]
  BY <1>1 DEF Exit, Goto
<1>4. Routed' /\ Alone' /\ Ahead' /\ Evidence'
  BY <1>1, <1>3 DEF Routed, Alone, Ahead, Evidence, scenario, ledger, target
<1> QED
  BY <1>2, <1>4

-----------------------------------------------------------------------------
(* Steps of a subprocess that write a status *)

\* A call the store refuses, and the exit that follows.
LEMMA RefusedStep ==
    ASSUME MatrixInv, NEW p \in Procs, NEW code \in Codes \ {NoCode},
           Exit(p, code), pc[p] # "waiting",
           UNCHANGED <<scenario, stage, ledger, target, held, faults>>
    PROVE  MatrixInv'
<1> USE ProcsType DEF MatrixInv, TypeOK, Labels, InFlight, Probing
<1>1. pc' = [pc EXCEPT ![p] = "exited"] /\ exit' = [exit EXCEPT ![p] = code]
  BY DEF Exit
<1>2. TypeOK'
  BY <1>1 DEF scenario, ledger, target
<1>3. Staged' /\ Routed' /\ Alone' /\ Ahead' /\ Evidence'
  BY <1>1 DEF Staged, Routed, Alone, Ahead, Evidence, scenario, ledger, target
<1> QED
  BY <1>2, <1>3

LEMMA AcceptedStep ==
    ASSUME MatrixInv, NEW p \in Procs, NEW s \in EffectStatus, NEW l \in Labels,
           Transition(p, s, l), Accepted(p, s),
           pc[p] \notin {"waiting", "claim", "exited"},
           \A q \in Procs \ {p} : pc[q] \notin InFlight \cup Probing,
           \/ s = "dispatching" /\ l \in {"attempt", "exited"}
           \/ s = "reconciling" /\ l = "probe"
                /\ RouteUnknown(safety) = "reconciling"
           \/ l = "exited" /\ (s = "succeeded" => effects = 1)
    PROVE  MatrixInv'
<1> USE ProcsType DEF MatrixInv, TypeOK, Labels, InFlight, Probing
<1>1. /\ status' = s /\ version' = version + 1
      /\ held' = [held EXCEPT ![p] = version + 1]
      /\ pc' = [pc EXCEPT ![p] = l]
      /\ exit' = IF l = "exited" THEN [exit EXCEPT ![p] = 0] ELSE exit
      /\ UNCHANGED <<scenario, stage, attempts, target, faults>>
  BY DEF Transition, Exit, Goto
<1>2. status # "absent" /\ s # "absent"
  BY DEF Accepted, IsAllowed, EffectStatus
<1>3. TypeOK'
  <2>1. CASE l = "exited"
    BY <1>1, <2>1 DEF scenario, target, Codes, NoCode
  <2>2. CASE l # "exited"
    BY <1>1, <2>2 DEF scenario, target
  <2> QED
    BY <2>1, <2>2
<1>4. Staged'
  BY <1>1, <1>2 DEF Staged
<1>5. pc'[p] = l /\ \A q \in Procs \ {p} : pc'[q] = pc[q] /\ held'[q] = held[q]
  BY <1>1
<1>6. Routed'
  BY <1>1, <1>5 DEF Routed, scenario
<1>7. Alone'
  BY <1>1, <1>5 DEF Alone
<1>8. Ahead' /\ Evidence'
  BY <1>1, <1>5 DEF Ahead, Evidence, target
<1> QED
  BY <1>3, <1>4, <1>6, <1>7, <1>8

\* What a process may write, and from where.
Writes(p, s, l) ==
    \/ pc[p] \in {"claimed", "redispatch"} /\ s = "dispatching"
         /\ l = IF p = Zombie THEN "exited" ELSE "attempt"
    \/ pc[p] = "reconcile" /\ s = "reconciling" /\ l = "probe"
    \/ pc[p] \in {"committed", "found"} /\ s = "succeeded" /\ l = "exited"
    \/ pc[p] = "ambiguous" /\ s = "outcome_unknown" /\ l = "exited"
    \/ pc[p] = "absent" /\ s = "prepared" /\ l = "exited"
    \/ pc[p] \in {"unproven", "review"} /\ s = "manual_review" /\ l = "exited"

LEMMA WritesType ==
    ASSUME NEW p, NEW s, NEW l, Writes(p, s, l)
    PROVE  s \in EffectStatus /\ l \in Labels /\ pc[p] \notin {"waiting", "claim", "exited"}
BY DEF Writes, EffectStatus, Labels

LEMMA WritesCover ==
    ASSUME NEW p \in Procs,
           BeginDispatch(p) \/ Conclude(p) \/ (p \in Recoverers /\ BeginProbe(p))
    PROVE  \E s, l : Transition(p, s, l) /\ Writes(p, s, l)
<1>1. CASE BeginDispatch(p)
  <2> DEFINE l == IF p = Zombie THEN "exited" ELSE "attempt"
  <2>1. Transition(p, "dispatching", l) /\ Writes(p, "dispatching", l)
    BY <1>1 DEF BeginDispatch, Writes
  <2> QED
    BY <2>1
<1>2. CASE p \in Recoverers /\ BeginProbe(p)
  BY <1>2 DEF BeginProbe, Writes
<1>3. CASE Conclude(p)
  BY <1>3 DEF Conclude, Writes
<1> QED
  BY <1>1, <1>2, <1>3

\* The edge a process takes belongs to it alone.
LEMMA WritesAlone ==
    ASSUME MatrixInv, NEW p \in Procs, NEW s, NEW l, Writes(p, s, l),
           Accepted(p, s)
    PROVE  \A q \in Procs \ {p} : pc[q] \notin InFlight \cup Probing
<1> USE DEF MatrixInv, InFlight, Probing
<1>1. CASE pc[p] \in InFlight \cup Probing
  BY <1>1 DEF Alone
<1>2. CASE s \in {"dispatching", "reconciling"}
  <2>1. status \notin {"dispatching", "reconciling"}
    BY <1>2 DEF Accepted, IsAllowed, ClaimableStatuses
  <2> QED
    BY <2>1 DEF Alone
<1>3. CASE pc[p] = "review" /\ s = "manual_review"
  <2>1. status # "dispatching"
    BY <1>3 DEF Accepted, IsAllowed
  <2>2. RouteUnknown(safety) # "reconciling"
    BY <1>3 DEF Routed
  <2> QED
    BY <2>1, <2>2 DEF Alone, Routed
<1> QED
  BY <1>1, <1>2, <1>3 DEF Writes

LEMMA WriteStep ==
    ASSUME MatrixInv, NEW p \in Procs, NEW s, NEW l, Transition(p, s, l),
           Writes(p, s, l)
    PROVE  MatrixInv'
<1>1. CASE ~Accepted(p, s)
  <2>1. /\ Exit(p, ExitCode(p)) /\ pc[p] # "waiting"
        /\ UNCHANGED <<scenario, stage, ledger, target, held, faults>>
    BY <1>1, WritesType DEF Transition, ledger
  <2>2. ExitCode(p) \in Codes \ {NoCode}
    BY DEF ExitCode, Codes, NoCode, Conflict
  <2> QED
    BY <2>1, <2>2, RefusedStep
<1>2. CASE Accepted(p, s)
  <2>1. s \in EffectStatus /\ l \in Labels /\ pc[p] \notin {"waiting", "claim", "exited"}
    BY WritesType
  <2>2. \A q \in Procs \ {p} : pc[q] \notin InFlight \cup Probing
    BY <1>2, WritesAlone
  <2>3. \/ s = "dispatching" /\ l \in {"attempt", "exited"}
        \/ s = "reconciling" /\ l = "probe" /\ RouteUnknown(safety) = "reconciling"
        \/ l = "exited" /\ (s = "succeeded" => effects = 1)
    BY DEF Writes, MatrixInv, Routed, Evidence
  <2> QED
    BY <1>2, <2>1, <2>2, <2>3, AcceptedStep
<1> QED
  BY <1>1, <1>2

LEMMA MatrixStep == MatrixInv /\ [Next]_vars => MatrixInv'
<1> SUFFICES ASSUME MatrixInv, [Next]_vars PROVE MatrixInv'
  OBVIOUS
<1>1. CASE Runner \/ Over \/ Claim
  BY <1>1, RunnerStep, ClaimStep
<1>2. CASE \E r \in Recoverers : Get(r) \/ BeginProbe(r) \/ Probe(r) \/ ProbeFails(r)
  BY <1>2, ProcsType, GetStep, ProbeStep, WritesCover, WriteStep
<1>3. CASE \E p \in Procs : Subprocess(p)
  BY <1>3, AttemptStep, CommitStep, WritesCover, WriteStep DEF Subprocess
<1>4. CASE UNCHANGED vars
  BY <1>4 DEF vars, MatrixInv, TypeOK, Staged, Routed, Alone, Ahead, Evidence,
              scenario, ledger, target, procs
<1> QED
  BY <1>1, <1>2, <1>3, <1>4 DEF Next

\* Types of the matrix's state, for any number of recoveries.
THEOREM MatrixTypes == Spec => []TypeOK
<1>1. MatrixInv => TypeOK
  BY DEF MatrixInv
<1> QED
  BY <1>1, MatrixInit, MatrixStep, PTL DEF Spec

\* Write-ahead between processes that are killed at a failpoint: the target
\* never saw more calls than there are attempts in the ledger.
THEOREM MatrixWritesAhead == Spec => []CallsOnRecord
<1>1. MatrixInv => CallsOnRecord
  BY DEF MatrixInv, Ahead, CallsOnRecord
<1> QED
  BY <1>1, MatrixInit, MatrixStep, PTL DEF Spec

-----------------------------------------------------------------------------
(* Refinement *)

Order == {"order"}
Verdict == [i \in Order |-> Told]
Performed == [i \in Order |-> effects]

\* What a step may do to the pair of what was told and what was performed.
Kept ==
    \/ Told' = Told /\ effects' = effects
    \/ Told = "none" /\ Told' = "open" /\ effects' = effects
    \/ Told = "open" /\ Told' = "open" /\ effects = 0 /\ effects' = 1
    \/ Told = "open" /\ Told' = "succeeded" /\ effects = 1 /\ effects' = 1
    \/ Told = "open" /\ Told' = "human" /\ effects' = effects

LEMMA KeptIsPromised ==
    ASSUME Kept PROVE [Promise!PromiseNext]_<<Verdict, Performed>>
<1> USE DEF Kept, Verdict, Performed, Order, Promise!PromiseNext, Promise!Say
<1>1. CASE Told' = Told /\ effects' = effects
  BY <1>1
<1>2. CASE Told = "none" /\ Told' = "open" /\ effects' = effects
  <2>1. Promise!Accept("order")
    BY <1>2 DEF Promise!Accept
  <2> QED
    BY <2>1
<1>3. CASE Told = "open" /\ Told' = "open" /\ effects = 0 /\ effects' = 1
  <2>1. Promise!Perform("order")
    BY <1>3 DEF Promise!Perform
  <2> QED
    BY <2>1
<1>4. CASE Told = "open" /\ Told' = "succeeded" /\ effects = 1 /\ effects' = 1
  <2>1. Promise!Succeed("order")
    BY <1>4 DEF Promise!Succeed
  <2> QED
    BY <2>1
<1>5. CASE Told = "open" /\ Told' = "human" /\ effects' = effects
  <2>1. Promise!HandOver("order")
    BY <1>5 DEF Promise!HandOver
  <2> QED
    BY <2>1
<1> QED
  BY <1>1, <1>2, <1>3, <1>4, <1>5

LEMMA WriteKept ==
    ASSUME MatrixInv, NEW p \in Procs, NEW s, NEW l, Transition(p, s, l),
           Writes(p, s, l)
    PROVE  Kept
<1>1. effects' = effects
  BY DEF Transition, target
<1>2. CASE ~Accepted(p, s)
  BY <1>1, <1>2 DEF Transition, Kept, Told
<1>3. CASE Accepted(p, s)
  <2>1. status' = s /\ IsAllowed(status, s)
    BY <1>3 DEF Transition, Accepted
  <2>2. CASE s = "succeeded"
    <3>1. effects = 1 /\ status \in {"dispatching", "reconciling"}
      BY <2>2 DEF Writes, MatrixInv, Evidence, Alone, InFlight, Probing
    <3> QED
      BY <1>1, <2>1, <2>2, <3>1 DEF Kept, Told
  <2>3. CASE s \in {"dispatching", "reconciling", "outcome_unknown", "prepared"}
    <3>1. status \notin {"absent", "succeeded", "manual_review"}
      BY <2>1, <2>3 DEF IsAllowed, Resolutions
    <3> QED
      BY <1>1, <2>1, <2>3, <3>1 DEF Kept, Told
  <2>4. CASE s = "manual_review"
    <3>1. status \in {"outcome_unknown", "reconciling"}
      BY <2>1, <2>4 DEF IsAllowed, Resolutions
    <3> QED
      BY <1>1, <2>1, <2>4, <3>1 DEF Kept, Told
  <2> QED
    BY <2>2, <2>3, <2>4 DEF Writes
<1> QED
  BY <1>2, <1>3

LEMMA StepKept == MatrixInv /\ [Next]_vars => Kept
<1> SUFFICES ASSUME MatrixInv, [Next]_vars PROVE Kept
  OBVIOUS
<1>1. CASE RunSubmit
  BY <1>1 DEF RunSubmit, MatrixInv, Staged, Kept, Told, target
<1>2. CASE RunRecoveries
  BY <1>2 DEF RunRecoveries, Kept, Told, target
<1>3. CASE UNCHANGED <<status, effects>>
  BY <1>3 DEF Kept, Told
<1>4. CASE \E p \in Procs : Commit(p)
  <2>1. PICK p \in Procs : Commit(p)
    BY <1>4
  <2>2. status = "dispatching" /\ status' = status /\ effects \in {0, 1}
    BY <2>1 DEF Commit, MatrixInv, Alone, InFlight, Evidence, ledger
  <2>3. effects' = IF effects = 0 THEN 1 ELSE effects
    BY <2>1 DEF Commit, CommitOnce
  <2> QED
    BY <2>2, <2>3 DEF Kept, Told
<1>5. CASE \E p \in Procs : BeginDispatch(p) \/ Conclude(p)
                              \/ (p \in Recoverers /\ BeginProbe(p))
  BY <1>5, WritesCover, WriteKept
<1>6. CASE Runner \/ Over \/ Claim \/ UNCHANGED vars
  BY <1>1, <1>2, <1>3, <1>6
  DEF Runner, RunLive, RunZombie, Judge, Over, Claim, vars, ledger, target
<1>7. CASE \E r \in Recoverers : Get(r) \/ Probe(r) \/ ProbeFails(r)
  BY <1>3, <1>7 DEF Get, Probe, ProbeFails, ledger, target
<1>8. CASE \E p \in Procs : StartAttempt(p) \/ CommitFails(p)
  BY <1>3, <1>8 DEF StartAttempt, CommitFails, ledger, target
<1> QED
  BY <1>4, <1>5, <1>6, <1>7, <1>8, ProcsType DEF Next, Subprocess

\* The crash matrix implements the promise made to the caller, for any number
\* of racing recoveries: the effect is performed once at most, and the ledger
\* says it succeeded only after the target performed it.
THEOREM MatrixKeepsPromise == Spec => KeepsPromise
<1>1. Init => Promise!PromiseInit
  BY DEF Init, Promise!PromiseInit, Told
<1>2. MatrixInv /\ [Next]_vars => [Promise!PromiseNext]_<<Verdict, Performed>>
  BY StepKept, KeptIsPromised
<1> QED
  BY <1>1, <1>2, MatrixInit, MatrixStep, PTL
  DEF Spec, KeepsPromise, Promise!PromiseSpec, Verdict, Performed, Order

-----------------------------------------------------------------------------
(* The race of the recoveries *)

Route == RouteUnknown(safety)

\* Where a recovery is before it has written anything.
Looking == {"get", "redispatch", "reconcile", "review"}

\* Who may be where, and when.
RecoveryPlaced(r) ==
    /\ pc[r] \in {"waiting", "exited"} \cup Looking \cup InFlight \cup Probing
    /\ pc[r] \in InFlight \cup {"redispatch"} => Route = "dispatching"
    /\ pc[r] = "review" => Route \notin {"dispatching", "reconciling"}
    /\ pc[r] \notin {"waiting", "exited"} => stage = "recover"
    /\ stage = "recover" => pc[r] # "waiting"
    /\ stage = "zombie" => pc[r] = "exited"

Placed ==
    /\ \A r \in Recoverers : RecoveryPlaced(r)
    /\ pc[Worker] \in {"waiting", "claim", "claimed", "exited"} \cup InFlight
    /\ pc[Worker] \notin {"waiting", "exited"} => stage = "worker"
    /\ stage \in {"recover", "zombie"} => pc[Worker] = "exited"
    /\ pc[Zombie] \in {"waiting", "claimed", "exited"}
    /\ pc[Zombie] = "claimed" => stage = "zombie"
    /\ pc[Zombie] = "exited" => stage \in {"zombie", "passed", "failed"}
    /\ \A p \in Procs : pc[p] = "ambiguous" => faults > 0

\* Nobody has written since the runner marked the effect.
Unmoved ==
    /\ version = held[Zombie] /\ status = "outcome_unknown"
    /\ \A r \in Recoverers : /\ pc[r] \in Looking
                             /\ pc[r] # "get" => held[r] = version

\* The version the zombie recorded is the marked one, which the first recovery
\* to write outdates.
Outdated ==
    /\ stage \in {"recover", "zombie"} => version > held[Zombie] \/ Unmoved
    /\ pc[Zombie] # "waiting" => version > held[Zombie]
    /\ exit[Zombie] \in {NoCode, Conflict}

\* The recovery that took the edge, or has done so and ended well.
Winner(r) == pc[r] \in InFlight \cup Probing \/ exit[r] = 0

\* Where its class lets the winner leave the effect: none of it allows the
\* first edge of another recovery of that class.
LeftAt ==
    CASE Route = "dispatching" -> {"dispatching", "succeeded"}
      [] Route = "reconciling" ->
             {"reconciling", "succeeded", "prepared", "manual_review"}
      [] OTHER -> {"manual_review"}

OneWinner ==
    (stage \in {"recover", "zombie"} /\ faults = 0 /\ version > held[Zombie])
        => /\ \E w \in Recoverers :
                 /\ Winner(w) /\ \A r \in Recoverers : Winner(r) => r = w
                 /\ pc[w] = "exited" => status \notin {"dispatching", "reconciling"}
           /\ status \in LeftAt

RaceInv == Placed /\ Outdated /\ OneWinner

LEMMA RaceInit == Init => RaceInv
BY ProcsType
DEF Init, RaceInv, Placed, RecoveryPlaced, Outdated, OneWinner, InFlight, NoCode,
    Looking, Probing

\* A process that goes on to where its kind may be.
LEMMA PlacedMoves ==
    ASSUME TypeOK, Placed, NEW p \in Procs, NEW l, pc' = [pc EXCEPT ![p] = l],
           pc[p] \notin {"waiting", "exited"},
           stage' = stage, safety' = safety, faults' \in {faults, faults + 1},
           l = "ambiguous" => faults' > 0,
           p \in Recoverers =>
               /\ l \in {"exited"} \cup Looking \cup InFlight \cup Probing
               /\ l \in InFlight \cup {"redispatch"} => Route = "dispatching"
               /\ l = "review" => Route \notin {"dispatching", "reconciling"},
           p = Worker => l \in {"claimed", "exited"} \cup InFlight,
           p = Zombie => l = "exited"
    PROVE  Placed'
<1>1. /\ pc'[p] = l /\ \A q \in Procs \ {p} : pc'[q] = pc[q]
      /\ faults \in Nat /\ Route' = Route
    BY MatrixAssumption DEF TypeOK, Route, RouteUnknown
<1>2. ASSUME NEW r \in Recoverers
      PROVE  RecoveryPlaced(r)'
    <2>1. CASE r = p
        <3>1. stage = "recover" /\ stage' = "recover" /\ pc'[r] = l
            BY <1>1, <2>1 DEF Placed, RecoveryPlaced
        <3> QED
            BY <1>1, <2>1, <3>1 DEF RecoveryPlaced, Looking, InFlight, Probing
    <2>2. CASE r # p
        <3>1. pc'[r] = pc[r]
            BY <1>1, <2>2, ProcsType
        <3> QED BY <1>1, <3>1 DEF Placed, RecoveryPlaced
    <2> QED BY <2>1, <2>2
<1>3. \A q \in Procs : pc'[q] = "ambiguous" => faults' > 0
    BY <1>1 DEF Placed
<1>4. /\ pc'[Worker] = IF p = Worker THEN l ELSE pc[Worker]
      /\ pc'[Zombie] = IF p = Zombie THEN l ELSE pc[Zombie]
    BY <1>1, ProcsType
<1>5. /\ pc'[Worker] \in {"waiting", "claim", "claimed", "exited"} \cup InFlight
      /\ pc'[Worker] \notin {"waiting", "exited"} => stage' = "worker"
      /\ stage' \in {"recover", "zombie"} => pc'[Worker] = "exited"
    BY <1>4 DEF Placed
<1>6. /\ pc'[Zombie] \in {"waiting", "claimed", "exited"}
      /\ pc'[Zombie] = "claimed" => stage' = "zombie"
      /\ pc'[Zombie] = "exited" => stage' \in {"zombie", "passed", "failed"}
    BY <1>4 DEF Placed
<1> QED BY <1>2, <1>3, <1>5, <1>6 DEF Placed, InFlight

LEMMA PlacedStep == MatrixInv /\ Placed /\ [Next]_vars => Placed'
<1> SUFFICES ASSUME TypeOK, Staged, Routed, Placed, [Next]_vars PROVE Placed'
  BY DEF MatrixInv
<1> USE ProcsType
<1>0. Worker \in Procs /\ Zombie \in Procs /\ pc \in [Procs -> Labels]
      /\ Procs = Recoverers \cup {Worker, Zombie}
  BY DEF TypeOK, Procs
<1>1. CASE RunSubmit
  <2>1. \A p \in Procs : pc[p] = "waiting"
    BY <1>1 DEF RunSubmit, Staged
  <2>2. /\ pc' = [pc EXCEPT ![Worker] = "claim"] /\ stage' = "worker"
    BY <1>1 DEF RunSubmit
  <2> QED
    BY <1>0, <2>1, <2>2 DEF Placed, RecoveryPlaced, InFlight, Looking, Probing
<1>2. CASE RunRecoveries
  <2>1. pc[Worker] = "exited" /\ \A p \in Procs \ {Worker} : pc[p] = "waiting"
    BY <1>2 DEF RunRecoveries, Staged, TypeOK, NoCode
  <2>2. /\ pc' = [p \in Procs |-> IF p \in Recoverers THEN "get" ELSE pc[p]]
        /\ stage' = "recover"
    BY <1>2 DEF RunRecoveries
  <2> QED
    BY <1>0, <2>1, <2>2 DEF Placed, RecoveryPlaced, InFlight, Looking, Probing
<1>3. CASE RunZombie
  <2>1. /\ pc' = [pc EXCEPT ![Zombie] = "claimed"] /\ stage' = "zombie"
        /\ stage = "recover" /\ \A r \in Recoverers : pc[r] = "exited"
        /\ faults' = faults
    BY <1>3 DEF RunZombie, Recovered
  <2> QED
    BY <1>0, <2>1 DEF Placed, RecoveryPlaced, InFlight, Looking, Probing
<1>4. CASE RunLive \/ Judge
  <2>1. /\ stage' \in {"passed", "failed"} /\ pc' = pc /\ faults' = faults
        /\ pc[Worker] \in {"waiting", "exited"} /\ pc[Zombie] # "claimed"
        /\ \A r \in Recoverers : pc[r] \in {"waiting", "exited"}
    BY <1>4, <1>0
    DEF RunLive, Judge, Recovered, procs, TypeOK, NoCode, Placed, RecoveryPlaced
  <2> QED
    BY <2>1 DEF Placed, RecoveryPlaced, InFlight, Looking, Probing
<1>5. CASE Over \/ UNCHANGED vars
  BY <1>5
  DEF Over, vars, scenario, procs, Placed, RecoveryPlaced, Route, RouteUnknown
<1>6. CASE Claim
  BY <1>0, <1>6, PlacedMoves DEF Claim, Goto, scenario
<1>7. ASSUME NEW r \in Recoverers, Get(r)
      PROVE  Placed'
  <2> DEFINE l == CASE Route = "dispatching" -> "redispatch"
                    [] Route = "reconciling" -> "reconcile"
                    [] OTHER -> "review"
  <2>1. /\ l \in {"redispatch", "reconcile", "review"}
        /\ l = "redispatch" => Route = "dispatching"
        /\ l = "review" => Route \notin {"dispatching", "reconciling"}
        /\ pc' = [pc EXCEPT ![r] = l]
    BY <1>7 DEF Get, Goto, Route
  <2> HIDE DEF l
  <2>2. pc[r] = "get" /\ stage' = stage /\ safety' = safety /\ faults' = faults
    BY <1>7 DEF Get, scenario
  <2> QED
    BY <1>0, <2>1, <2>2, PlacedMoves DEF Looking, InFlight
<1>8. ASSUME NEW r \in Recoverers, Probe(r) \/ ProbeFails(r)
      PROVE  Placed'
  <2>1. PICK l \in {"exited", "unproven", "found", "absent"} :
          pc' = [pc EXCEPT ![r] = l]
    BY <1>8 DEF Probe, ProbeFails, Goto, Exit
  <2>2. /\ pc[r] = "probe" /\ stage' = stage /\ safety' = safety
        /\ faults' \in {faults, faults + 1}
    BY <1>8 DEF Probe, ProbeFails, Fault, scenario
  <2> QED
    BY <1>0, <2>1, <2>2, PlacedMoves DEF Probing, InFlight
<1>9. ASSUME NEW p \in Procs, StartAttempt(p) \/ Commit(p) \/ CommitFails(p)
      PROVE  Placed'
  <2>1. PICK l \in {"exited", "commit", "committed", "ambiguous"} :
          /\ pc' = [pc EXCEPT ![p] = l]
          /\ l = "ambiguous" => faults' = faults + 1
    BY <1>9 DEF StartAttempt, Commit, CommitFails, Fault, Goto, Exit
  <2>2. /\ pc[p] \in {"attempt", "commit"} /\ stage' = stage
        /\ safety' = safety /\ faults' \in {faults, faults + 1}
    BY <1>9 DEF StartAttempt, Commit, CommitFails, Fault, scenario
  <2>3. p # Zombie /\ (p \in Recoverers => Route = "dispatching")
    BY <2>2 DEF Placed, RecoveryPlaced, InFlight
  <2>4. faults \in Nat
    BY MatrixAssumption DEF TypeOK
  <2>5. /\ l \in {"exited"} \cup InFlight
        /\ pc[p] \notin {"waiting", "exited"}
        /\ l = "ambiguous" => faults' > 0
        /\ l # "redispatch" /\ l # "review"
    BY <2>1, <2>2, <2>4 DEF InFlight
  <2> QED
    BY <1>0, <2>1, <2>2, <2>3, <2>5, PlacedMoves
<1>10. ASSUME NEW p \in Procs,
              BeginDispatch(p) \/ Conclude(p) \/ (p \in Recoverers /\ BeginProbe(p))
       PROVE  Placed'
  <2>1. PICK s, k : Transition(p, s, k) /\ Writes(p, s, k)
    BY <1>10, WritesCover
  <2>2. PICK l \in {"exited", k} : pc' = [pc EXCEPT ![p] = l]
    BY <2>1 DEF Transition, Goto, Exit
  <2>3. stage' = stage /\ safety' = safety /\ faults' = faults
    BY <2>1 DEF Transition, scenario
  <2>4. /\ pc[p] \notin {"waiting", "exited"}
        /\ l \in {"exited", "attempt", "probe"}
        /\ l = "attempt" => pc[p] \in {"claimed", "redispatch"}
        /\ l = "probe" => pc[p] = "reconcile"
    BY <2>1, <2>2 DEF Writes
  <2>5. CASE p \in Recoverers
    <3>1. l = "attempt" => Route = "dispatching"
      BY <2>4, <2>5 DEF Placed, RecoveryPlaced, Looking, InFlight, Probing
    <3> QED
      BY <1>0, <2>2, <2>3, <2>4, <2>5, <3>1, PlacedMoves DEF InFlight, Probing
  <2>6. CASE p = Worker
    <3>1. l # "probe"
      BY <2>4, <2>6 DEF Placed, InFlight
    <3> QED
      BY <1>0, <2>2, <2>3, <2>4, <2>6, <3>1, PlacedMoves DEF InFlight
  <2>7. CASE p = Zombie
    <3>1. pc[p] = "claimed"
      BY <2>4, <2>7 DEF Placed
    <3>2. pc' = [pc EXCEPT ![p] = "exited"]
      BY <2>1, <2>2, <2>7, <3>1 DEF Writes
    <3> QED
      BY <1>0, <2>3, <2>4, <2>7, <3>2, PlacedMoves
  <2> QED
    BY <1>0, <2>5, <2>6, <2>7
<1> QED
  BY <1>1, <1>2, <1>3, <1>4, <1>5, <1>6, <1>7, <1>8, <1>9, <1>10
  DEF Next, Runner, Subprocess

\* The steps a recovery takes, told by what they do to the race.
RecoveryStep(r) ==
    Get(r) \/ BeginProbe(r) \/ Probe(r) \/ ProbeFails(r) \/ Subprocess(r)

Looks(r) ==
    /\ pc[r] = "get" /\ pc'[r] \in Looking \ {"get"} /\ held'[r] = version
    /\ exit'[r] = exit[r] /\ UNCHANGED <<status, version>>

GoesOn(r) ==
    /\ pc[r] \in InFlight \cup Probing /\ pc'[r] \in InFlight \cup Probing
    /\ exit'[r] = exit[r] /\ UNCHANGED <<status, version>>

Fails(r) ==
    /\ pc[r] \in InFlight \cup Probing /\ faults' > 0
    /\ UNCHANGED <<status, version>>

Loses(r) ==
    /\ pc[r] \in Looking \ {"get"} /\ pc'[r] = "exited" /\ exit'[r] # 0
    /\ ~(held[r] = version /\ status = "outcome_unknown")
    /\ UNCHANGED <<status, version>>

Wins(r) ==
    \E s, l :
        /\ Writes(r, s, l) /\ Accepted(r, s)
        /\ status' = s /\ version' = version + 1 /\ pc'[r] = l
        /\ exit'[r] = IF l = "exited" THEN 0 ELSE exit[r]

\* What it leaves alone.
OthersWait(r) ==
    /\ stage' = stage /\ safety' = safety /\ failpoint' = failpoint
    /\ faults' >= faults
    /\ \A q \in Procs \ {r} :
           pc'[q] = pc[q] /\ held'[q] = held[q] /\ exit'[q] = exit[q]

\* A process past its edge is never refused.
LEMMA InsideAccepted ==
    ASSUME MatrixInv, NEW p \in Procs, NEW s, NEW l, Writes(p, s, l),
           pc[p] \in InFlight \cup Probing
    PROVE  Accepted(p, s)
BY DEF MatrixInv, Alone, Writes, InFlight, Probing, Accepted, IsAllowed

LEMMA RecoverySteps ==
    ASSUME MatrixInv, Placed, NEW r \in Recoverers, RecoveryStep(r)
    PROVE  /\ OthersWait(r)
           /\ Looks(r) \/ GoesOn(r) \/ Fails(r) \/ Loses(r) \/ Wins(r)
<1> USE ProcsType
<1>0. /\ r \in Procs /\ pc \in [Procs -> Labels] /\ held \in [Procs -> Nat]
      /\ exit \in [Procs -> Codes] /\ faults \in Nat
  BY MatrixAssumption DEF MatrixInv, TypeOK
<1>1. CASE Get(r)
  <2>1. pc'[r] \in Looking \ {"get"}
    BY <1>0, <1>1 DEF Get, Goto, Looking
  <2>2. /\ held' = [held EXCEPT ![r] = version] /\ pc[r] = "get"
        /\ exit' = exit /\ status' = status /\ version' = version
    BY <1>1 DEF Get, Goto, ledger
  <2>3. OthersWait(r)
    BY <1>0, <1>1 DEF Get, Goto, OthersWait, scenario
  <2> QED
    BY <1>0, <2>1, <2>2, <2>3 DEF Looks
<1>2. CASE ProbeFails(r) \/ CommitFails(r)
  BY <1>0, <1>2
  DEF ProbeFails, CommitFails, Fails, OthersWait, InFlight, Probing, Fault, Exit,
      Goto, scenario, ledger
<1>3. CASE Probe(r) \/ Commit(r)
  BY <1>0, <1>3
  DEF Probe, Commit, GoesOn, OthersWait, InFlight, Probing, Goto, scenario, ledger
<1>4. CASE StartAttempt(r)
  <2>1. held[r] = version
    BY <1>0, <1>4 DEF StartAttempt, MatrixInv, Alone, InFlight
  <2> QED
    BY <1>0, <1>4, <2>1
    DEF StartAttempt, GoesOn, OthersWait, InFlight, Goto, scenario
<1>5. CASE BeginDispatch(r) \/ Conclude(r) \/ BeginProbe(r)
  <2>1. PICK s, l : Transition(r, s, l) /\ Writes(r, s, l)
    BY <1>0, <1>5, WritesCover
  <2>2. OthersWait(r)
    BY <1>0, <2>1 DEF Transition, Goto, Exit, OthersWait, scenario
  <2>3. CASE Accepted(r, s)
    <3>1. /\ status' = s /\ version' = version + 1 /\ pc'[r] = l
          /\ exit'[r] = IF l = "exited" THEN 0 ELSE exit[r]
      BY <1>0, <2>1, <2>3 DEF Transition, Goto, Exit
    <3> QED
      BY <2>1, <2>2, <2>3, <3>1 DEF Wins
  <2>4. CASE ~Accepted(r, s)
    <3>1. /\ pc'[r] = "exited" /\ exit'[r] # 0
          /\ status' = status /\ version' = version
      BY <1>0, <2>1, <2>4 DEF Transition, Exit, ExitCode, Conflict
    <3>2. pc[r] \notin InFlight \cup Probing /\ pc[r] # "claimed"
      BY <1>0, <2>1, <2>4, InsideAccepted
      DEF Placed, RecoveryPlaced, Looking, InFlight, Probing
    <3>3. /\ pc[r] \in {"redispatch", "reconcile", "review"}
          /\ IsAllowed("outcome_unknown", s)
      BY <2>1, <3>2 DEF Writes, InFlight, Probing, IsAllowed
    <3> QED
      BY <2>2, <2>4, <3>1, <3>3 DEF Loses, Looking, Accepted
  <2> QED
    BY <2>3, <2>4
<1> QED
  BY <1>1, <1>2, <1>3, <1>4, <1>5 DEF RecoveryStep, Subprocess

\* A step of the runner, of the worker, or of the zombie, and what it leaves
\* of the race: it starts the race, or writes nothing in it.
OtherStep ==
    \/ Runner \/ Over \/ Claim \/ UNCHANGED vars
    \/ Subprocess(Worker) \/ Subprocess(Zombie)

LEMMA StepsSplit ==
    [Next]_vars => OtherStep \/ \E r \in Recoverers : RecoveryStep(r)
BY DEF Next, OtherStep, RecoveryStep, Procs

Starts ==
    /\ stage = "worker" /\ stage' = "recover" /\ status' = "outcome_unknown"
    /\ version' = held'[Zombie] /\ pc'[Zombie] = "waiting"
    /\ exit'[Zombie] = exit[Zombie]
    /\ \A r \in Recoverers : pc'[r] = "get"

\* The race has not begun, or is over and judged.
Aside ==
    /\ stage' \in {"submit", "worker", "passed", "failed"}
    /\ pc'[Zombie] = pc[Zombie] /\ exit'[Zombie] = exit[Zombie]
    /\ \/ pc[Zombie] = "waiting"
       \/ version' = version /\ held'[Zombie] = held[Zombie]

\* The zombie is let loose, or is refused.
Refused ==
    /\ stage' = "zombie" /\ UNCHANGED <<scenario, ledger, target>>
    /\ held'[Zombie] = held[Zombie] /\ faults' = faults
    /\ exit'[Zombie] \in {exit[Zombie], Conflict}
    /\ Recovered /\ stage \in {"recover", "zombie"}
    /\ \A r \in Recoverers : pc'[r] = pc[r] /\ exit'[r] = exit[r]

\* Nothing of the race moves.
Rests ==
    UNCHANGED <<scenario, stage, ledger, target, pc, held, exit, faults>>

LEMMA OtherSteps ==
    ASSUME MatrixInv, Placed, Outdated, OtherStep
    PROVE  Starts \/ Aside \/ Refused \/ Rests
<1> USE ProcsType
<1>0. /\ Worker \in Procs /\ Zombie \in Procs /\ pc \in [Procs -> Labels]
      /\ held \in [Procs -> Nat] /\ exit \in [Procs -> Codes]
  BY DEF MatrixInv, TypeOK
<1>1. CASE RunSubmit
  BY <1>0, <1>1 DEF RunSubmit, MatrixInv, Staged, Aside
<1>2. CASE RunRecoveries
  <2>1. pc[Zombie] = "waiting" /\ Zombie \notin Recoverers
    BY <1>2, MatrixAssumption DEF RunRecoveries, MatrixInv, Staged
  <2> QED
    BY <1>0, <1>2, <2>1 DEF RunRecoveries, Starts
<1>3. CASE RunZombie
  BY <1>0, <1>3 DEF RunZombie, Refused, scenario, ledger
<1>4. CASE RunLive \/ Judge
  BY <1>4 DEF RunLive, Judge, Aside, ledger, procs
<1>5. CASE Over \/ UNCHANGED vars
  BY <1>5 DEF Over, vars, Rests, scenario, ledger, procs
<1>6. CASE Claim
  <2>1. stage = "worker" /\ pc[Zombie] = "waiting"
    BY <1>0, <1>6 DEF Claim, MatrixInv, Staged
  <2> QED
    BY <1>0, <1>6, <2>1 DEF Claim, Goto, Aside
<1>7. CASE Subprocess(Worker)
  <2>1. pc[Worker] \notin {"waiting", "exited"}
    BY <1>7 DEF Subprocess, BeginDispatch, StartAttempt, Commit, CommitFails, Conclude
  <2>2. stage = "worker" /\ pc[Zombie] = "waiting"
    BY <1>0, <2>1 DEF Placed, MatrixInv, Staged
  <2>3. stage' = stage
    BY <1>7
    DEF Subprocess, BeginDispatch, StartAttempt, Commit, CommitFails, Conclude,
        Transition
  <2>4. pc'[Zombie] = pc[Zombie] /\ exit'[Zombie] = exit[Zombie]
    BY <1>0, <1>7
    DEF Subprocess, BeginDispatch, StartAttempt, Commit, CommitFails, Conclude,
        Transition, Goto, Exit
  <2> QED
    BY <2>2, <2>3, <2>4 DEF Aside
<1>8. CASE Subprocess(Zombie)
  <2>1. pc[Zombie] = "claimed" /\ BeginDispatch(Zombie)
    BY <1>8
    DEF Placed, Subprocess, BeginDispatch, StartAttempt, Commit, CommitFails,
        Conclude
  <2>2. stage = "zombie" /\ version # held[Zombie]
    BY <1>0, <2>1 DEF Placed, Outdated
  <2>3. /\ Exit(Zombie, Conflict)
        /\ UNCHANGED <<status, version, attempts, target, held>>
        /\ UNCHANGED <<scenario, stage, faults>>
    BY <2>1, <2>2
    DEF BeginDispatch, Transition, Accepted, ExitCode
  <2>4. Recovered
    BY <2>2 DEF Recovered, Placed, RecoveryPlaced
  <2> QED
    BY <1>0, <2>2, <2>3, <2>4 DEF Exit, Refused, scenario, ledger
<1> QED
  BY <1>1, <1>2, <1>3, <1>4, <1>5, <1>6, <1>7, <1>8 DEF OtherStep, Runner

LEMMA OutdatedStep ==
    ASSUME Recoverers # {}, MatrixInv, Placed, Outdated, [Next]_vars
    PROVE  Outdated'
<1> USE ProcsType
<1>0. version \in Nat /\ held \in [Procs -> Nat] /\ held[Zombie] \in Nat
  BY DEF MatrixInv, TypeOK
<1>1. CASE Starts
  BY <1>1 DEF Starts, Outdated, Unmoved, Looking
<1>2. CASE Aside
  BY <1>2 DEF Aside, Outdated
<1>3. CASE Refused
  <2>1. ~Unmoved
    BY <1>3 DEF Refused, Recovered, Unmoved, Looking
  <2>2. version > held[Zombie]
    BY <1>3, <2>1 DEF Refused, Outdated
  <2> QED
    BY <1>3, <2>2 DEF Refused, ledger, Outdated
<1>4. CASE Rests
  BY <1>4 DEF Rests, ledger, Outdated, Unmoved
<1>5. ASSUME NEW r \in Recoverers, RecoveryStep(r)
      PROVE  Outdated'
  <2>1. /\ OthersWait(r)
        /\ Looks(r) \/ GoesOn(r) \/ Fails(r) \/ Loses(r) \/ Wins(r)
    BY <1>5, RecoverySteps
  <2>2. version' \in {version, version + 1}
    BY <2>1 DEF Looks, GoesOn, Fails, Loses, Wins
  <2>3. /\ pc'[Zombie] = pc[Zombie] /\ held'[Zombie] = held[Zombie]
        /\ exit'[Zombie] = exit[Zombie] /\ stage' = stage
    BY <2>1 DEF OthersWait
  <2>4. CASE version > held[Zombie]
    BY <1>0, <2>2, <2>3, <2>4 DEF Outdated
  <2>5. CASE ~(version > held[Zombie])
    <3>1. pc[r] \notin {"waiting", "exited"}
      BY <2>1
      DEF Looks, GoesOn, Fails, Loses, Wins, Writes, Looking, InFlight, Probing
    <3>2. stage = "recover" /\ Unmoved
      BY <2>5, <3>1 DEF Placed, RecoveryPlaced, Outdated
    <3>3. CASE Looks(r)
      <4>1. Unmoved'
        <5>1. version' = version /\ status' = status
          BY <3>3 DEF Looks
        <5>2. ASSUME NEW q \in Recoverers
              PROVE  pc'[q] \in Looking /\ (pc'[q] # "get" => held'[q] = version)
          <6>1. CASE q = r
            BY <3>3, <6>1 DEF Looks
          <6>2. CASE q # r
            BY <2>1, <3>2, <6>2 DEF OthersWait, Unmoved
          <6> QED
            BY <6>1, <6>2
        <5> QED
          BY <2>3, <3>2, <5>1, <5>2 DEF Unmoved
      <4> QED
        BY <2>3, <2>5, <4>1 DEF Outdated
    <3>4. ~GoesOn(r) /\ ~Fails(r) /\ ~Loses(r)
      BY <3>2 DEF Unmoved, GoesOn, Fails, Loses, Looking, InFlight, Probing
    <3>5. CASE Wins(r)
      <4>1. version' > held'[Zombie]
        BY <1>0, <2>3, <3>2, <3>5 DEF Wins, Unmoved
      <4> QED
        BY <2>3, <4>1 DEF Outdated
    <3> QED
      BY <2>1, <3>3, <3>4, <3>5
  <2> QED
    BY <2>4, <2>5
<1> QED
  BY <1>1, <1>2, <1>3, <1>4, <1>5, StepsSplit, OtherSteps

\* Before the race moves nobody has won; the one that moves it does.
LEMMA FirstWins ==
    ASSUME MatrixInv, Placed, NEW r \in Recoverers, Unmoved, OthersWait(r),
           Wins(r)
    PROVE  /\ \A q \in Recoverers : Winner(q)' <=> q = r
           /\ pc'[r] = "exited" => status' \notin {"dispatching", "reconciling"}
           /\ (status \in LeftAt)'
<1> USE ProcsType
<1>1. PICK s, l : /\ Writes(r, s, l) /\ status' = s /\ pc'[r] = l
                  /\ exit'[r] = IF l = "exited" THEN 0 ELSE exit[r]
  BY DEF Wins
<1>2. Route' = Route
  BY DEF OthersWait, Route, RouteUnknown
<1>3. pc[r] \in Looking
  BY DEF Unmoved
<1>4. r # Zombie /\ pc[r] # "claimed"
  BY <1>3 DEF Looking
<1>5. ASSUME NEW q \in Recoverers, q # r
      PROVE  ~Winner(q)'
  <2>1. pc'[q] = pc[q] /\ exit'[q] = exit[q] /\ pc[q] \in Looking
    BY <1>5 DEF OthersWait, Unmoved
  <2>2. exit[q] = NoCode
    BY <2>1 DEF MatrixInv, TypeOK, Looking
  <2> QED
    BY <2>1, <2>2 DEF Winner, Looking, InFlight, Probing, NoCode
<1>6. CASE pc[r] = "redispatch"
  <2>1. Route = "dispatching" /\ status' = "dispatching"
    BY <1>1, <1>6 DEF Placed, RecoveryPlaced, Writes
  <2>2. Winner(r)'
    BY <1>1, <1>6 DEF Writes, Winner, InFlight
  <2>3. pc'[r] # "exited"
    BY <1>1, <1>6, <1>4 DEF Writes
  <2> QED
    BY <1>2, <1>5, <2>1, <2>2, <2>3 DEF LeftAt
<1>7. CASE pc[r] = "reconcile"
  <2>1. Route = "reconciling" /\ status' = "reconciling" /\ pc'[r] = "probe"
    BY <1>1, <1>7 DEF MatrixInv, Routed, Route, Writes
  <2>2. Winner(r)'
    BY <2>1 DEF Winner, Probing
  <2> QED
    BY <1>2, <1>5, <2>1, <2>2 DEF LeftAt
<1>8. CASE pc[r] = "review"
  <2>1. /\ Route \notin {"dispatching", "reconciling"}
        /\ status' = "manual_review" /\ exit'[r] = 0
    BY <1>1, <1>8 DEF Placed, RecoveryPlaced, Writes
  <2> QED
    BY <1>2, <1>5, <2>1 DEF LeftAt, Winner
<1> QED
  BY <1>1, <1>3, <1>6, <1>7, <1>8 DEF Looking, Writes

\* Once the effect has moved no other recovery takes an edge: the write that is
\* accepted is the winner's last.
LEMMA LastWins ==
    ASSUME MatrixInv, Placed, NEW r \in Recoverers, status \in LeftAt,
           faults = 0, OthersWait(r), Wins(r)
    PROVE  /\ pc[r] \in InFlight \cup Probing /\ exit'[r] = 0
           /\ pc'[r] = "exited"
           /\ status' \notin {"dispatching", "reconciling"}
           /\ (status \in LeftAt)'
<1> USE ProcsType
<1>1. PICK s, l : /\ Writes(r, s, l) /\ status' = s /\ pc'[r] = l
                  /\ IsAllowed(status, s)
                  /\ exit'[r] = IF l = "exited" THEN 0 ELSE exit[r]
  BY DEF Wins, Accepted
<1>2. Route' = Route
  BY DEF OthersWait, Route, RouteUnknown
<1>3. pc[r] \notin {"claimed", "ambiguous"}
  BY DEF Placed, RecoveryPlaced, Looking, InFlight, Probing
<1>4. pc[r] # "redispatch"
  <2> SUFFICES ASSUME pc[r] = "redispatch" PROVE FALSE
    OBVIOUS
  <2>1. status \in {"dispatching", "succeeded"} /\ s = "dispatching"
    BY <1>1 DEF Placed, RecoveryPlaced, LeftAt, Writes
  <2> QED
    BY <1>1, <2>1 DEF IsAllowed
<1>5. pc[r] # "reconcile"
  <2> SUFFICES ASSUME pc[r] = "reconcile" PROVE FALSE
    OBVIOUS
  <2>1. /\ status \in {"reconciling", "succeeded", "prepared", "manual_review"}
        /\ s = "reconciling"
    BY <1>1 DEF MatrixInv, Routed, Route, LeftAt, Writes
  <2> QED
    BY <1>1, <2>1 DEF IsAllowed, Resolutions
<1>6. pc[r] # "review"
  <2> SUFFICES ASSUME pc[r] = "review" PROVE FALSE
    OBVIOUS
  <2>1. status = "manual_review" /\ s = "manual_review"
    BY <1>1 DEF Placed, RecoveryPlaced, LeftAt, Writes
  <2> QED
    BY <1>1, <2>1 DEF IsAllowed, Resolutions
<1>7. /\ pc[r] \in {"committed", "found", "absent", "unproven"}
      /\ l = "exited"
      /\ pc[r] \in {"committed", "found"} => s = "succeeded"
      /\ pc[r] = "absent" => s = "prepared"
      /\ pc[r] = "unproven" => s = "manual_review"
  BY <1>1, <1>3, <1>4, <1>5, <1>6 DEF Writes
<1>8. CASE pc[r] = "committed"
  <2>1. Route = "dispatching"
    BY <1>8 DEF Placed, RecoveryPlaced, InFlight
  <2> QED
    BY <1>1, <1>2, <1>7, <1>8, <2>1 DEF LeftAt, InFlight
<1>9. CASE pc[r] \in {"found", "absent", "unproven"}
  <2>1. Route = "reconciling"
    BY <1>9 DEF MatrixInv, Routed, Probing, Route
  <2> QED
    BY <1>1, <1>2, <1>7, <1>9, <2>1 DEF LeftAt, Probing
<1> QED
  BY <1>7, <1>8, <1>9

LEMMA OneWinnerStep ==
    ASSUME MatrixInv, Placed, Outdated, OneWinner, [Next]_vars
    PROVE  OneWinner'
<1> USE ProcsType
<1>0. version \in Nat /\ held \in [Procs -> Nat] /\ faults \in Nat
  BY MatrixAssumption DEF MatrixInv, TypeOK
<1>1. CASE Starts
  <2>1. version' \in Nat
    BY MatrixStep DEF MatrixInv, TypeOK
  <2>2. ~(version' > held'[Zombie])
    BY <1>1, <2>1 DEF Starts
  <2> QED
    BY <2>2 DEF OneWinner
<1>2. CASE Aside
  BY <1>2 DEF Aside, OneWinner
<1>3. CASE Refused
  <2>1. /\ stage \in {"recover", "zombie"} /\ faults' = faults
        /\ version' = version /\ status' = status /\ Route' = Route
        /\ held'[Zombie] = held[Zombie]
        /\ \A r \in Recoverers : pc'[r] = pc[r] /\ exit'[r] = exit[r]
    BY <1>3 DEF Refused, scenario, ledger, Route, RouteUnknown
  <2> QED
    BY <2>1 DEF OneWinner, Winner, LeftAt
<1>4. CASE Rests
  <2>1. Route' = Route
    BY <1>4 DEF Rests, scenario, Route, RouteUnknown
  <2> QED
    BY <1>4, <2>1 DEF Rests, ledger, OneWinner, Winner, LeftAt
<1>5. ASSUME NEW r \in Recoverers, RecoveryStep(r)
      PROVE  OneWinner'
  <2>1. /\ OthersWait(r)
        /\ Looks(r) \/ GoesOn(r) \/ Fails(r) \/ Loses(r) \/ Wins(r)
    BY <1>5, RecoverySteps
  <2> SUFFICES ASSUME stage' \in {"recover", "zombie"}, faults' = 0,
                      version' > held'[Zombie]
               PROVE  /\ \E w \in Recoverers :
                           /\ Winner(w)'
                           /\ \A q \in Recoverers : Winner(q)' => q = w
                           /\ pc'[w] = "exited"
                                => status' \notin {"dispatching", "reconciling"}
                      /\ (status \in LeftAt)'
    BY DEF OneWinner
  <2>2. /\ stage \in {"recover", "zombie"} /\ faults = 0
        /\ held'[Zombie] = held[Zombie] /\ Route' = Route
    BY <1>0, <2>1 DEF OthersWait, Route, RouteUnknown
  <2>3. \A q \in Recoverers \ {r} : Winner(q)' <=> Winner(q)
    BY <2>1 DEF OthersWait, Winner
  <2>4. CASE Looks(r) \/ Loses(r) \/ GoesOn(r)
    <3>1. version' = version /\ status' = status
      BY <2>4 DEF Looks, Loses, GoesOn
    <3>2. PICK w \in Recoverers :
            /\ Winner(w) /\ \A q \in Recoverers : Winner(q) => q = w
            /\ pc[w] = "exited" => status \notin {"dispatching", "reconciling"}
      BY <2>2, <3>1 DEF OneWinner
    <3>3. Winner(r)' <=> Winner(r)
      <4>1. CASE Looks(r)
        BY <4>1 DEF Looks, Winner, Looking, InFlight, Probing
      <4>2. CASE Loses(r)
        <5>1. exit[r] = NoCode
          BY <4>2 DEF Loses, Looking, MatrixInv, TypeOK
        <5> QED
          BY <4>2, <5>1 DEF Loses, Winner, Looking, InFlight, Probing, NoCode
      <4>3. CASE GoesOn(r)
        BY <4>3 DEF GoesOn, Winner
      <4> QED
        BY <2>4, <4>1, <4>2, <4>3
    <3>4. pc'[w] = "exited" => pc[w] = "exited"
      <4>1. CASE w = r
        BY <2>4, <3>2, <3>3, <4>1
        DEF Looks, Loses, GoesOn, Winner, Looking, InFlight, Probing, MatrixInv,
            TypeOK, NoCode
      <4>2. CASE w # r
        BY <2>1, <4>2 DEF OthersWait
      <4> QED
        BY <4>1, <4>2
    <3>5. (status \in LeftAt)'
      BY <2>2, <3>1 DEF OneWinner, LeftAt
    <3> QED
      BY <2>3, <3>1, <3>2, <3>3, <3>4, <3>5
  <2>5. CASE Wins(r) /\ version > held[Zombie]
    <3>1. PICK w \in Recoverers :
            Winner(w) /\ \A q \in Recoverers : Winner(q) => q = w
      BY <2>2, <2>5 DEF OneWinner
    <3>2. status \in LeftAt
      BY <2>2, <2>5 DEF OneWinner
    <3>3. /\ pc[r] \in InFlight \cup Probing /\ exit'[r] = 0
          /\ status' \notin {"dispatching", "reconciling"}
          /\ (status \in LeftAt)'
      BY <2>1, <2>2, <2>5, <3>2, LastWins
    <3>4. Winner(r) /\ Winner(r)'
      BY <3>3 DEF Winner
    <3> QED
      BY <2>3, <3>1, <3>3, <3>4
  <2>6. CASE Wins(r) /\ ~(version > held[Zombie])
    <3>1. Unmoved
      BY <2>2, <2>6 DEF Outdated
    <3> QED
      BY <2>1, <2>6, <3>1, FirstWins
  <2>7. ~Fails(r)
    BY DEF Fails
  <2> QED
    BY <2>1, <2>4, <2>5, <2>6, <2>7
<1> QED
  BY <1>1, <1>2, <1>3, <1>4, <1>5, StepsSplit, OtherSteps

LEMMA RaceStep ==
    ASSUME Recoverers # {}
    PROVE  MatrixInv /\ RaceInv /\ [Next]_vars => RaceInv'
BY PlacedStep, OutdatedStep, OneWinnerStep DEF RaceInv

LEMMA AlwaysRacing ==
    ASSUME Recoverers # {}
    PROVE  Spec => [](MatrixInv /\ RaceInv)
<1>1. MatrixInv /\ RaceInv /\ [Next]_vars => (MatrixInv /\ RaceInv)'
  BY MatrixStep, RaceStep
<1> QED
  BY <1>1, MatrixInit, RaceInit, PTL DEF Spec

\* Who has won is told by the exit codes when the zombie runs.
LEMMA WinnerIsOne ==
    ASSUME Recoverers # {}, MatrixInv, RaceInv, stage = "zombie", faults = 0
    PROVE  \E w \in Recoverers : {r \in Recoverers : exit[r] = 0} = {w}
<1>1. \A r \in Recoverers : pc[r] = "exited"
  BY DEF RaceInv, Placed, RecoveryPlaced
<1>2. version > held[Zombie]
  BY <1>1 DEF RaceInv, Outdated, Unmoved, Looking
<1>3. PICK w \in Recoverers : Winner(w) /\ \A r \in Recoverers : Winner(r) => r = w
  BY <1>2 DEF RaceInv, OneWinner
<1> QED
  BY <1>1, <1>3 DEF Winner, InFlight, Probing

\* While the target answers, exactly one of any number of recoveries that race
\* exits with 0, the code by which a recovery says that it resolved the effect.
THEOREM MatrixOneRecovers ==
    ASSUME Recoverers # {}
    PROVE  Spec => []OneRecovers
<1>1. MatrixInv /\ RaceInv => OneRecovers
  BY WinnerIsOne, FS_Singleton DEF OneRecovers, OneRecovery
<1> QED
  BY <1>1, AlwaysRacing, PTL

\* The zombie's write changes nothing, however the recoveries that ran before
\* it ended: the first of them to write has outdated its version.
THEOREM MatrixZombieNeverWrites ==
    ASSUME Recoverers # {}
    PROVE  Spec => ZombieNeverWrites
<1> DEFINE Frozen == (pc[Zombie] = "claimed" /\ pc'[Zombie] = "exited")
                        => UNCHANGED ledger
<1>1. ASSUME MatrixInv, RaceInv, [Next]_vars
      PROVE  [Frozen]_vars
  <2> SUFFICES ASSUME pc[Zombie] = "claimed", pc'[Zombie] = "exited"
               PROVE  UNCHANGED ledger
    OBVIOUS
  <2>1. stage = "zombie"
    BY <1>1 DEF RaceInv, Placed
  <2>2. ASSUME NEW r \in Recoverers, RecoveryStep(r)
        PROVE  FALSE
    BY <1>1, <2>2, ProcsType, RecoverySteps DEF RaceInv, OthersWait
  <2>3. Starts \/ Aside \/ Refused \/ Rests
    BY <1>1, <2>2, StepsSplit, OtherSteps DEF RaceInv
  <2> QED
    BY <2>3 DEF Starts, Aside, Refused, Rests
<1>2. MatrixInv /\ RaceInv /\ [Next]_vars => [Frozen]_vars
  BY <1>1
<1> QED
  BY <1>2, AlwaysRacing, PTL DEF Spec, ZombieNeverWrites

-----------------------------------------------------------------------------
(* The failpoint the matrix is run with *)

\* The scenarios of the runner: three recoveries, and no class but those that
\* its checks know how to judge.
TheMatrix == Recoverers # {} /\ "transactional" \notin Classes

Sure == failpoint = "after_target_commit_before_receipt" /\ faults = 0

\* The worker is killed on its first call, with the effect performed.
Killed ==
    /\ pc[Worker] \notin {"committed", "ambiguous"}
    /\ pc[Worker] \in {"waiting", "claim", "claimed", "attempt"}
         => attempts = 0 /\ calls = 0
    /\ pc[Worker] = "claimed" => status = "prepared" /\ held[Worker] = version
    /\ pc[Worker] = "commit" => attempts = 1 /\ calls = 0
    /\ pc[Worker] = "exited" =>
           /\ effects = 1 /\ exit[Worker] = 137
           /\ Route # "dispatching" => calls = 1 /\ attempts = 1

\* So a probe finds it, and the recovery that asks succeeds.
Answered ==
    /\ \A r \in Recoverers : pc[r] \notin {"absent", "unproven"}
    /\ (Route = "reconciling" /\ stage \in {"recover", "zombie"}
          /\ version > held[Zombie]) => status \in {"reconciling", "succeeded"}

PassInv ==
    /\ safety \in Classes
    /\ Sure => Killed /\ Answered /\ stage # "failed"

LEMMA ScenarioKept == [Next]_vars => scenario' = scenario
BY DEF Next, vars, Runner, RunSubmit, RunLive, RunRecoveries, RunZombie, Judge,
       Over, Claim, Get, BeginProbe, Probe, ProbeFails, Subprocess, BeginDispatch,
       StartAttempt, Commit, CommitFails, Conclude, Transition

LEMMA FaultsGrow ==
    ASSUME TypeOK, [Next]_vars
    PROVE  faults' \in {faults, faults + 1} /\ (faults' = 0 => faults = 0)
<1>1. faults \in Nat
  BY MatrixAssumption DEF TypeOK
<1> QED
  BY <1>1
  DEF Next, vars, Runner, RunSubmit, RunLive, RunRecoveries, RunZombie, Judge,
      Over, Claim, Get, BeginProbe, Probe, ProbeFails, Subprocess, BeginDispatch,
      StartAttempt, Commit, CommitFails, Conclude, Transition, Fault

LEMMA PassInit == Init => PassInv
BY ProcsType, MatrixAssumption
DEF Init, PassInv, Killed, Answered, NoCode

\* While the target answers, a recovery leaves a performed effect performed,
\* calls the target in no class but one, and its probe finds the effect.
LEMMA RecoveryCalls ==
    ASSUME MatrixInv, Placed, NEW r \in Recoverers, RecoveryStep(r), effects = 1,
           safety # "transactional"
    PROVE  /\ effects' = 1
           /\ Route # "dispatching" => attempts' = attempts /\ calls' = calls
           /\ pc'[r] \in {"absent", "unproven"} => pc'[r] = pc[r]
<1> USE ProcsType
<1>0. r \in Procs /\ pc \in [Procs -> Labels]
  BY DEF MatrixInv, TypeOK
<1>1. CASE Get(r) \/ ProbeFails(r) \/ CommitFails(r)
  BY <1>0, <1>1 DEF Get, ProbeFails, CommitFails, Goto, Exit, ledger, target
<1>2. CASE Probe(r)
  <2>1. safety = "reconcilable"
    BY <1>0, <1>2
    DEF Probe, MatrixInv, TypeOK, Routed, Probing, RouteUnknown, SafetyClass
  <2>2. Goto(r, "found")
    BY <1>2, <2>1 DEF Probe, Found
  <2> QED
    BY <1>0, <1>2, <2>2 DEF Probe, Goto, ledger, target
<1>3. CASE StartAttempt(r) \/ Commit(r)
  <2>1. Route = "dispatching"
    BY <1>3 DEF StartAttempt, Commit, Placed, RecoveryPlaced, InFlight
  <2> QED
    BY <1>0, <1>3, <2>1
    DEF StartAttempt, Commit, CommitOnce, Goto, Exit, target
<1>4. CASE BeginDispatch(r) \/ Conclude(r) \/ BeginProbe(r)
  <2>1. PICK s, l : Transition(r, s, l) /\ Writes(r, s, l)
    BY <1>0, <1>4, WritesCover
  <2>2. pc'[r] \in {l, "exited"} /\ l \notin {"absent", "unproven"}
    BY <1>0, <2>1 DEF Transition, Goto, Exit, Writes
  <2> QED
    BY <2>1, <2>2 DEF Transition, target
<1> QED
  BY <1>1, <1>2, <1>3, <1>4 DEF RecoveryStep, Subprocess

LEMMA KilledStep ==
    ASSUME TheMatrix, MatrixInv, Placed, Outdated, safety \in Classes, Sure', Sure,
           Killed, [Next]_vars
    PROVE  Killed'
<1> USE ProcsType
<1>0. /\ Worker \in Procs /\ pc \in [Procs -> Labels]
      /\ held \in [Procs -> Nat] /\ exit \in [Procs -> Codes]
      /\ faults = 0 /\ faults' = 0
      /\ failpoint = "after_target_commit_before_receipt"
      /\ Route' = Route
  BY ScenarioKept DEF MatrixInv, TypeOK, Sure, Route, RouteUnknown, scenario
<1>1. CASE RunSubmit
  <2>1. /\ pc[Worker] = "waiting" /\ pc'[Worker] = "claim"
        /\ UNCHANGED <<attempts, calls>>
    BY <1>0, <1>1 DEF RunSubmit, MatrixInv, Staged, target
  <2> QED
    BY <2>1 DEF Killed
<1>2. CASE RunRecoveries
  <2>1. /\ pc[Worker] = "exited" /\ pc'[Worker] = pc[Worker]
        /\ UNCHANGED <<attempts, target, exit>>
    BY <1>0, <1>2 DEF RunRecoveries, MatrixInv, TypeOK, NoCode
  <2> QED
    BY <1>0, <2>1 DEF Killed, target
<1>3. CASE RunLive \/ RunZombie \/ Judge \/ Over \/ UNCHANGED vars
  <2>1. /\ UNCHANGED <<ledger, target, held, exit>>
        /\ pc'[Worker] = pc[Worker]
    BY <1>0, <1>3 DEF RunLive, RunZombie, Judge, Over, vars, procs
  <2> QED
    BY <1>0, <2>1 DEF Killed, ledger, target
<1>4. CASE Claim
  <2>1. /\ pc[Worker] = "claim" /\ pc'[Worker] = "claimed"
        /\ status = "prepared" /\ held'[Worker] = version'
        /\ UNCHANGED <<status, attempts, calls>>
    BY <1>0, <1>4 DEF Claim, Goto, MatrixInv, Staged, target
  <2> QED
    BY <2>1 DEF Killed
<1>5. CASE BeginDispatch(Worker)
  <2>1. pc[Worker] = "claimed" /\ Accepted(Worker, "dispatching")
    BY <1>5
    DEF BeginDispatch, Killed, Accepted, IsAllowed, Placed, InFlight
  <2>2. pc'[Worker] = "attempt" /\ UNCHANGED <<attempts, calls>>
    BY <1>0, <1>5, <2>1 DEF BeginDispatch, Transition, Goto, target
  <2> QED
    BY <2>1, <2>2 DEF Killed
<1>6. CASE StartAttempt(Worker)
  <2>1. pc[Worker] = "attempt" /\ held[Worker] = version
    BY <1>0, <1>6 DEF StartAttempt, MatrixInv, Alone, InFlight
  <2>2. /\ attempts' = attempts + 1 /\ calls' = calls
        /\ pc'[Worker] = "commit"
    BY <1>0, <1>6, <2>1 DEF StartAttempt, Goto, target
  <2> QED
    BY <2>1, <2>2 DEF Killed
<1>7. CASE Commit(Worker)
  <2>1. /\ pc[Worker] = "commit" /\ pc'[Worker] = "exited"
        /\ exit'[Worker] = 137 /\ attempts' = attempts
        /\ calls' = calls + 1 /\ effects' = 1
    BY <1>0, <1>7
    DEF Commit, CommitOnce, Exit, ledger, MatrixInv, Evidence
  <2> QED
    BY <2>1 DEF Killed
<1>8. ~CommitFails(Worker) /\ ~Conclude(Worker)
  BY <1>0 DEF CommitFails, Fault, Conclude, Killed, Placed, InFlight
<1>9. CASE Subprocess(Zombie)
  <2>1. pc[Zombie] = "claimed" /\ BeginDispatch(Zombie)
    BY <1>9
    DEF Placed, Subprocess, BeginDispatch, StartAttempt, Commit, CommitFails,
        Conclude
  <2>2. pc[Worker] = "exited"
    BY <2>1 DEF Placed
  <2>3. pc'[Worker] = pc[Worker] /\ exit'[Worker] = exit[Worker]
    BY <1>0, <2>1 DEF BeginDispatch, Transition, Goto, Exit
  <2>4. UNCHANGED <<attempts, target>>
    BY <2>1 DEF BeginDispatch, Transition
  <2> QED
    BY <1>0, <2>2, <2>3, <2>4 DEF Killed, target
<1>10. ASSUME NEW r \in Recoverers, RecoveryStep(r)
       PROVE  Killed'
  <2>1. OthersWait(r)
    BY <1>10, RecoverySteps
  <2>2. pc[r] \notin {"waiting", "exited"}
    BY <1>10
    DEF RecoveryStep, Get, BeginProbe, Probe, ProbeFails, Subprocess, BeginDispatch,
        StartAttempt, Commit, CommitFails, Conclude
  <2>3. pc[Worker] = "exited"
    BY <2>2 DEF Placed, RecoveryPlaced
  <2>4. pc'[Worker] = pc[Worker] /\ exit'[Worker] = exit[Worker]
    BY <1>0, <2>1 DEF OthersWait
  <2>5. /\ effects' = 1
        /\ Route # "dispatching" => attempts' = attempts /\ calls' = calls
    BY <1>10, <2>3, RecoveryCalls DEF Killed, TheMatrix
  <2> QED
    BY <1>0, <2>3, <2>4, <2>5 DEF Killed
<1> QED
  BY <1>1, <1>2, <1>3, <1>4, <1>5, <1>6, <1>7, <1>8, <1>9, <1>10, StepsSplit
  DEF OtherStep, Runner, Subprocess

LEMMA AnsweredStep ==
    ASSUME TheMatrix, MatrixInv, Placed, Outdated, safety \in Classes, Sure', Sure,
           Killed, Answered, [Next]_vars
    PROVE  Answered'
<1> USE ProcsType
<1>0. /\ faults = 0 /\ faults' = 0 /\ Route' = Route /\ version \in Nat
      /\ pc \in [Procs -> Labels]
  BY ScenarioKept DEF MatrixInv, TypeOK, Sure, Route, RouteUnknown, scenario
<1>1. CASE OtherStep
  <2>1. \A r \in Recoverers : pc'[r] \notin {"absent", "unproven"}
    <3>1. ASSUME NEW r \in Recoverers
          PROVE  pc'[r] \in {pc[r], "get"}
      BY <1>0, <1>1
      DEF OtherStep, Runner, RunSubmit, RunLive, RunRecoveries, RunZombie, Judge,
          Over, Claim, vars, Subprocess, BeginDispatch, StartAttempt, Commit,
          CommitFails, Conclude, Transition, Goto, Exit, procs
    <3> QED
      BY <3>1 DEF Answered
  <2>2. CASE Starts
    <3>1. version' \in Nat
      BY MatrixStep DEF MatrixInv, TypeOK
    <3> QED
      BY <2>1, <2>2, <3>1 DEF Starts, Answered
  <2>3. CASE Aside
    BY <2>1, <2>3 DEF Aside, Answered
  <2>4. CASE Refused \/ Rests
    BY <1>0, <2>1, <2>4 DEF Refused, Rests, Answered, ledger
  <2> QED
    BY <1>1, <2>2, <2>3, <2>4, OtherSteps
<1>2. ASSUME NEW r \in Recoverers, RecoveryStep(r)
      PROVE  Answered'
  <2>1. /\ OthersWait(r)
        /\ Looks(r) \/ GoesOn(r) \/ Fails(r) \/ Loses(r) \/ Wins(r)
    BY <1>2, RecoverySteps
  <2>2. stage = "recover" /\ pc[Worker] = "exited"
    <3>1. pc[r] \notin {"waiting", "exited"}
      BY <1>2
      DEF RecoveryStep, Get, BeginProbe, Probe, ProbeFails, Subprocess,
          BeginDispatch, StartAttempt, Commit, CommitFails, Conclude
    <3> QED
      BY <3>1 DEF Placed, RecoveryPlaced
  <2>3. \A q \in Recoverers : pc'[q] \notin {"absent", "unproven"}
    <3>1. pc'[r] \in {"absent", "unproven"} => pc'[r] = pc[r]
      BY <1>2, <2>2, RecoveryCalls DEF Killed, TheMatrix
    <3> QED
      BY <2>1, <3>1 DEF OthersWait, Answered
  <2>4. ASSUME Route = "reconciling", version' > held'[Zombie]
        PROVE  status' \in {"reconciling", "succeeded"}
    <3>1. held'[Zombie] = held[Zombie]
      BY <1>0, <2>1 DEF OthersWait
    <3>2. CASE version' = version /\ status' = status
      BY <2>2, <2>4, <3>1, <3>2 DEF Answered
    <3>3. CASE Wins(r)
      <4>1. PICK s, l : Writes(r, s, l) /\ status' = s
        BY <3>3 DEF Wins
      <4>2. pc[r] \in {"reconcile", "found"} \cup {"absent", "unproven"}
        BY <2>4, <4>1
        DEF Writes, Placed, RecoveryPlaced, Looking, InFlight, Probing
      <4> QED
        BY <4>1, <4>2 DEF Writes, Answered
    <3> QED
      BY <1>0, <2>1, <3>2, <3>3 DEF Looks, GoesOn, Fails, Loses
  <2> QED
    BY <1>0, <2>3, <2>4 DEF Answered
<1> QED
  BY <1>1, <1>2, StepsSplit

\* What the matrix finds when the zombie is done passes.
LEMMA JudgePasses ==
    ASSUME TheMatrix, MatrixInv, RaceInv, safety \in Classes, Sure, Killed,
           Answered, stage = "zombie", pc[Zombie] = "exited"
    PROVE  JudgedRight /\ OneRecovery /\ exit[Zombie] = Conflict
<1> USE ProcsType
<1>1. \A r \in Recoverers : pc[r] = "exited"
  BY DEF RaceInv, Placed, RecoveryPlaced
<1>2. version > held[Zombie]
  BY <1>1 DEF TheMatrix, RaceInv, Outdated, Unmoved, Looking
<1>3. OneRecovery
  BY WinnerIsOne, FS_Singleton DEF TheMatrix, Sure, OneRecovery
<1>4. status \in LeftAt /\ status \notin {"dispatching", "reconciling"}
  BY <1>1, <1>2 DEF RaceInv, OneWinner, Sure
<1>5. exit[Zombie] = Conflict
  BY DEF RaceInv, Outdated, MatrixInv, TypeOK
<1>6. /\ effects = 1 /\ (Route # "dispatching" => calls = 1 /\ attempts = 1)
  BY DEF RaceInv, Placed, Killed
<1>7. safety \in {"idempotent", "reconcilable", "unsafe"}
  BY DEF TheMatrix, MatrixInv, TypeOK, SafetyClass
<1>8. CASE safety = "idempotent"
  BY <1>3, <1>5, <1>4, <1>6, <1>8 DEF JudgedRight, LeftAt, Route, RouteUnknown
<1>9. CASE safety = "reconcilable"
  <2>1. Route = "reconciling"
    BY <1>9 DEF Route, RouteUnknown
  <2>2. status = "succeeded"
    BY <1>2, <1>4, <2>1 DEF Answered
  <2> QED
    BY <1>3, <1>5, <1>6, <1>9, <2>1, <2>2 DEF JudgedRight
<1>10. CASE safety = "unsafe"
  <2>1. Route \notin {"dispatching", "reconciling"}
    BY <1>10 DEF Route, RouteUnknown
  <2> QED
    BY <1>3, <1>5, <1>4, <1>6, <1>10, <2>1 DEF JudgedRight, LeftAt
<1> QED
  BY <1>3, <1>5, <1>7, <1>8, <1>9, <1>10

LEMMA PassStep ==
    ASSUME TheMatrix, MatrixInv, RaceInv, PassInv, [Next]_vars
    PROVE  PassInv'
<1>1. safety' = safety /\ failpoint' = failpoint
  BY ScenarioKept DEF scenario
<1> SUFFICES ASSUME Sure'
             PROVE  Killed' /\ Answered' /\ stage' # "failed"
  BY <1>1 DEF PassInv
<1>2. Sure
  BY <1>1, FaultsGrow DEF Sure, MatrixInv
<1>3. Killed /\ Answered /\ stage # "failed" /\ safety \in Classes
  BY <1>2 DEF PassInv
<1>4. Killed' /\ Answered'
  BY <1>2, <1>3, KilledStep, AnsweredStep DEF RaceInv
<1>5. ~RunLive
  <2>1. RunLive => pc[Worker] = "exited" /\ exit[Worker] = 0
    BY ProcsType DEF RunLive, MatrixInv, TypeOK, NoCode
  <2> QED
    BY <1>3, <2>1 DEF Killed
<1>6. Judge => stage' = "passed"
  BY <1>2, <1>3, JudgePasses DEF Judge
<1>7. ASSUME OtherStep
      PROVE  stage' # "failed"
  BY <1>3, <1>5, <1>6, <1>7
  DEF OtherStep, Runner, RunSubmit, RunRecoveries, RunZombie, Over, Claim, vars,
      Subprocess, BeginDispatch, StartAttempt, Commit, CommitFails, Conclude,
      Transition
<1>8. ASSUME NEW r \in Recoverers, RecoveryStep(r)
      PROVE  stage' # "failed"
  BY <1>3, <1>8, RecoverySteps DEF RaceInv, OthersWait
<1> QED
  BY <1>4, <1>7, <1>8, StepsSplit

\* While the target answers, the failpoint the matrix is run with passes: in
\* every class it judges, for any number of recoveries and every order of the
\* processes.
THEOREM TheMatrixPasses ==
    ASSUME TheMatrix
    PROVE  Spec => []MatrixPasses
<1>1. PassInv /\ MatrixInv => MatrixPasses
  BY MatrixAssumption DEF PassInv, Sure, MatrixInv, TypeOK, MatrixPasses
<1>2. TheMatrix /\ MatrixInv /\ RaceInv /\ PassInv /\ [Next]_vars => PassInv'
  BY PassStep
<1>3. Recoverers # {}
  BY DEF TheMatrix
<1> QED
  BY <1>1, <1>2, <1>3, AlwaysRacing, PassInit, PTL DEF Spec
=============================================================================
