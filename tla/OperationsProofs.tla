-------------------------- MODULE OperationsProofs --------------------------
(***************************************************************************)
(* Proofs about operations: the backfill tasks, the heartbeats, and the    *)
(* metrics warehouse with the SLA checks that read it.                     *)
(***************************************************************************)
EXTENDS QualityOps, Heartbeat, FiniteSetTheorems, WellFoundedInduction, TLAPS

(* Backfills: NothingLeftRunning for any plans, any number of runs, and    *)
(* timeouts and deaths at any step.                                        *)
(*                                                                         *)
(* The property speaks of the time when no run is under way; the invariant *)
(* says in whose hands each RUNNING task is until then (RunningIsInHand).  *)

\* The checks and backfills, whatever the builds and the other writers do to the warehouse.
QaSpec == QaInit /\ [][QaNext]_qaVars

TaskFields == {"status", "attempts", "error"}
IsRow(x) == x = [f \in TaskFields |-> x[f]]
QaTypeOK ==
  /\ DOMAIN rPlan = Runs /\ DOMAIN rTodo = Runs /\ DOMAIN rBusy = Runs
  /\ rPlan = [r \in Runs |-> rPlan[r]] /\ rTodo = [r \in Runs |-> rTodo[r]]
  /\ rBusy \in [Runs -> BOOLEAN] /\ killed \in BOOLEAN
  /\ tasks = [k \in DOMAIN tasks |-> tasks[k]] /\ \A k \in DOMAIN tasks : IsRow(tasks[k])

\* A process that has a command running has a plan and a task in hand,
HasTask ==
  \A r \in Runs : /\ rBusy[r] => rTodo[r] # <<>>
                  /\ rPlan[r] = None => rTodo[r] = <<>>

\* and unless one was killed, whatever is RUNNING is in the hands of a process.
RunningIsInHand ==
  ~killed => \A k \in DOMAIN tasks : tasks[k].status = "RUNNING" =>
               \E r \in Runs : rBusy[r] /\ rTodo[r][1] = k

QaInv == QaTypeOK /\ HasTask /\ RunningIsInHand

\* It holds before any run.
LEMMA QaInitInv == QaInit => QaInv
BY DEF QaInit, QaInv, QaTypeOK, HasTask, RunningIsInHand, Empty

\* A process changes its own plan, tasks and command.
LEMMA RunStepInv ==
  ASSUME QaInv, NEW r \in Runs, QaTypeOK', killed => killed',
         \A q \in Runs : q # r => rPlan'[q] = rPlan[q] /\ rTodo'[q] = rTodo[q] /\ rBusy'[q] = rBusy[q],
         rBusy'[r] => rTodo'[r] # <<>>, rPlan'[r] = None => rTodo'[r] = <<>>,
         \A k \in DOMAIN tasks' : ~killed' /\ tasks'[k].status = "RUNNING" =>
           \/ rBusy'[r] /\ rTodo'[r][1] = k
           \/ /\ k \in DOMAIN tasks /\ tasks[k].status = "RUNNING"
              /\ ~(rBusy[r] /\ rTodo[r][1] = k)
  PROVE  QaInv'
<1>1. QaTypeOK /\ HasTask /\ RunningIsInHand
  BY DEF QaInv
<1>2. HasTask'
  BY <1>1 DEF HasTask
<1>3. ASSUME ~killed', NEW k \in DOMAIN tasks', tasks'[k].status = "RUNNING"
      PROVE  \E q \in Runs : rBusy'[q] /\ rTodo'[q][1] = k
  <2>1. CASE rBusy'[r] /\ rTodo'[r][1] = k
    BY <2>1
  <2>2. CASE k \in DOMAIN tasks /\ tasks[k].status = "RUNNING" /\ ~(rBusy[r] /\ rTodo[r][1] = k)
    <3>1. PICK q \in Runs : rBusy[q] /\ rTodo[q][1] = k
      BY <1>1, <1>3, <2>2 DEF RunningIsInHand
    <3>2. q # r
      BY <2>2, <3>1
    <3> QED  BY <3>1, <3>2
  <2> QED  BY <1>3, <2>1, <2>2
<1>4. RunningIsInHand'
  BY <1>3 DEF RunningIsInHand
<1> QED  BY <1>2, <1>4 DEF QaInv

\* Every step of a backfill, and of what it reads, keeps it.
LEMMA QaStepInv == ASSUME QaInv, [QaNext]_qaVars PROVE QaInv'
<1>1. QaTypeOK /\ HasTask /\ RunningIsInHand
  BY DEF QaInv
<1>2. ASSUME UNCHANGED <<rPlan, rTodo, rBusy, killed>>,
             tasks' = [k \in DOMAIN tasks' |-> tasks'[k]], \A k \in DOMAIN tasks' : IsRow(tasks'[k]),
             \A k \in DOMAIN tasks' : tasks'[k].status = "RUNNING" =>
               k \in DOMAIN tasks /\ tasks[k].status = "RUNNING"
      PROVE  QaInv'
  <2>1. QaTypeOK'
    BY <1>1, <1>2 DEF QaTypeOK
  <2>2. HasTask' /\ RunningIsInHand'
    BY <1>1, <1>2 DEF HasTask, RunningIsInHand
  <2> QED  BY <2>1, <2>2 DEF QaInv
<1>3. CASE UNCHANGED tasks /\ UNCHANGED <<rPlan, rTodo, rBusy, killed>>
  BY <1>1, <1>2, <1>3 DEF QaTypeOK
<1>4. CASE UNCHANGED qaVars \/ SlaCheck(Yesterday, FALSE)
           \/ \E plan \in Plans, q \in Requests : PlanCrashes(plan, q)
  BY <1>3, <1>4 DEF qaVars, SlaCheck, PlanCrashes, runVars
<1>5. ASSUME NEW plan \in Plans, NEW q \in Requests, PlanBackfill(plan, q) PROVE QaInv'
  <2>1. PICK new : tasks' = [k \in new \cup DOMAIN tasks |-> IF k \in new THEN Planned ELSE tasks[k]]
    BY <1>5 DEF PlanBackfill
  <2>2. UNCHANGED <<rPlan, rTodo, rBusy, killed>>
    BY <1>5 DEF PlanBackfill, runVars
  <2>3. ASSUME NEW k \in DOMAIN tasks'
        PROVE  IsRow(tasks'[k]) /\ (tasks'[k].status = "RUNNING" =>
                                      k \in DOMAIN tasks /\ tasks[k].status = "RUNNING")
    <3>1. CASE k \in new
      BY <2>1, <3>1 DEF Planned, IsRow, TaskFields
    <3>2. CASE k \notin new
      BY <1>1, <2>1, <2>3, <3>2 DEF QaTypeOK
    <3> QED  BY <3>1, <3>2
  <2>4. tasks' = [k \in DOMAIN tasks' |-> tasks'[k]]
    BY <2>1
  <2> QED  BY <1>2, <2>2, <2>3, <2>4
<1>6. ASSUME NEW r \in Runs, NEW plan \in Plans, StartRun(r, plan) PROVE QaInv'
  <2>1. PICK todo : /\ rPlan' = [rPlan EXCEPT ![r] = plan] /\ rTodo' = [rTodo EXCEPT ![r] = todo]
                    /\ rPlan[r] = None /\ UNCHANGED <<tasks, rBusy, killed>>
    BY <1>6 DEF StartRun
  <2>2. ~rBusy[r] /\ plan # None
    BY <1>1, <2>1, BackfillAssumption DEF HasTask
  <2>3. QaTypeOK' /\ rPlan'[r] = plan
        /\ \A q \in Runs : q # r => rPlan'[q] = rPlan[q] /\ rTodo'[q] = rTodo[q]
    BY <1>1, <2>1 DEF QaTypeOK
  <2> QED  BY <2>1, <2>2, <2>3, RunStepInv
<1>7. ASSUME NEW r \in Runs, BeginTask(r) PROVE QaInv'
  <2>1. PICK k, n : /\ k = rTodo[r][1] /\ rTodo[r] # <<>>
                    /\ tasks' = [tasks EXCEPT ![k].status = "RUNNING", ![k].attempts = n]
                    /\ rBusy' = [rBusy EXCEPT ![r] = TRUE] /\ UNCHANGED <<rPlan, rTodo, killed>>
                    /\ ~rBusy[r]
    BY <1>7 DEF BeginTask
  <2>2. /\ tasks' = [x \in DOMAIN tasks' |-> tasks'[x]] /\ DOMAIN tasks' = DOMAIN tasks
        /\ \A x \in DOMAIN tasks : x # k => tasks'[x] = tasks[x]
    BY <1>1, <2>1 DEF QaTypeOK
  <2>3. k \in DOMAIN tasks => IsRow(tasks'[k])
    BY <1>1, <2>1 DEF QaTypeOK, IsRow, TaskFields
  <2>4. rBusy' \in [Runs -> BOOLEAN] /\ rBusy'[r] /\ \A q \in Runs : q # r => rBusy'[q] = rBusy[q]
    BY <1>1, <2>1 DEF QaTypeOK
  <2>5. QaTypeOK'
    BY <1>1, <2>1, <2>2, <2>3, <2>4 DEF QaTypeOK
  <2>6. rPlan[r] # None
    BY <1>1, <2>1 DEF HasTask
  <2> QED  BY <2>1, <2>2, <2>4, <2>5, <2>6, RunStepInv
<1>8. ASSUME NEW r \in Runs, NEW status, NEW error, status # "RUNNING", Ended(r, status, error)
      PROVE  QaInv'
  <2>1. PICK k, todo : /\ k = rTodo[r][1] /\ todo = Tail(rTodo[r])
                       /\ tasks' = [tasks EXCEPT ![k].status = status, ![k].error = error]
                       /\ rBusy' = [rBusy EXCEPT ![r] = FALSE]
                       /\ rTodo' = [rTodo EXCEPT ![r] = todo] /\ UNCHANGED <<rPlan, killed>> /\ rBusy[r]
    BY <1>8 DEF Ended
  <2>2. /\ tasks' = [x \in DOMAIN tasks' |-> tasks'[x]] /\ DOMAIN tasks' = DOMAIN tasks
        /\ \A x \in DOMAIN tasks : x # k => tasks'[x] = tasks[x]
    BY <1>1, <2>1 DEF QaTypeOK
  <2>3. k \in DOMAIN tasks => IsRow(tasks'[k]) /\ tasks'[k].status = status
    <3>1. ASSUME k \in DOMAIN tasks
          PROVE  tasks'[k] = [[tasks[k] EXCEPT !.status = status] EXCEPT !.error = error]
      BY <1>1, <2>1, <3>1 DEF QaTypeOK
    <3>2. k \in DOMAIN tasks => tasks[k] = [f \in TaskFields |-> tasks[k][f]]
      BY <1>1 DEF QaTypeOK, IsRow
    <3> QED  BY <3>1, <3>2 DEF IsRow, TaskFields
  <2>4. /\ rBusy' \in [Runs -> BOOLEAN] /\ ~rBusy'[r] /\ rTodo'[r] = todo
        /\ \A q \in Runs : q # r => rBusy'[q] = rBusy[q] /\ rTodo'[q] = rTodo[q]
    BY <1>1, <2>1 DEF QaTypeOK
  <2>5. QaTypeOK'
    BY <1>1, <2>1, <2>2, <2>3, <2>4 DEF QaTypeOK
  <2>6. rPlan[r] # None
    BY <1>1, <2>1 DEF HasTask
  <2>7. ASSUME NEW x \in DOMAIN tasks', tasks'[x].status = "RUNNING"
        PROVE  x \in DOMAIN tasks /\ tasks[x].status = "RUNNING" /\ rTodo[r][1] # x
    BY <1>8, <2>1, <2>2, <2>3, <2>7
  <2>8. /\ \A q \in Runs : q # r => rPlan'[q] = rPlan[q] /\ rTodo'[q] = rTodo[q] /\ rBusy'[q] = rBusy[q]
        /\ killed => killed'
    BY <2>1, <2>4
  <2>9. \A x \in DOMAIN tasks' : ~killed' /\ tasks'[x].status = "RUNNING" =>
           \/ rBusy'[r] /\ rTodo'[r][1] = x
           \/ /\ x \in DOMAIN tasks /\ tasks[x].status = "RUNNING"
              /\ ~(rBusy[r] /\ rTodo[r][1] = x)
    BY <2>7
  <2>10. rPlan'[r] # None
    BY <2>1, <2>6
  <2> QED  BY <2>4, <2>5, <2>8, <2>9, <2>10, RunStepInv
<1>9. ASSUME NEW r \in Runs, EndTask(r) \/ TimeOut(r) PROVE QaInv'
  BY <1>8, <1>9 DEF EndTask, TimeOut, TimedOut
<1>10. ASSUME NEW r \in Runs, FinishRun(r) \/ KillRun(r) PROVE QaInv'
  <2>1. /\ rPlan' = [rPlan EXCEPT ![r] = None] /\ rTodo' = [rTodo EXCEPT ![r] = <<>>]
        /\ rBusy' = [rBusy EXCEPT ![r] = FALSE] /\ UNCHANGED tasks
        /\ (rTodo[r] = <<>> /\ UNCHANGED killed) \/ killed' = TRUE
    BY <1>10 DEF FinishRun, KillRun, Gone
  <2>2. ~killed' => ~rBusy[r]
    BY <1>1, <2>1 DEF HasTask
  <2>3. /\ QaTypeOK' /\ ~rBusy'[r] /\ rTodo'[r] = <<>>
        /\ \A q \in Runs : q # r => rPlan'[q] = rPlan[q] /\ rTodo'[q] = rTodo[q] /\ rBusy'[q] = rBusy[q]
    BY <1>1, <2>1 DEF QaTypeOK
  <2> QED  BY <1>1, <2>1, <2>2, <2>3, RunStepInv DEF QaTypeOK
<1> QED
  BY <1>4, <1>5, <1>6, <1>7, <1>9, <1>10 DEF QaNext

\* The invariant holds in every behaviour of checks and backfills, whatever else writes the warehouse.
THEOREM QaInvariant == QaSpec => []QaInv
BY QaInitInv, QaStepInv, PTL DEF QaSpec

\* When no `backfill run` is under way and none was killed, no task says RUNNING: a command that
\* fails, raises or times out ends its task (backfill_run).
THEOREM NoneLeftRunning == QaSpec => []NothingLeftRunning
<1>1. QaInv => NothingLeftRunning
  BY DEF QaInv, QaTypeOK, HasTask, RunningIsInHand, NothingLeftRunning
<1> QED  BY QaInvariant, <1>1, PTL

-----------------------------------------------------------------------------
(* Heartbeats: CheckIsRight for any tasks, steps, phases and intervals.    *)

HbTypeOK ==
  /\ clock \in 0 .. MaxTime
  /\ hbState \in [HbTasks -> {"idle", "running", "finished", "failed", "dead"}]
  /\ hbPhase \in [HbTasks -> 1 .. HbPhases] /\ hbBeat \in [HbTasks -> 0 .. MaxTime]
  /\ hbLog \subseteq Beats /\ hbRows \subseteq HbTasks
  /\ hbWritable \in [HbTasks -> BOOLEAN] /\ hbDb \in BOOLEAN

\* The last beat of a task that can write the log is in the log, with its phase;
LastIsLogged ==
  \A t \in HbTasks : InPhase(t) /\ hbWritable[t] =>
    [task |-> t, phase |-> hbPhase[t], at |-> hbBeat[t]] \in hbLog

\* no line is later than the last beat of its task;
LogIsPast ==
  /\ \A t \in HbTasks : hbBeat[t] <= clock
  /\ \A b \in hbLog : InPhase(b.task) /\ b.at <= hbBeat[b.task]

\* and every key of the log has a latest beat.
HasLatest(S) == \E x \in S : \A y \in S : y <= x
KeysHaveLatest == \A key \in HbKeys : HasLatest(Of(key))

\* A task that has not begun is in its first phase: the phase Enter beats.
BeginsFirst == \A t \in HbTasks : hbState[t] = "idle" => hbPhase[t] = 1

HbInv == HbTypeOK /\ LastIsLogged /\ LogIsPast /\ KeysHaveLatest /\ BeginsFirst

\* What is chosen as the latest beat is the latest beat.
LEMMA LatestIsMax ==
  ASSUME HbInv, NEW key \in HbKeys
  PROVE  LatestBeat(key) \in Of(key) /\ LatestBeat(key) \in Nat /\ \A y \in Of(key) : y <= LatestBeat(key)
<1>1. PICK S : S = Of(key)
  OBVIOUS
<1>2. S \subseteq Nat
  BY <1>1 DEF Of, HbInv, HbTypeOK, Beats
<1>3. PICK x \in S : \A y \in S : y <= x
  BY <1>1 DEF HbInv, KeysHaveLatest, HasLatest
<1>4. \A y \in S : x >= y
  BY <1>2, <1>3
<1>5. Max(S) \in S /\ \A y \in S : Max(S) >= y
  BY <1>3, <1>4 DEF Max
<1>6. LatestBeat(key) = Max(S)
  BY <1>1 DEF LatestBeat
<1> QED  BY <1>1, <1>2, <1>5, <1>6

\* A beat is the latest of its key.
LEMMA EmitKeepsInv ==
  ASSUME HbInv, NEW t \in HbTasks, NEW phase \in 1 .. HbPhases, Emit(t, phase),
         UNCHANGED <<clock, hbWritable, hbDb>>, hbPhase' = [hbPhase EXCEPT ![t] = phase],
         hbState' \in [HbTasks -> {"idle", "running", "finished", "failed", "dead"}],
         hbState'[t] # "idle", \A u \in HbTasks : u # t => hbState'[u] = hbState[u]
  PROVE  HbInv'
<1>1. PICK beat : beat = [task |-> t, phase |-> phase, at |-> clock]
  OBVIOUS
<1>2. HbTypeOK /\ clock \in 0 .. MaxTime /\ clock \in Nat
  BY HeartbeatAssumption DEF HbInv, HbTypeOK
<1>3. beat \in Beats /\ beat.task = t /\ beat.phase = phase /\ beat.at = clock
  BY <1>1, <1>2 DEF Beats
<1>4. /\ hbLog' = hbLog \cup {beat} \/ (hbLog' = hbLog /\ ~hbWritable[t])
      /\ hbBeat' = [hbBeat EXCEPT ![t] = clock] /\ hbRows' \subseteq HbTasks
  BY <1>1, <1>2 DEF Emit, HbTypeOK
<1>5. hbLog' \subseteq Beats
  BY <1>2, <1>3, <1>4 DEF HbTypeOK
<1>6. HbTypeOK'
  BY <1>2, <1>4, <1>5 DEF HbTypeOK
<1>7. hbBeat'[t] = clock /\ hbPhase'[t] = phase
      /\ \A u \in HbTasks : u # t => hbBeat'[u] = hbBeat[u] /\ hbPhase'[u] = hbPhase[u]
  BY <1>2, <1>4 DEF HbTypeOK
<1>8. LastIsLogged'
  <2>1. SUFFICES ASSUME NEW u \in HbTasks, hbState'[u] # "idle", hbWritable[u]
                 PROVE  [task |-> u, phase |-> hbPhase'[u], at |-> hbBeat'[u]] \in hbLog'
    BY DEF LastIsLogged, InPhase
  <2>2. CASE u = t
    BY <1>1, <1>4, <1>7, <2>1, <2>2
  <2>3. CASE u # t
    <3>1. [task |-> u, phase |-> hbPhase[u], at |-> hbBeat[u]] \in hbLog
      BY <2>1, <2>3 DEF HbInv, LastIsLogged, InPhase
    <3> QED  BY <1>4, <1>7, <2>3, <3>1
  <2> QED  BY <2>2, <2>3
<1>9. LogIsPast'
  <2>1. \A u \in HbTasks : hbBeat'[u] <= clock
    BY <1>2, <1>7 DEF HbInv, LogIsPast
  <2>2. ASSUME NEW b \in hbLog' PROVE hbState'[b.task] # "idle" /\ b.at <= hbBeat'[b.task]
    <3>1. CASE b = beat
      BY <1>2, <1>3, <1>7, <3>1
    <3>2. CASE b \in hbLog
      <4>1. b.task \in HbTasks /\ b.at \in Nat /\ hbState[b.task] # "idle" /\ b.at <= hbBeat[b.task]
        BY <1>2, <3>2 DEF HbInv, HbTypeOK, Beats, LogIsPast, InPhase
      <4>2. hbBeat[b.task] \in Nat /\ hbBeat[b.task] <= clock
        BY <1>2, <4>1 DEF HbInv, HbTypeOK, LogIsPast
      <4> QED  BY <1>2, <1>7, <4>1, <4>2
    <3> QED  BY <1>4, <2>2, <3>1, <3>2
  <2> QED  BY <2>1, <2>2 DEF LogIsPast, InPhase
<1>10. ASSUME NEW key \in HbKeys' PROVE HasLatest(Of(key)')
  <2>1. \A y \in Of(key) : y \in Nat /\ y <= clock
    <3>1. ASSUME NEW b \in hbLog PROVE b.at \in Nat /\ b.at <= clock
      <4>1. b.task \in HbTasks /\ b.at \in Nat /\ b.at <= hbBeat[b.task]
        BY <1>2, <3>1 DEF HbInv, HbTypeOK, Beats, LogIsPast
      <4>2. hbBeat[b.task] \in Nat /\ hbBeat[b.task] <= clock
        BY <1>2, <4>1 DEF HbInv, HbTypeOK, LogIsPast
      <4> QED  BY <1>2, <4>1, <4>2
    <3> QED  BY <3>1 DEF Of
  <2>2. CASE hbLog' = hbLog \cup {beat} /\ key = <<StepOf[t], phase>>
    <3>1. clock \in Of(key)'
      BY <1>3, <2>2 DEF Of
    <3>2. \A y \in Of(key)' : y = clock \/ y \in Of(key)
      BY <1>3, <2>2 DEF Of
    <3> QED  BY <1>2, <2>1, <3>1, <3>2 DEF HasLatest
  <2>3. CASE hbLog' = hbLog \/ key # <<StepOf[t], phase>>
    <3>1. Of(key)' = Of(key)
      BY <1>3, <1>4, <2>3 DEF Of
    <3>2. key \in HbKeys
      BY <1>3, <1>4, <2>3 DEF HbKeys
    <3> QED  BY <3>1, <3>2 DEF HbInv, KeysHaveLatest
  <2> QED  BY <1>4, <2>2, <2>3
<1>11. KeysHaveLatest'
  BY <1>10 DEF KeysHaveLatest
<1>12. BeginsFirst'
  BY <1>7 DEF HbInv, BeginsFirst
<1> QED  BY <1>6, <1>8, <1>9, <1>11, <1>12 DEF HbInv

\* It holds before any task.
LEMMA HbInitInv == HbInit => HbInv
<1> SUFFICES ASSUME HbInit PROVE HbInv
  OBVIOUS
<1>1. HbTypeOK
  BY HeartbeatAssumption DEF HbInit, HbTypeOK
<1>2. LastIsLogged /\ LogIsPast /\ KeysHaveLatest /\ BeginsFirst
  BY DEF HbInit, LastIsLogged, LogIsPast, KeysHaveLatest, BeginsFirst, InPhase, HbKeys
<1> QED  BY <1>1, <1>2 DEF HbInv

\* Every beat, death, tick and report keeps it.
LEMMA HbStepInv == ASSUME HbInv, [HbNext]_hbVars PROVE HbInv'
<1>1. HbTypeOK /\ clock \in Nat /\ HbPhases \in Nat
  BY HeartbeatAssumption DEF HbInv, HbTypeOK
<1>2. ASSUME NEW t \in HbTasks, Enter(t) \/ UpdatePhase(t) \/ MaybeEmit(t) \/ Exit(t) PROVE HbInv'
  <2>1. hbPhase[t] \in 1 .. HbPhases /\ hbPhase = [hbPhase EXCEPT ![t] = hbPhase[t]]
    BY <1>1 DEF HbTypeOK
  <2>2. CASE UpdatePhase(t)
    <3>1. hbPhase[t] + 1 \in 1 .. HbPhases
      BY <1>1, <2>1, <2>2 DEF UpdatePhase
    <3> QED  BY <1>1, <2>2, <3>1, EmitKeepsInv DEF UpdatePhase, HbTypeOK
  <2>3. CASE MaybeEmit(t)
    BY <1>1, <2>1, <2>3, EmitKeepsInv DEF MaybeEmit, HbTypeOK
  <2>4. CASE Exit(t)
    <3>1. PICK end \in {"finished", "failed"} : hbState' = [hbState EXCEPT ![t] = end]
      BY <2>4 DEF Exit
    <3> QED  BY <1>1, <2>1, <2>4, <3>1, EmitKeepsInv DEF Exit, HbTypeOK
  <2>5. CASE Enter(t)
    <3>1. hbPhase[t] = 1 /\ 1 \in 1 .. HbPhases
      BY <2>1, <2>5 DEF Enter, HbInv, BeginsFirst
    <3> QED  BY <1>1, <2>1, <2>5, <3>1, EmitKeepsInv DEF Enter, HbTypeOK
  <2> QED  BY <1>2, <2>2, <2>3, <2>4, <2>5
<1>3. ASSUME NEW t \in HbTasks, HbDies(t) PROVE HbInv'
  <2>1. HbTypeOK' /\ \A u \in HbTasks : InPhase(u)' <=> InPhase(u)
    BY <1>1, <1>3 DEF HbDies, HbTypeOK, InPhase
  <2>2. UNCHANGED <<clock, hbPhase, hbBeat, hbLog, hbWritable>>
    BY <1>3 DEF HbDies
  <2>3. LastIsLogged' /\ KeysHaveLatest' /\ BeginsFirst'
    BY <2>1, <2>2 DEF HbInv, LastIsLogged, KeysHaveLatest, BeginsFirst, InPhase, HbKeys, Of
  <2>4. LogIsPast'
    BY <1>1, <2>1, <2>2 DEF HbInv, HbTypeOK, Beats, LogIsPast
  <2> QED  BY <2>1, <2>3, <2>4 DEF HbInv
<1>4. CASE Tick
  <2>1. /\ clock' = clock + 1 /\ clock' \in 0 .. MaxTime
        /\ UNCHANGED <<hbState, hbPhase, hbBeat, hbLog, hbRows, hbWritable, hbDb>>
    BY <1>1, <1>4, HeartbeatAssumption DEF Tick
  <2>2. HbTypeOK'
    BY <1>1, <2>1 DEF HbTypeOK
  <2>3. LastIsLogged' /\ KeysHaveLatest' /\ BeginsFirst'
    BY <2>1 DEF HbInv, LastIsLogged, KeysHaveLatest, BeginsFirst, HbKeys, Of, InPhase
  <2>4. LogIsPast'
    BY <1>1, <2>1 DEF HbInv, HbTypeOK, LogIsPast, InPhase
  <2> QED  BY <2>2, <2>3, <2>4 DEF HbInv
<1>5. CASE UNCHANGED hbVars
  BY <1>5 DEF hbVars, HbInv, HbTypeOK, LastIsLogged, LogIsPast, KeysHaveLatest, BeginsFirst, HbKeys, Of, InPhase
<1> QED  BY <1>2, <1>3, <1>4, <1>5 DEF HbNext

\* The invariant holds in every behaviour of the tasks, their deaths and the clock.
THEOREM HbInvariant == HbSpec => []HbInv
BY HbInitInv, HbStepInv, PTL DEF HbSpec

\* `heartbeat check` is right at any time and under any interval: a phase that none of the live
\* tasks of a step has beaten for the limit is reported, and one that beats in time is ok.
THEOREM HbCheck == HbSpec => []CheckIsRight
<1>1. ASSUME HbInv PROVE CheckIsRight
  <2>1. ASSUME NEW t \in HbTasks, InPhase(t), hbWritable[t]
        PROVE  /\ <<StepOf[t], hbPhase[t]>> \in HbKeys
               /\ hbBeat[t] \in Of(<<StepOf[t], hbPhase[t]>>)
    <3>1. PICK b \in hbLog : b = [task |-> t, phase |-> hbPhase[t], at |-> hbBeat[t]]
      BY <1>1, <2>1 DEF HbInv, LastIsLogged
    <3>2. b.task = t /\ b.phase = hbPhase[t] /\ b.at = hbBeat[t]
      BY <3>1
    <3> QED  BY <3>2 DEF HbKeys, Of
  <2>2. /\ clock \in Nat /\ \A t \in HbTasks : hbBeat[t] \in Nat
        /\ WarnAfter \in Nat /\ StaleAfter \in Nat /\ WarnAfter <= StaleAfter
    BY <1>1, HeartbeatAssumption DEF HbInv, HbTypeOK
  <2>3. ASSUME NEW t \in HbTasks, InPhase(t), hbWritable[t],
               \A u \in Peers(t) : InPhase(u) => clock - hbBeat[u] >= StaleAfter
        PROVE  CheckExit("stale") = 1
    <3>1. PICK key : key = <<StepOf[t], hbPhase[t]>>
      OBVIOUS
    <3>2. key \in HbKeys /\ LatestBeat(key) \in Of(key)
      BY <1>1, <2>1, <2>3, <3>1, LatestIsMax
    <3>3. PICK b \in hbLog : <<StepOf[b.task], b.phase>> = key /\ b.at = LatestBeat(key)
      BY <3>2 DEF Of
    <3>4. b.task \in HbTasks /\ b.at \in Nat /\ InPhase(b.task) /\ b.at <= hbBeat[b.task]
      BY <1>1 DEF HbInv, HbTypeOK, Beats, LogIsPast
    <3>5. b.task \in Peers(t)
      BY <3>1, <3>3, <3>4 DEF Peers
    <3>6. clock - LatestBeat(key) >= StaleAfter
      BY <2>2, <2>3, <3>3, <3>4, <3>5
    <3>7. Graded(key) = "stale"
      BY <3>6 DEF Graded
    <3> QED  BY <3>2, <3>7 DEF CheckExit, Overall
  <2>4. ASSUME NEW t \in HbTasks, InPhase(t), hbWritable[t], clock - hbBeat[t] < WarnAfter
        PROVE  Graded(<<StepOf[t], hbPhase[t]>>) = "ok"
    <3>1. PICK key : key = <<StepOf[t], hbPhase[t]>>
      OBVIOUS
    <3>2. LatestBeat(key) \in Nat /\ hbBeat[t] <= LatestBeat(key)
      BY <1>1, <2>1, <2>4, <3>1, LatestIsMax
    <3>3. ~(clock - LatestBeat(key) >= StaleAfter) /\ ~(clock - LatestBeat(key) >= WarnAfter)
      BY <2>2, <2>4, <3>2
    <3> QED  BY <3>1, <3>3 DEF Graded
  <2>5. SilenceIsReported /\ BeatingIsOk
    BY <2>3, <2>4 DEF SilenceIsReported, BeatingIsOk
  <2> QED  BY <2>5 DEF CheckIsRight
<1> QED  BY HbInvariant, <1>1, PTL

-----------------------------------------------------------------------------
(* The warehouse: DashboardTellsTruth for any layers, windows and number of *)
(* builds, and PassIsEarned of the checks that read it.                    *)
(*                                                                         *)
(* The property speaks of windows whose last build is over and of the      *)
(* three dashboards at the end of the sequence.  The invariant says of     *)
(* each of the tables what it must hold of the sources for the dashboards  *)
(* to come out right (Right), of the tables behind a build that is under   *)
(* way and of the rows it has in hand (BehindRight, StagedRight), and of   *)
(* every table on every day that its rows are of rows of the sources       *)
(* (AllRooted): a row that is there keeps the day and the dataset it was   *)
(* inserted with, whatever the statement of a later build selects for it.  *)

\* Statuses of runs that are not counted (build_dws_dataset_quality_daily.sql).
Unended == {"RUNNING", "PENDING", "STARTED"}

\* What the sources say, as DashboardTellsTruth reads them.
DatedIn(s, day, d) == {i \in DOMAIN s.perf : Day(s.perf[i]) = day /\ s.perf[i].ds = d}
Ends(s, day, d) == {s.perf[i].status : i \in DatedIn(s, day, d)} \ Unended
Checked(s, day, d) == {s.qc[i].status : i \in {j \in DOMAIN s.qc : Day(s.qc[j]) = day /\ s.qc[j].ds = d}}
Seen(s, w, day, d) ==
  \A i \in DatedIn(s, day, d) : i \in Written(s, w) /\ \A j \in DOMAIN s.perf : s.perf[j].run = s.perf[i].run => j = i
JobEnds(s, day, g) == {s.jobs[i].status : i \in {j \in DOMAIN s.jobs : JobDay(s.jobs[j]) = day /\ s.jobs[j].group = g}}
AllLost(s, day, g) == JobEnds(s, day, g) # {} /\ JobEnds(s, day, g) \subseteq {"FAILED", "DEAD_LETTER"}

\* What is assumed of the sources: tables are finite.
SourcesSound(s) == \A n \in {"perf", "qc", "steps", "jobs", "wf"} : IsFiniteSet(DOMAIN s[n])

\* Records of runs are only added, contract runs keep their day and dataset, steps their day
\* once they have one.
RowsStay(s, z) ==
  /\ \A i \in DOMAIN s.perf : i \in DOMAIN z.perf /\ z.perf[i] = s.perf[i]
  /\ \A i \in DOMAIN s.qc : i \in DOMAIN z.qc /\ Day(z.qc[i]) = Day(s.qc[i]) /\ z.qc[i].ds = s.qc[i].ds
  /\ \A i \in DOMAIN s.steps : i \in DOMAIN z.steps /\ (s.steps[i].day # NoDay => z.steps[i].day = s.steps[i].day)

\* Whatever has happened, the rows of a table belong to rows of the source: that of a run has the day
\* of one of its records and the status of one of them.
QcRooted(s, F) ==
  \A k \in DOMAIN F : k[2] = Contract =>
    \E i \in DOMAIN s.qc : k = <<i, Contract>> /\ F[k].day = Day(s.qc[i]) /\ F[k].ds = s.qc[i].ds
EtlRooted(s, F) ==
  \A r \in DOMAIN F :
    /\ \E i \in DOMAIN s.perf : s.perf[i].run = r /\ F[r].day = Day(s.perf[i]) /\ F[r].ds = s.perf[i].ds
    /\ \E j \in DOMAIN s.perf : s.perf[j].run = r /\ F[r].status = s.perf[j].status
StepRooted(s, F) ==
  \A i \in DOMAIN F : i \in DOMAIN s.steps /\ F[i].day = s.steps[i].day /\ s.steps[i].day # NoDay
\* A run that ended was recorded for the dataset and the day.
SomeEnded(s, day, d) ==
  \E i \in DatedIn(s, day, d), j \in DOMAIN s.perf : s.perf[j].run = s.perf[i].run /\ s.perf[j].status \notin Unended
CountsRooted(s, F) ==
  \A k \in DOMAIN F : /\ F[k].etl # 0 => SomeEnded(s, k[1], k[2])
                      /\ F[k].qc # 0 => Checked(s, k[1], k[2]) # {}
Rooted(s, n, F) ==
  /\ n = "qc" => QcRooted(s, F)
  /\ n = "etl" => EtlRooted(s, F)
  /\ n = "step" => StepRooted(s, F)
  /\ n \in {"quality", "dash"} => CountsRooted(s, F)
  /\ n \in {"quality", "ops", "infday"} => \A k \in DOMAIN F : F[k].day = k[1]

\* A table is right for a day of a window.
QcRight(s, F, day) ==
  \A i \in DOMAIN s.qc : Day(s.qc[i]) = day =>
    <<i, Contract>> \in DOMAIN F /\ F[<<i, Contract>>].status = s.qc[i].status
EtlRight(s, F, w) == \A i \in Written(s, w) : s.perf[i].run \in DOMAIN F
StepRight(s, F, day) ==
  \A i \in DOMAIN s.steps : s.steps[i].day = day => i \in DOMAIN F /\ F[i].reason = s.steps[i].reason
Counts(runs, ok, said, good) ==
  /\ runs \in Nat /\ ok \in Nat
  /\ said # {} => runs > 0
  /\ Bad(said) => ok = 0
  /\ said \subseteq good => ok = runs
Successes == {"OK", "WARN", "SUCCESS", "SUCCEEDED"}
Numbers(s, x, w, day, d) ==
  /\ Counts(x.qc, x.qcOk, Checked(s, day, d), {"PASS"})
  /\ Seen(s, w, day, d) => Counts(x.etl, x.etlOk, Ends(s, day, d), Successes)
Told(s, w, day, d) == Checked(s, day, d) # {} \/ (Seen(s, w, day, d) /\ Ends(s, day, d) # {})
QualityRight(s, F, w, day) ==
  \A d : Told(s, w, day, d) => <<day, d>> \in DOMAIN F /\ Numbers(s, F[<<day, d>>], w, day, d)
OpsRight(s, F, day) ==
  \A i \in DOMAIN s.steps : s.steps[i].day = day /\ s.steps[i].reason = "OOMKILLED" =>
    \E k \in DOMAIN F : k[1] = day /\ F[k].oom \in Nat /\ F[k].oom > 0
DashRight(s, F, w, day) ==
  \A d : Told(s, w, day, d) => /\ <<day, d>> \in DOMAIN F /\ Numbers(s, F[<<day, d>>], w, day, d)
                               /\ F[<<day, d>>].alert = AlertOf(F[<<day, d>>])
OpsDashRight(s, F, day) ==
  \A i \in DOMAIN s.steps : s.steps[i].day = day /\ s.steps[i].reason = "OOMKILLED" =>
    \E k \in DOMAIN F : k[1] = day /\ F[k].alert = "CRITICAL"
InfDayRight(s, F, day) ==
  \A g : AllLost(s, day, g) =>
    /\ <<day, g>> \in DOMAIN F
    /\ F[<<day, g>>].jobs \in Nat /\ F[<<day, g>>].jobs > 0 /\ F[<<day, g>>].ok = 0
InfDashRight(s, F, day) ==
  \A g : AllLost(s, day, g) => <<day, g>> \in DOMAIN F /\ F[<<day, g>>].alert = "CRITICAL"

Right(s, n, F, w, day) ==
  /\ n = "qc" => QcRight(s, F, day)
  /\ n = "etl" => EtlRight(s, F, w)
  /\ n = "step" => StepRight(s, F, day)
  /\ n = "quality" => QualityRight(s, F, w, day)
  /\ n = "ops" => OpsRight(s, F, day)
  /\ n = "dash" => DashRight(s, F, w, day)
  /\ n = "opsdash" => OpsDashRight(s, F, day)
  /\ n = "infday" => InfDayRight(s, F, day)
  /\ n = "infdash" => InfDashRight(s, F, day)

\* A table has nothing that a right table has for a day; of runs it may.
Apart(s, n, F, day) ==
  /\ n = "qc" => \A i \in DOMAIN s.qc : Day(s.qc[i]) = day => <<i, Contract>> \notin DOMAIN F
  /\ n = "step" => \A i \in DOMAIN s.steps : s.steps[i].day = day => i \notin DOMAIN F
  /\ n \in {"quality", "ops", "dash", "opsdash", "infday", "infdash"} => \A k \in DOMAIN F : k[1] # day

Window(b) == order[b][1][1] .. order[b][1][2]
Dates(w) == w[1] .. w[2]
WhTypeOK ==
  /\ tbl = [n \in TableNames |-> tbl[n]] /\ pc \in [Builders -> 0 .. 13]
  /\ order = [b \in Builders |-> order[b]] /\ staged = [b \in Builders |-> staged[b]]
  /\ failed \in [Builders -> BOOLEAN] /\ alone \in [Builders -> BOOLEAN]
  /\ \A b \in Builders : staged[b] # <<>> => Running(b)

\* A build under way has an order it was given.
OrderGiven == \A b \in Builders : ~Idle(b) => order[b] \in Orders[b]

\* A build that is alone builds all layers, and no other is under way.
OneAlone ==
  \A b \in Builders : alone[b] => ~Idle(b) /\ order[b][2] = Layers /\ \A c \in Builders \ {b} : Idle(c)

\* Every table is rooted in the sources, and so is what is about to be written to it.
AllRooted ==
  /\ \A n \in TableNames : Rooted(src, n, tbl[n])
  /\ \A b \in Builders : staged[b] # <<>> => Rooted(src, Table(b), staged[b][1])

\* On the days of a current window all tables are right, and during a build that is alone those behind it,
CurrentRight == \A w \in current : \A day \in Dates(w) : \A n \in TableNames : Right(src, n, tbl[n], w, day)
BehindRight ==
  \A b \in Builders : alone[b] /\ ~failed[b] => \A day \in Window(b) : \A j \in 1 .. 12 :
    j < pc[b] => Right(src, Sequence[j][2], tbl[Sequence[j][2]], order[b][1], day)

\* and no commit that is still to come changes that.
StagedRight ==
  \A b \in Builders : staged[b] # <<>> => \A w, day :
    /\ alone[b] /\ ~failed[b] /\ w = order[b][1] /\ day \in Window(b) => Right(src, Table(b), staged[b][1], w, day)
    /\ w \in current /\ day \in Dates(w) =>
         /\ day \in Window(b) /\ Table(b) # "etl" => Right(src, Table(b), staged[b][1], w, day)
         /\ day \notin Window(b) => Apart(src, Table(b), staged[b][1], day)

WhInv == WhTypeOK /\ OrderGiven /\ OneAlone /\ AllRooted /\ CurrentRight /\ BehindRight /\ StagedRight

-----------------------------------------------------------------------------
\* A finite set that is the image of a finite set.
LEMMA ImageFinite ==
  ASSUME NEW S, IsFiniteSet(S), NEW f, NEW T, \A x \in T : \E y \in S : x = f[y]
  PROVE  IsFiniteSet(T)
<1>1. PICK Z : Z = {y \in S : f[y] \in T}
  OBVIOUS
<1>2. IsFiniteSet(Z)
  BY <1>1, FS_Subset
<1>3. PICK g : g = [y \in Z |-> f[y]]
  OBVIOUS
<1>4. g \in Surjection(Z, T)
  BY <1>1, <1>3 DEF Surjection
<1> QED  BY <1>2, <1>4, FS_Surjection

\* What is counted of a finite set (the counters of the dws statements).
LEMMA Counted0 ==
  ASSUME NEW S, IsFiniteSet(S)
  PROVE  /\ Cardinality(S) \in Nat /\ (S # {} => Cardinality(S) > 0) /\ (S = {} => Cardinality(S) = 0)
<1>1. Cardinality(S) \in Nat /\ (Cardinality(S) = 0 <=> S = {})
  BY FS_CardinalityType, FS_EmptySet
<1> QED  BY <1>1

-----------------------------------------------------------------------------
\* fact_qc_rule_result: for the days of the window a row of every contract run, and none of other days,
LEMMA QcComputed ==
  ASSUME NEW s, NEW t, NEW v, NEW F, F = FactQc(s, t, v)
  PROVE  /\ QcRooted(s, F)
         /\ \A day : day \in v[1] .. v[2] => QcRight(s, F, day)
         /\ \A day : day \notin v[1] .. v[2] => Apart(s, "qc", F, day)
<1>1. PICK K : K = UNION {{<<i, x>> : x \in DOMAIN RuleResults(s.qc[i]) \cup {Contract}} : i \in QcOn(s, v)}
  OBVIOUS
<1>9. DOMAIN F = K
  BY <1>1 DEF FactQc
<1>2. ASSUME NEW k \in K
      PROVE  /\ F[k].day = Day(s.qc[k[1]]) /\ F[k].ds = s.qc[k[1]].ds
             /\ k[2] = Contract => F[k].status = s.qc[k[1]].status
  <2>1. F[k] = [ds |-> s.qc[k[1]].ds, fam |-> s.qc[k[1]].fam, day |-> Day(s.qc[k[1]]),
                status |-> IF k[2] = Contract THEN s.qc[k[1]].status ELSE RuleResults(s.qc[k[1]])[k[2]]]
    BY <1>1 DEF FactQc
  <2> QED  BY <2>1
<1>3. \A k \in K : \E i \in QcOn(s, v) : \E x : k = <<i, x>>
  BY <1>1
<1>4. \A i \in QcOn(s, v) : <<i, Contract>> \in K
  BY <1>1
<1>5. \A i : i \in QcOn(s, v) <=> i \in DOMAIN s.qc /\ Day(s.qc[i]) \in v[1] .. v[2]
  BY DEF QcOn
<1>6. ASSUME NEW k \in K, k[2] = Contract
      PROVE  \E i \in DOMAIN s.qc : k = <<i, Contract>> /\ F[k].day = Day(s.qc[i]) /\ F[k].ds = s.qc[i].ds
  BY <1>2, <1>3, <1>5, <1>6
<1>7. ASSUME NEW i \in DOMAIN s.qc, Day(s.qc[i]) \in v[1] .. v[2]
      PROVE  <<i, Contract>> \in DOMAIN F /\ F[<<i, Contract>>].status = s.qc[i].status
  BY <1>2, <1>4, <1>5, <1>7, <1>9
<1>8. ASSUME NEW i \in DOMAIN s.qc, Day(s.qc[i]) \notin v[1] .. v[2] PROVE <<i, Contract>> \notin DOMAIN F
  BY <1>3, <1>5, <1>8, <1>9
<1>10. QcRooted(s, F)
  BY <1>6, <1>9 DEF QcRooted
<1>11. \A day : day \in v[1] .. v[2] => QcRight(s, F, day)
  BY <1>7 DEF QcRight
<1>12. \A day : day \notin v[1] .. v[2] => Apart(s, "qc", F, day)
  BY <1>8 DEF Apart
<1> QED  BY <1>10, <1>11, <1>12

\* fact_etl_run: a row for every run that has a record of the window, taken from one of them.
LEMMA EtlComputed ==
  ASSUME NEW s, NEW t, NEW v, NEW F, F = FactEtl(s, t, v)
  PROVE  EtlRooted(s, F) /\ EtlRight(s, F, v)
<1>1. PICK P : P = Written(s, v)
  OBVIOUS
<1>2. DOMAIN F = {s.perf[i].run : i \in P} /\ P \subseteq DOMAIN s.perf
  BY <1>1 DEF FactEtl, Written
<1>3. ASSUME NEW r \in DOMAIN F
      PROVE  \E i \in P : /\ s.perf[i].run = r /\ F[r].day = Day(s.perf[i])
                          /\ F[r].ds = s.perf[i].ds /\ F[r].status = s.perf[i].status
  <2>1. PICK i : i = CHOOSE x \in P : s.perf[x].run = r
    OBVIOUS
  <2>2. i \in P /\ s.perf[i].run = r
    BY <1>2, <2>1
  <2>3. F[r] = [ds |-> s.perf[i].ds, day |-> Day(s.perf[i]), phase |-> s.perf[i].phase, status |-> s.perf[i].status]
    BY <1>1, <1>2, <2>1 DEF FactEtl
  <2> QED  BY <2>2, <2>3
<1>4. EtlRooted(s, F)
  BY <1>2, <1>3 DEF EtlRooted
<1>5. EtlRight(s, F, v)
  BY <1>1, <1>2 DEF EtlRight
<1> QED  BY <1>4, <1>5

\* fact_workflow_step: every step of the window.
LEMMA StepComputed ==
  ASSUME NEW s, NEW t, NEW v, v[1] \in Nat \ {NoDay}, NEW F, F = FactStep(s, t, v)
  PROVE  /\ StepRooted(s, F)
         /\ \A day : day \in v[1] .. v[2] => StepRight(s, F, day)
         /\ \A day : day \notin v[1] .. v[2] => Apart(s, "step", F, day)
<1>1. DOMAIN F = On(s.steps, v)
  BY DEF FactStep
<1>2. \A i : i \in On(s.steps, v) <=> i \in DOMAIN s.steps /\ s.steps[i].day \in v[1] .. v[2]
  BY DEF On
<1>3. ASSUME NEW i \in DOMAIN F
      PROVE  F[i].day = s.steps[i].day /\ F[i].reason = s.steps[i].reason
  BY <1>1, <1>3 DEF FactStep
<1>4. NoDay \notin v[1] .. v[2]
  BY DEF NoDay
<1> QED  BY <1>1, <1>2, <1>3, <1>4 DEF StepRooted, StepRight, Apart

\* Runs that have not ended do not count; of those that have, and that the build saw, the rows of a
\* day and dataset are there if the sources have any, and as many of them are successes.
EndedRows(f, day, d) == {r \in DOMAIN f : f[r].day = day /\ f[r].ds = d /\ f[r].status \notin Unended}
OkRows(f, rows) == {r \in rows : f[r].status \in Successes}
ContractRows(f, day, d) == {k \in DOMAIN f : k[2] = Contract /\ f[k].day = day /\ f[k].ds = d}
PassRows(f, rows) == {k \in rows : f[k].status = "PASS"}
LEMMA EndsCounted ==
  ASSUME NEW s, SourcesSound(s), NEW f, EtlRooted(s, f), NEW w, EtlRight(s, f, w), NEW day, NEW d, Seen(s, w, day, d),
         NEW e, e = EndedRows(f, day, d), NEW ok, ok = OkRows(f, e)
  PROVE  Counts(Cardinality(e), Cardinality(ok), Ends(s, day, d), Successes) /\ (Ends(s, day, d) # {} => e # {})
<1>1. IsFiniteSet(e)
  <2>1. PICK g : g = [i \in DOMAIN s.perf |-> s.perf[i].run]
    OBVIOUS
  <2>2. \A r \in e : \E i \in DOMAIN s.perf : r = g[i]
    BY <2>1 DEF EtlRooted, EndedRows
  <2>3. IsFiniteSet(DOMAIN s.perf)
    BY DEF SourcesSound
  <2> QED  BY <2>2, <2>3, ImageFinite
<1>2. IsFiniteSet(ok) /\ ok \subseteq e
  BY <1>1, FS_Subset DEF OkRows
<1>3. \A r \in e : f[r].status \in Ends(s, day, d)
  <2>1. SUFFICES ASSUME NEW r \in e PROVE f[r].status \in Ends(s, day, d)
    OBVIOUS
  <2>2. r \in DOMAIN f /\ f[r].day = day /\ f[r].ds = d /\ f[r].status \notin Unended
    BY DEF EndedRows
  <2>3. PICK i \in DOMAIN s.perf : s.perf[i].run = r /\ f[r].day = Day(s.perf[i]) /\ f[r].ds = s.perf[i].ds
    BY <2>2 DEF EtlRooted
  <2>4. PICK j \in DOMAIN s.perf : s.perf[j].run = r /\ f[r].status = s.perf[j].status
    BY <2>2 DEF EtlRooted
  <2>5. i \in DatedIn(s, day, d)
    BY <2>2, <2>3 DEF DatedIn
  <2>6. j = i
    BY <2>3, <2>4, <2>5 DEF Seen
  <2> QED  BY <2>2, <2>4, <2>5, <2>6 DEF Ends
<1>4. \A st \in Ends(s, day, d) : \E r \in e : f[r].status = st
  <2>1. SUFFICES ASSUME NEW st \in Ends(s, day, d) PROVE \E r \in e : f[r].status = st
    OBVIOUS
  <2>2. PICK i \in DatedIn(s, day, d) : st = s.perf[i].status /\ st \notin Unended
    BY DEF Ends
  <2>3. /\ i \in DOMAIN s.perf /\ Day(s.perf[i]) = day /\ s.perf[i].ds = d /\ i \in Written(s, w)
        /\ \A j \in DOMAIN s.perf : s.perf[j].run = s.perf[i].run => j = i
    BY DEF DatedIn, Seen
  <2>4. PICK r : r = s.perf[i].run
    OBVIOUS
  <2>5. r \in DOMAIN f
    BY <2>3, <2>4 DEF EtlRight
  <2>6. f[r].day = day /\ f[r].ds = d /\ f[r].status = st
    BY <2>2, <2>3, <2>4, <2>5 DEF EtlRooted
  <2> QED  BY <2>2, <2>5, <2>6 DEF EndedRows
<1>6. Bad(Ends(s, day, d)) => ok = {}
  BY <1>3 DEF Bad, OkRows, Successes
<1>7. Ends(s, day, d) \subseteq Successes => ok = e
  BY <1>3 DEF OkRows
<1>8. Ends(s, day, d) # {} => e # {}
  BY <1>4
<1> QED  BY <1>1, <1>2, <1>6, <1>7, <1>8, Counted0 DEF Counts

\* The same of the contract runs of a day and dataset.
LEMMA ChecksCounted ==
  ASSUME NEW s, SourcesSound(s), NEW f, QcRooted(s, f), NEW day, QcRight(s, f, day), NEW d,
         NEW q, q = ContractRows(f, day, d), NEW ok, ok = PassRows(f, q)
  PROVE  Counts(Cardinality(q), Cardinality(ok), Checked(s, day, d), {"PASS"}) /\ (Checked(s, day, d) # {} => q # {})
<1>1. IsFiniteSet(q)
  <2>1. PICK g : g = [i \in DOMAIN s.qc |-> <<i, Contract>>]
    OBVIOUS
  <2>2. \A k \in q : \E i \in DOMAIN s.qc : k = g[i]
    BY <2>1 DEF QcRooted, ContractRows
  <2>3. IsFiniteSet(DOMAIN s.qc)
    BY DEF SourcesSound
  <2> QED  BY <2>2, <2>3, ImageFinite
<1>2. IsFiniteSet(ok) /\ ok \subseteq q
  BY <1>1, FS_Subset DEF PassRows
<1>3. \A k \in q : f[k].status \in Checked(s, day, d)
  <2>1. SUFFICES ASSUME NEW k \in q PROVE f[k].status \in Checked(s, day, d)
    OBVIOUS
  <2>2. PICK i \in DOMAIN s.qc : k = <<i, Contract>> /\ Day(s.qc[i]) = day /\ s.qc[i].ds = d
    BY DEF QcRooted, ContractRows
  <2>3. f[k].status = s.qc[i].status
    BY <2>2 DEF QcRight
  <2> QED  BY <2>2, <2>3 DEF Checked
<1>4. \A st \in Checked(s, day, d) : \E k \in q : f[k].status = st
  <2>1. SUFFICES ASSUME NEW st \in Checked(s, day, d) PROVE \E k \in q : f[k].status = st
    OBVIOUS
  <2>2. PICK i \in DOMAIN s.qc : st = s.qc[i].status /\ Day(s.qc[i]) = day /\ s.qc[i].ds = d
    BY DEF Checked
  <2>3. PICK k : k = <<i, Contract>>
    OBVIOUS
  <2>4. k \in DOMAIN f /\ f[k].status = st /\ k[2] = Contract
    BY <2>2, <2>3 DEF QcRight
  <2>5. f[k].day = day /\ f[k].ds = d
    BY <2>2, <2>3, <2>4 DEF QcRooted
  <2> QED  BY <2>4, <2>5 DEF ContractRows
<1>6. Bad(Checked(s, day, d)) => ok = {}
  BY <1>3 DEF Bad, PassRows
<1>7. Checked(s, day, d) \subseteq {"PASS"} => ok = q
  BY <1>3 DEF PassRows
<1>8. Checked(s, day, d) # {} => q # {}
  BY <1>4
<1> QED  BY <1>1, <1>2, <1>6, <1>7, <1>8, Counted0 DEF Counts

\* dws_dataset_quality_daily: from facts that are right for a day, numbers that are right for it; and on any
\* day nothing is counted that the facts do not have.
LEMMA QualityComputed ==
  ASSUME NEW s, SourcesSound(s), NEW t, EtlRooted(s, t.etl), QcRooted(s, t.qc), NEW v,
         NEW F, F = DwsQuality(s, t, v)
  PROVE  /\ \A k \in DOMAIN F : F[k].day = k[1] /\ k[1] \in v[1] .. v[2]
         /\ CountsRooted(s, F)
         /\ \A w, day : day \in v[1] .. v[2] /\ EtlRight(s, t.etl, w) /\ QcRight(s, t.qc, day) => QualityRight(s, F, w, day)
<1>1. PICK etl, qc : /\ etl = {k \in On(t.etl, v) : t.etl[k].status \notin Unended}
                     /\ qc = {k \in On(t.qc, v) : k[2] = Contract}
  OBVIOUS
<1>2. PICK steps : steps = {k \in On(t.step, v) : t.step[k].ds # None}
  OBVIOUS
<1>4. DOMAIN F = {<<t.etl[x].day, t.etl[x].ds>> : x \in etl} \cup {<<t.qc[x].day, t.qc[x].ds>> : x \in qc}
                 \cup {<<t.step[x].day, t.step[x].ds>> : x \in steps}
                 \cup {<<s.mlready[x].day, s.mlready[x].ds>> : x \in On(s.mlready, v)}
  BY <1>1, <1>2 DEF DwsQuality, Having, Counted, Unended
<1>5. ASSUME NEW k \in DOMAIN F
      PROVE  /\ F[k].day = k[1]
             /\ F[k].etl = Cardinality({x \in etl : <<t.etl[x].day, t.etl[x].ds>> = k})
             /\ F[k].etlOk = Cardinality({y \in {x \in etl : <<t.etl[x].day, t.etl[x].ds>> = k} :
                                            t.etl[y].status \in Successes})
             /\ F[k].qc = Cardinality({x \in qc : <<t.qc[x].day, t.qc[x].ds>> = k})
             /\ F[k].qcOk = Cardinality({y \in {x \in qc : <<t.qc[x].day, t.qc[x].ds>> = k} : t.qc[y].status = "PASS"})
  BY <1>1 DEF DwsQuality, Having, Counted, IsSuccess, Unended, Successes
<1>6. ASSUME NEW k \in DOMAIN F PROVE k[1] \in v[1] .. v[2]
  <2>1. \/ \E x \in etl : k[1] = t.etl[x].day
        \/ \E x \in qc : k[1] = t.qc[x].day
        \/ \E x \in steps : k[1] = t.step[x].day
        \/ \E x \in On(s.mlready, v) : k[1] = s.mlready[x].day
    BY <1>4
  <2> QED  BY <1>1, <1>2, <2>1 DEF On
<1>7. ASSUME NEW w, NEW day \in v[1] .. v[2], EtlRight(s, t.etl, w), QcRight(s, t.qc, day), NEW d, Told(s, w, day, d)
      PROVE  <<day, d>> \in DOMAIN F /\ Numbers(s, F[<<day, d>>], w, day, d)
  <2>1. PICK e, q : e = EndedRows(t.etl, day, d) /\ q = ContractRows(t.qc, day, d)
    OBVIOUS
  <2>2. PICK eOk, qOk : eOk = OkRows(t.etl, e) /\ qOk = PassRows(t.qc, q)
    OBVIOUS
  <2>3. ASSUME Seen(s, w, day, d)
        PROVE  Counts(Cardinality(e), Cardinality(eOk), Ends(s, day, d), Successes) /\ (Ends(s, day, d) # {} => e # {})
    BY <1>7, <2>1, <2>2, <2>3, EndsCounted
  <2>4. Counts(Cardinality(q), Cardinality(qOk), Checked(s, day, d), {"PASS"}) /\ (Checked(s, day, d) # {} => q # {})
    BY <1>7, <2>1, <2>2, ChecksCounted
  <2>5. PICK k : k = <<day, d>>
    OBVIOUS
  <2>6. e = {x \in etl : <<t.etl[x].day, t.etl[x].ds>> = k} /\ q = {x \in qc : <<t.qc[x].day, t.qc[x].ds>> = k}
    BY <1>1, <2>1, <2>5 DEF On, EndedRows, ContractRows
  <2>7. k \in DOMAIN F
    <3>1. e # {} \/ q # {}
      BY <1>7, <2>3, <2>4 DEF Told
    <3> QED  BY <1>4, <2>6, <3>1
  <2>8. /\ F[k].etl = Cardinality(e) /\ F[k].etlOk = Cardinality(eOk)
        /\ F[k].qc = Cardinality(q) /\ F[k].qcOk = Cardinality(qOk)
    BY <1>5, <2>2, <2>6, <2>7 DEF OkRows, PassRows
  <2> QED  BY <2>3, <2>4, <2>5, <2>7, <2>8 DEF Numbers
<1>8. ASSUME NEW k \in DOMAIN F, F[k].etl # 0 PROVE SomeEnded(s, k[1], k[2])
  <2>1. PICK S : S = {x \in etl : <<t.etl[x].day, t.etl[x].ds>> = k}
    OBVIOUS
  <2>2. S # {}
    BY <1>5, <1>8, <2>1, FS_EmptySet
  <2>3. PICK x \in etl : <<t.etl[x].day, t.etl[x].ds>> = k
    BY <2>1, <2>2
  <2>4. x \in DOMAIN t.etl /\ t.etl[x].day = k[1] /\ t.etl[x].ds = k[2] /\ t.etl[x].status \notin Unended
    BY <1>1, <2>3 DEF On
  <2>5. PICK i \in DOMAIN s.perf : s.perf[i].run = x /\ t.etl[x].day = Day(s.perf[i]) /\ t.etl[x].ds = s.perf[i].ds
    BY <2>4 DEF EtlRooted
  <2>6. PICK j \in DOMAIN s.perf : s.perf[j].run = x /\ t.etl[x].status = s.perf[j].status
    BY <2>4 DEF EtlRooted
  <2> QED  BY <2>4, <2>5, <2>6 DEF SomeEnded, DatedIn
<1>9. ASSUME NEW k \in DOMAIN F, F[k].qc # 0 PROVE Checked(s, k[1], k[2]) # {}
  <2>1. PICK S : S = {x \in qc : <<t.qc[x].day, t.qc[x].ds>> = k}
    OBVIOUS
  <2>2. S # {}
    BY <1>5, <1>9, <2>1, FS_EmptySet
  <2>3. PICK x \in qc : <<t.qc[x].day, t.qc[x].ds>> = k
    BY <2>1, <2>2
  <2>4. x \in DOMAIN t.qc /\ t.qc[x].day = k[1] /\ t.qc[x].ds = k[2] /\ x[2] = Contract
    BY <1>1, <2>3 DEF On
  <2>5. PICK i \in DOMAIN s.qc : t.qc[x].day = Day(s.qc[i]) /\ t.qc[x].ds = s.qc[i].ds
    BY <2>4 DEF QcRooted
  <2> QED  BY <2>4, <2>5 DEF Checked
<1>10. \A k \in DOMAIN F : F[k].day = k[1]
  BY <1>5
<1>11. CountsRooted(s, F)
  BY <1>8, <1>9 DEF CountsRooted
<1> QED  BY <1>6, <1>7, <1>10, <1>11 DEF QualityRight

\* dws_workflow_ops_daily: a step that ran out of memory is counted under some type.
LEMMA OpsComputed ==
  ASSUME NEW s, SourcesSound(s), NEW t, StepRooted(s, t.step), NEW v, NEW F, F = DwsOps(s, t, v)
  PROVE  /\ \A k \in DOMAIN F : F[k].day = k[1] /\ k[1] \in v[1] .. v[2]
         /\ \A day \in v[1] .. v[2] : StepRight(s, t.step, day) => OpsRight(s, F, day)
<1>1. PICK rows, group : rows = On(t.step, v)
                         /\ group = [k \in rows |-> <<t.step[k].day, FirstOf(t.step[k].type, "unknown")>>]
  OBVIOUS
<1>2. DOMAIN F = {group[k] : k \in rows}
  BY <1>1 DEF DwsOps
<1>3. ASSUME NEW g \in DOMAIN F
      PROVE  F[g].day = g[1]
             /\ F[g].oom = Cardinality({k \in rows : group[k] = g /\ t.step[k].reason = "OOMKILLED"})
  <2>1. {k \in rows : group[k] = g /\ t.step[k].reason = "OOMKILLED"}
        = {k \in On(t.step, v) : <<t.step[k].day, FirstOf(t.step[k].type, "unknown")>> = g /\ t.step[k].reason = "OOMKILLED"}
    BY <1>1
  <2> QED  BY <1>2, <2>1 DEF DwsOps
<1>4. \A k \in DOMAIN F : k[1] \in v[1] .. v[2]
  BY <1>1, <1>2 DEF On
<1>5. ASSUME NEW day \in v[1] .. v[2], StepRight(s, t.step, day),
             NEW i \in DOMAIN s.steps, s.steps[i].day = day, s.steps[i].reason = "OOMKILLED"
      PROVE  \E k \in DOMAIN F : k[1] = day /\ F[k].oom \in Nat /\ F[k].oom > 0
  <2>1. i \in DOMAIN t.step /\ t.step[i].day = day /\ t.step[i].reason = "OOMKILLED"
    BY <1>5 DEF StepRight, StepRooted
  <2>2. i \in rows /\ group[i] \in DOMAIN F /\ group[i][1] = day
    BY <1>1, <1>2, <2>1 DEF On
  <2>4. PICK K : K = {k \in rows : group[k] = group[i] /\ t.step[k].reason = "OOMKILLED"}
    OBVIOUS
  <2>5. i \in K /\ K \subseteq DOMAIN s.steps
    BY <1>1, <2>1, <2>2, <2>4 DEF On, StepRooted
  <2>6. IsFiniteSet(K)
    BY <2>5, FS_Subset DEF SourcesSound
  <2>7. Cardinality(K) \in Nat /\ Cardinality(K) > 0
    BY <2>5, <2>6, Counted0
  <2> QED  BY <1>3, <2>2, <2>4, <2>7
<1> QED  BY <1>3, <1>4, <1>5 DEF OpsRight

\* ads_quality_dashboard copies the counts of dws_dataset_quality_daily and adds an alert that follows from them.
LEMMA DashComputed ==
  ASSUME NEW s, NEW t, Rooted(s, "quality", t.quality), NEW v, NEW F, F = AdsQuality(s, t, v)
  PROVE  /\ \A k \in DOMAIN F : k[1] \in v[1] .. v[2]
         /\ CountsRooted(s, F)
         /\ \A w, day : day \in v[1] .. v[2] /\ QualityRight(s, t.quality, w, day) => DashRight(s, F, w, day)
<1>1. DOMAIN F = On(t.quality, v)
  BY DEF AdsQuality
<1>2. \A k \in DOMAIN F : t.quality[k].day = k[1] /\ k[1] \in v[1] .. v[2]
  BY <1>1 DEF On, Rooted
<1>3. ASSUME NEW k \in DOMAIN F
      PROVE  /\ F[k].etl = t.quality[k].etl /\ F[k].etlOk = t.quality[k].etlOk
             /\ F[k].qc = t.quality[k].qc /\ F[k].qcOk = t.quality[k].qcOk
             /\ F[k].alert = AlertOf(t.quality[k])
  BY <1>1 DEF AdsQuality
<1>4. \A k \in DOMAIN F : F[k].alert = AlertOf(F[k])
  BY <1>3 DEF AlertOf
<1>5. ASSUME NEW w, NEW day \in v[1] .. v[2], QualityRight(s, t.quality, w, day), NEW d, Told(s, w, day, d)
      PROVE  <<day, d>> \in DOMAIN F /\ Numbers(s, F[<<day, d>>], w, day, d)
  <2>1. PICK k : k = <<day, d>>
    OBVIOUS
  <2>2. k \in DOMAIN t.quality /\ Numbers(s, t.quality[k], w, day, d)
    BY <1>5, <2>1 DEF QualityRight
  <2>3. k \in DOMAIN F
    BY <1>1, <2>1, <2>2 DEF On, Rooted
  <2>4. Numbers(s, F[k], w, day, d)
    BY <1>3, <2>2, <2>3 DEF Numbers
  <2> QED  BY <2>1, <2>3, <2>4
<1>6. CountsRooted(s, F)
  <2>1. CountsRooted(s, t.quality) /\ DOMAIN F \subseteq DOMAIN t.quality
    BY <1>1 DEF Rooted, On
  <2> QED  BY <1>3, <2>1 DEF CountsRooted
<1> QED  BY <1>2, <1>4, <1>5, <1>6 DEF DashRight

\* ads_workflow_ops_dashboard: a count of out-of-memory steps above zero is a critical alert.
LEMMA OpsDashComputed ==
  ASSUME NEW s, NEW t, Rooted(s, "ops", t.ops), NEW v, NEW F, F = AdsOps(s, t, v)
  PROVE  /\ \A k \in DOMAIN F : k[1] \in v[1] .. v[2]
         /\ \A day \in v[1] .. v[2] : OpsRight(s, t.ops, day) => OpsDashRight(s, F, day)
<1>1. DOMAIN F = On(t.ops, v)
  BY DEF AdsOps
<1>2. \A k \in DOMAIN t.ops : t.ops[k].day = k[1]
  BY DEF Rooted
<1>6. \A k \in DOMAIN F : k[1] \in v[1] .. v[2]
  BY <1>1, <1>2 DEF On
<1>3. \A k \in DOMAIN F : F[k].alert = OpsAlert(t.ops[k])
  BY <1>1 DEF AdsOps
<1>4. \A k \in DOMAIN F : t.ops[k].oom > 0 => F[k].alert = "CRITICAL"
  BY <1>3 DEF OpsAlert
<1>5. ASSUME NEW day \in v[1] .. v[2], OpsRight(s, t.ops, day),
             NEW i \in DOMAIN s.steps, s.steps[i].day = day, s.steps[i].reason = "OOMKILLED"
      PROVE  \E k \in DOMAIN F : k[1] = day /\ F[k].alert = "CRITICAL"
  <2>1. PICK k \in DOMAIN t.ops : k[1] = day /\ t.ops[k].oom > 0
    BY <1>5 DEF OpsRight
  <2>2. k \in DOMAIN F
    BY <1>1, <1>2, <2>1 DEF On
  <2> QED  BY <1>4, <2>1, <2>2
<1> QED  BY <1>6, <1>5 DEF OpsDashRight

\* dws_inference_job_daily: jobs of a group that were all lost are all counted, none as a success,
LEMMA InfDayComputed ==
  ASSUME NEW s, SourcesSound(s), NEW t, NEW v, NEW F, F = DwsInference(s, t, v)
  PROVE  /\ \A k \in DOMAIN F : F[k].day = k[1] /\ k[1] \in v[1] .. v[2]
         /\ \A day \in v[1] .. v[2] : InfDayRight(s, F, day)
<1>1. PICK rows : rows = {i \in DOMAIN s.jobs : JobDay(s.jobs[i]) \in v[1]..v[2]}
  OBVIOUS
<1>2. DOMAIN F = {<<JobDay(s.jobs[i]), s.jobs[i].group>> : i \in rows}
  BY <1>1 DEF DwsInference
<1>3. ASSUME NEW k \in DOMAIN F
      PROVE  /\ F[k].day = k[1]
             /\ F[k].jobs = Cardinality({i \in rows : <<JobDay(s.jobs[i]), s.jobs[i].group>> = k})
             /\ F[k].ok = Cardinality({j \in {i \in rows : <<JobDay(s.jobs[i]), s.jobs[i].group>> = k} :
                                         s.jobs[j].status \in {"SUCCEEDED", "OK"}})
  BY <1>1 DEF DwsInference
<1>4. \A k \in DOMAIN F : k[1] \in v[1] .. v[2]
  BY <1>1, <1>2
<1>5. ASSUME NEW day \in v[1] .. v[2], NEW g, AllLost(s, day, g)
      PROVE  /\ <<day, g>> \in DOMAIN F
             /\ F[<<day, g>>].jobs \in Nat /\ F[<<day, g>>].jobs > 0 /\ F[<<day, g>>].ok = 0
  <2>1. PICK i \in DOMAIN s.jobs : s.jobs[i].group = g /\ JobDay(s.jobs[i]) = day
    BY <1>5 DEF AllLost, JobEnds
  <2>2. PICK k : k = <<day, g>>
    OBVIOUS
  <2>3. i \in rows /\ k \in DOMAIN F
    BY <1>1, <1>2, <2>1, <2>2
  <2>4. PICK J, ok : /\ J = {x \in rows : <<JobDay(s.jobs[x]), s.jobs[x].group>> = k}
                     /\ ok = {j \in J : s.jobs[j].status \in {"SUCCEEDED", "OK"}}
    OBVIOUS
  <2>5. i \in J /\ J \subseteq DOMAIN s.jobs
    BY <1>1, <2>1, <2>2, <2>3, <2>4
  <2>6. IsFiniteSet(J)
    BY <2>5, FS_Subset DEF SourcesSound
  <2>7. ok = {}
    <3>1. \A j \in J : s.jobs[j].status \in {"FAILED", "DEAD_LETTER"}
      BY <1>5, <2>2, <2>4, <2>5 DEF AllLost, JobEnds
    <3> QED  BY <2>4, <3>1
  <2>8. F[k].jobs = Cardinality(J) /\ F[k].ok = Cardinality(ok)
    BY <1>3, <2>3, <2>4
  <2>9. Cardinality(J) \in Nat /\ Cardinality(J) > 0
    BY <2>5, <2>6, Counted0
  <2>10. Cardinality(ok) = 0
    BY <2>7, FS_EmptySet
  <2> QED  BY <2>2, <2>3, <2>8, <2>9, <2>10
<1> QED  BY <1>3, <1>4, <1>5 DEF InfDayRight

\* and ads_inference_dashboard makes a critical alert of that.
LEMMA InfDashComputed ==
  ASSUME NEW s, NEW t, Rooted(s, "infday", t.infday), NEW v, NEW F, F = AdsInference(s, t, v)
  PROVE  /\ \A k \in DOMAIN F : k[1] \in v[1] .. v[2]
         /\ \A day \in v[1] .. v[2] : InfDayRight(s, t.infday, day) => InfDashRight(s, F, day)
<1>1. DOMAIN F = On(t.infday, v)
  BY DEF AdsInference
<1>2. \A k \in DOMAIN t.infday : t.infday[k].day = k[1]
  BY DEF Rooted
<1>6. \A k \in DOMAIN F : k[1] \in v[1] .. v[2]
  BY <1>1, <1>2 DEF On
<1>3. \A k \in DOMAIN F : F[k].alert = InferenceAlert(t.infday[k])
  BY <1>1 DEF AdsInference
<1>4. ASSUME NEW k \in DOMAIN F, t.infday[k].jobs \in Nat, t.infday[k].jobs > 0, t.infday[k].ok = 0
      PROVE  F[k].alert = "CRITICAL"
  <2>1. Below(t.infday[k].ok, t.infday[k].jobs, 80)
    BY <1>4 DEF Below
  <2> QED  BY <1>3, <2>1 DEF InferenceAlert
<1>5. ASSUME NEW day \in v[1] .. v[2], InfDayRight(s, t.infday, day), NEW g, AllLost(s, day, g)
      PROVE  <<day, g>> \in DOMAIN F /\ F[<<day, g>>].alert = "CRITICAL"
  <2>1. PICK k : k = <<day, g>>
    OBVIOUS
  <2>2. k \in DOMAIN t.infday /\ t.infday[k].jobs \in Nat /\ t.infday[k].jobs > 0 /\ t.infday[k].ok = 0
    BY <1>5, <2>1 DEF InfDayRight
  <2>3. k \in DOMAIN F
    BY <1>1, <1>2, <2>1, <2>2 DEF On
  <2> QED  BY <1>4, <2>1, <2>2, <2>3
<1> QED  BY <1>6, <1>5 DEF InfDashRight

-----------------------------------------------------------------------------
\* The tables of the sequence, and what each is computed from.
LEMMA Tables ==
  /\ TableNames = {"dim", "etl", "qc", "step", "asset", "quality", "rule", "ops", "dash", "opsdash", "infday", "infdash"}
  /\ \A j \in 1 .. 12 : Sequence[j][2] \in TableNames
  /\ \A i, j \in 1 .. 12 : Sequence[i][2] = Sequence[j][2] => i = j
  /\ \A n \in TableNames : \E j \in 1 .. 12 : n = Sequence[j][2]
  /\ DOMAIN Sequence = 1 .. 12 /\ Len(Sequence) = 12
<1>1. DOMAIN Sequence = 1 .. 12 /\ Len(Sequence) = 12
  BY DEF Sequence
<1>2. /\ Sequence[1][2] = "dim" /\ Sequence[2][2] = "etl" /\ Sequence[3][2] = "qc" /\ Sequence[4][2] = "step"
      /\ Sequence[5][2] = "asset" /\ Sequence[6][2] = "quality" /\ Sequence[7][2] = "rule"
      /\ Sequence[8][2] = "ops" /\ Sequence[9][2] = "dash" /\ Sequence[10][2] = "opsdash"
      /\ Sequence[11][2] = "infday" /\ Sequence[12][2] = "infdash"
  BY DEF Sequence
<1>3. 1 .. 12 = {1, 2, 3, 4, 5, 6, 7, 8, 9, 10, 11, 12}
  OBVIOUS
<1>4. TableNames = {Sequence[j][2] : j \in 1 .. 12}
  BY <1>1 DEF TableNames, Range
<1>5. \A i, j \in 1 .. 12 : Sequence[i][2] = Sequence[j][2] => i = j
  BY <1>2, <1>3
<1>6. TableNames = {"dim", "etl", "qc", "step", "asset", "quality", "rule", "ops", "dash", "opsdash", "infday", "infdash"}
  BY <1>2, <1>3, <1>4
<1> QED  BY <1>1, <1>4, <1>5, <1>6
\* What a table is computed from is right for a day of a window.
InputsRight(s, n, t, w, day) ==
  /\ n = "quality" => EtlRight(s, t.etl, w) /\ QcRight(s, t.qc, day)
  /\ n = "ops" => StepRight(s, t.step, day)
  /\ n = "dash" => QualityRight(s, t.quality, w, day)
  /\ n = "opsdash" => OpsRight(s, t.ops, day)
  /\ n = "infdash" => InfDayRight(s, t.infday, day)

\* What a step computes is rooted in the sources, right for the days of its window if what it reads is,
\* and has nothing of other days.
LEMMA Computed ==
  ASSUME NEW s, SourcesSound(s), NEW t, \A m \in TableNames : Rooted(s, m, t[m]),
         NEW n \in TableNames, NEW v, v[1] \in Nat \ {NoDay}, NEW F, F = Compute(n, s, t, v)
  PROVE  /\ Rooted(s, n, F)
         /\ \A w, day : day \in v[1] .. v[2] /\ (n = "etl" => w = v) /\ InputsRight(s, n, t, w, day) => Right(s, n, F, w, day)
         /\ \A day : day \notin v[1] .. v[2] => Apart(s, n, F, day)
<1>1. /\ Rooted(s, "etl", t.etl) /\ Rooted(s, "qc", t.qc) /\ Rooted(s, "step", t.step)
      /\ Rooted(s, "quality", t.quality) /\ Rooted(s, "ops", t.ops) /\ Rooted(s, "infday", t.infday)
  BY Tables
<1>a. EtlRooted(s, t.etl) /\ QcRooted(s, t.qc) /\ StepRooted(s, t.step)
  BY <1>1 DEF Rooted
<1>2. CASE n = "etl"
  <2>1. F = FactEtl(s, t, v)
    BY <1>2 DEF Compute
  <2>2. EtlRooted(s, F) /\ EtlRight(s, F, v)
    BY <2>1, EtlComputed
  <2> QED  BY <1>2, <2>2 DEF Right, Rooted, Apart
<1>3. CASE n = "qc"
  <2>1. F = FactQc(s, t, v)
    BY <1>3 DEF Compute
  <2>2. /\ QcRooted(s, F) /\ \A day : day \in v[1] .. v[2] => QcRight(s, F, day)
        /\ \A day : day \notin v[1] .. v[2] => Apart(s, "qc", F, day)
    BY <2>1, QcComputed
  <2> QED  BY <1>3, <2>2 DEF Right, Rooted
<1>4. CASE n = "step"
  <2>1. F = FactStep(s, t, v)
    BY <1>4 DEF Compute
  <2>2. /\ StepRooted(s, F) /\ \A day : day \in v[1] .. v[2] => StepRight(s, F, day)
        /\ \A day : day \notin v[1] .. v[2] => Apart(s, "step", F, day)
    BY <2>1, StepComputed
  <2> QED  BY <1>4, <2>2 DEF Right, Rooted
<1>5. CASE n = "quality"
  <2>1. F = DwsQuality(s, t, v)
    BY <1>5 DEF Compute
  <2>2. /\ \A k \in DOMAIN F : F[k].day = k[1] /\ k[1] \in v[1] .. v[2]
        /\ CountsRooted(s, F)
        /\ \A w, day : day \in v[1] .. v[2] /\ EtlRight(s, t.etl, w) /\ QcRight(s, t.qc, day) => QualityRight(s, F, w, day)
    BY <1>a, <2>1, QualityComputed
  <2>3. Rooted(s, n, F)
    BY <1>5, <2>2 DEF Rooted
  <2>4. \A w, day : day \in v[1] .. v[2] /\ InputsRight(s, n, t, w, day) => Right(s, n, F, w, day)
    BY <1>5, <2>2 DEF Right, InputsRight
  <2>5. \A day : day \notin v[1] .. v[2] => Apart(s, n, F, day)
    BY <1>5, <2>2 DEF Apart
  <2> QED  BY <2>3, <2>4, <2>5
<1>6. CASE n = "ops"
  <2>1. F = DwsOps(s, t, v)
    BY <1>6 DEF Compute
  <2>2. /\ \A k \in DOMAIN F : F[k].day = k[1] /\ k[1] \in v[1] .. v[2]
        /\ \A day \in v[1] .. v[2] : StepRight(s, t.step, day) => OpsRight(s, F, day)
    BY <1>a, <2>1, OpsComputed
  <2>3. Rooted(s, n, F)
    BY <1>6, <2>2 DEF Rooted
  <2>4. \A w, day : day \in v[1] .. v[2] /\ InputsRight(s, n, t, w, day) => Right(s, n, F, w, day)
    BY <1>6, <2>2 DEF Right, InputsRight
  <2>5. \A day : day \notin v[1] .. v[2] => Apart(s, n, F, day)
    BY <1>6, <2>2 DEF Apart
  <2> QED  BY <2>3, <2>4, <2>5
<1>7. CASE n = "dash"
  <2>1. F = AdsQuality(s, t, v)
    BY <1>7 DEF Compute
  <2>2. /\ \A k \in DOMAIN F : k[1] \in v[1] .. v[2]
        /\ CountsRooted(s, F)
        /\ \A w, day : day \in v[1] .. v[2] /\ QualityRight(s, t.quality, w, day) => DashRight(s, F, w, day)
    BY <1>1, <2>1, DashComputed
  <2>3. Rooted(s, n, F)
    BY <1>7, <2>2 DEF Rooted
  <2>4. \A w, day : day \in v[1] .. v[2] /\ InputsRight(s, n, t, w, day) => Right(s, n, F, w, day)
    BY <1>7, <2>2 DEF Right, InputsRight
  <2>5. \A day : day \notin v[1] .. v[2] => Apart(s, n, F, day)
    BY <1>7, <2>2 DEF Apart
  <2> QED  BY <2>3, <2>4, <2>5
<1>8. CASE n = "opsdash"
  <2>1. F = AdsOps(s, t, v)
    BY <1>8 DEF Compute
  <2>2. /\ \A k \in DOMAIN F : k[1] \in v[1] .. v[2]
        /\ \A day \in v[1] .. v[2] : OpsRight(s, t.ops, day) => OpsDashRight(s, F, day)
    BY <1>1, <2>1, OpsDashComputed
  <2>3. Rooted(s, n, F)
    BY <1>8 DEF Rooted
  <2>4. \A w, day : day \in v[1] .. v[2] /\ InputsRight(s, n, t, w, day) => Right(s, n, F, w, day)
    BY <1>8, <2>2 DEF Right, InputsRight
  <2>5. \A day : day \notin v[1] .. v[2] => Apart(s, n, F, day)
    BY <1>8, <2>2 DEF Apart
  <2> QED  BY <2>3, <2>4, <2>5
<1>9. CASE n = "infday"
  <2>1. F = DwsInference(s, t, v)
    BY <1>9 DEF Compute
  <2>2. /\ \A k \in DOMAIN F : F[k].day = k[1] /\ k[1] \in v[1] .. v[2]
        /\ \A day \in v[1] .. v[2] : InfDayRight(s, F, day)
    BY <2>1, InfDayComputed
  <2> QED  BY <1>9, <2>2 DEF Right, Rooted, Apart
<1>10. CASE n = "infdash"
  <2>1. F = AdsInference(s, t, v)
    BY <1>10 DEF Compute
  <2>2. /\ \A k \in DOMAIN F : k[1] \in v[1] .. v[2]
        /\ \A day \in v[1] .. v[2] : InfDayRight(s, t.infday, day) => InfDashRight(s, F, day)
    BY <1>1, <2>1, InfDashComputed
  <2>3. Rooted(s, n, F)
    BY <1>10 DEF Rooted
  <2>4. \A w, day : day \in v[1] .. v[2] /\ InputsRight(s, n, t, w, day) => Right(s, n, F, w, day)
    BY <1>10, <2>2 DEF Right, InputsRight
  <2>5. \A day : day \notin v[1] .. v[2] => Apart(s, n, F, day)
    BY <1>10, <2>2 DEF Apart
  <2> QED  BY <2>3, <2>4, <2>5
<1>11. CASE n \in {"dim", "asset", "rule"}
  BY <1>11 DEF Right, Rooted, Apart
<1> QED  BY <1>2, <1>3, <1>4, <1>5, <1>6, <1>7, <1>8, <1>9, <1>10, <1>11, Tables

\* What becomes of a row that is there: it keeps the columns of its day and dataset, and in the tables above
\* the facts none.
LEMMA Takes ==
  ASSUME NEW o, NEW r
  PROVE  /\ LET m == Merged("qc", o, r) IN m.ds = o.ds /\ m.day = o.day /\ m.status = r.status
         /\ LET m == Merged("etl", o, r) IN m.ds = o.ds /\ m.day = o.day /\ m.status = r.status
         /\ LET m == Merged("step", o, r) IN m.day = o.day /\ m.reason = r.reason
         /\ \A n \in {"quality", "ops", "dash", "opsdash", "infday", "infdash"} : Merged(n, o, r) = r
<1>1. LET m == Merged("qc", o, r) IN m.ds = o.ds /\ m.day = o.day /\ m.status = r.status
  BY DEF Merged
<1>2. LET m == Merged("etl", o, r) IN m.ds = o.ds /\ m.day = o.day /\ m.status = r.status
  BY DEF Merged
<1>3. LET m == Merged("step", o, r) IN m.day = o.day /\ m.reason = r.reason
  BY DEF Merged
<1>4. \A n \in {"quality", "ops", "dash", "opsdash", "infday", "infdash"} : Merged(n, o, r) = r
  BY DEF Merged
<1> QED  BY <1>1, <1>2, <1>3, <1>4

\* Rows that are written leave the table rooted,
LEMMA UpsertRooted ==
  ASSUME NEW s, NEW n, NEW old, NEW new, Rooted(s, n, old), Rooted(s, n, new), NEW F, F = Upsert(n, old, new)
  PROVE  Rooted(s, n, F)
<1>0. /\ DOMAIN F = DOMAIN old \cup DOMAIN new
      /\ \A k \in DOMAIN F :
           \/ k \notin DOMAIN new /\ k \in DOMAIN old /\ F[k] = old[k]
           \/ k \in DOMAIN new /\ k \notin DOMAIN old /\ F[k] = new[k]
           \/ k \in DOMAIN new /\ k \in DOMAIN old /\ F[k] = Merged(n, old[k], new[k])
  BY DEF Upsert
<1>3. ASSUME n = "qc" PROVE QcRooted(s, F)
  <2>1. \A k \in DOMAIN F : \/ k \in DOMAIN old /\ F[k].day = old[k].day /\ F[k].ds = old[k].ds
                            \/ k \in DOMAIN new /\ F[k].day = new[k].day /\ F[k].ds = new[k].ds
    <3>1. \A k : LET m == Merged("qc", old[k], new[k]) IN m.ds = old[k].ds /\ m.day = old[k].day
      BY Takes
    <3> QED  BY <1>3, <3>1, <1>0
  <2>2. QcRooted(s, old) /\ QcRooted(s, new)
    BY <1>3 DEF Rooted
  <2> QED  BY <2>1, <2>2 DEF QcRooted
<1>4. ASSUME n = "etl" PROVE EtlRooted(s, F)
  <2>1. \A k \in DOMAIN F : /\ \/ k \in DOMAIN old /\ F[k].day = old[k].day /\ F[k].ds = old[k].ds
                               \/ k \in DOMAIN new /\ F[k].day = new[k].day /\ F[k].ds = new[k].ds
                            /\ \/ k \in DOMAIN old /\ F[k].status = old[k].status
                               \/ k \in DOMAIN new /\ F[k].status = new[k].status
    <3>1. \A k : LET m == Merged("etl", old[k], new[k])
                 IN  m.ds = old[k].ds /\ m.day = old[k].day /\ m.status = new[k].status
      BY Takes
    <3> QED  BY <1>4, <3>1, <1>0
  <2>2. EtlRooted(s, old) /\ EtlRooted(s, new)
    BY <1>4 DEF Rooted
  <2>3. ASSUME NEW k \in DOMAIN F
        PROVE  \E i \in DOMAIN s.perf : s.perf[i].run = k /\ F[k].day = Day(s.perf[i]) /\ F[k].ds = s.perf[i].ds
    BY <2>1, <2>2 DEF EtlRooted
  <2>4. ASSUME NEW k \in DOMAIN F
        PROVE  \E j \in DOMAIN s.perf : s.perf[j].run = k /\ F[k].status = s.perf[j].status
    BY <2>1, <2>2 DEF EtlRooted
  <2> QED  BY <2>3, <2>4 DEF EtlRooted
<1>5. ASSUME n = "step" PROVE StepRooted(s, F)
  <2>1. \A k \in DOMAIN F : \/ k \in DOMAIN old /\ F[k].day = old[k].day
                            \/ k \in DOMAIN new /\ F[k].day = new[k].day
    <3>1. \A k : LET m == Merged("step", old[k], new[k]) IN m.day = old[k].day
      BY Takes
    <3> QED  BY <1>5, <3>1, <1>0
  <2>2. StepRooted(s, old) /\ StepRooted(s, new)
    BY <1>5 DEF Rooted
  <2> QED  BY <2>1, <2>2 DEF StepRooted
<1>6. ASSUME n \in {"quality", "ops", "dash", "infday"}, NEW k \in DOMAIN F
      PROVE  (k \in DOMAIN new /\ F[k] = new[k]) \/ (k \in DOMAIN old /\ F[k] = old[k])
  <2>1. Merged(n, old[k], new[k]) = new[k]
    BY <1>6, Takes
  <2> QED  BY <1>0, <2>1
<1>7. ASSUME n \in {"quality", "dash"} PROVE CountsRooted(s, F)
  BY <1>6, <1>7 DEF Rooted, CountsRooted
<1>8. ASSUME n \in {"quality", "ops", "infday"}, NEW k \in DOMAIN F PROVE F[k].day = k[1]
  BY <1>6, <1>8 DEF Rooted
<1> QED  BY <1>3, <1>4, <1>5, <1>7, <1>8 DEF Rooted

\* those that are right for a day make the table right for it,
LEMMA UpsertRight ==
  ASSUME NEW s, NEW n, NEW old, NEW new, NEW w, NEW day, Right(s, n, new, w, day), NEW F, F = Upsert(n, old, new)
  PROVE  Right(s, n, F, w, day)
<1>0. /\ DOMAIN F = DOMAIN old \cup DOMAIN new
      /\ \A k \in DOMAIN F :
           \/ k \notin DOMAIN new /\ k \in DOMAIN old /\ F[k] = old[k]
           \/ k \in DOMAIN new /\ k \notin DOMAIN old /\ F[k] = new[k]
           \/ k \in DOMAIN new /\ k \in DOMAIN old /\ F[k] = Merged(n, old[k], new[k])
  BY DEF Upsert
<1>2. ASSUME n = "qc" PROVE QcRight(s, F, day)
  <2>1. \A k \in DOMAIN new : k \in DOMAIN F /\ F[k].status = new[k].status
    <3>1. \A k : LET m == Merged("qc", old[k], new[k]) IN m.status = new[k].status
      BY Takes
    <3> QED  BY <1>2, <3>1, <1>0
  <2> QED  BY <1>2, <2>1 DEF Right, QcRight
<1>3. ASSUME n = "etl" PROVE EtlRight(s, F, w)
  BY <1>0, <1>3 DEF Right, EtlRight
<1>4. ASSUME n = "step" PROVE StepRight(s, F, day)
  <2>1. \A k \in DOMAIN new : k \in DOMAIN F /\ F[k].reason = new[k].reason
    <3>1. \A k : LET m == Merged("step", old[k], new[k]) IN m.reason = new[k].reason
      BY Takes
    <3> QED  BY <1>4, <3>1, <1>0
  <2> QED  BY <1>4, <2>1 DEF Right, StepRight
<1>1. n \in {"quality", "ops", "dash", "opsdash", "infday", "infdash"} =>
        \A k \in DOMAIN new : k \in DOMAIN F /\ F[k] = new[k]
  <2>1. n \in {"quality", "ops", "dash", "opsdash", "infday", "infdash"} =>
          \A k : Merged(n, old[k], new[k]) = new[k]
    BY Takes
  <2> QED  BY <1>0, <2>1
<1>5. n = "quality" => QualityRight(s, F, w, day)
  BY <1>1 DEF Right, QualityRight
<1>6. n = "ops" => OpsRight(s, F, day)
  BY <1>1 DEF Right, OpsRight
<1>7. n = "dash" => DashRight(s, F, w, day)
  BY <1>1 DEF Right, DashRight
<1>8. n = "opsdash" => OpsDashRight(s, F, day)
  BY <1>1 DEF Right, OpsDashRight
<1>9. n = "infday" => InfDayRight(s, F, day)
  BY <1>1 DEF Right, InfDayRight
<1>10. n = "infdash" => InfDashRight(s, F, day)
  BY <1>1 DEF Right, InfDashRight
<1> QED  BY <1>2, <1>3, <1>4, <1>5, <1>6, <1>7, <1>8, <1>9, <1>10 DEF Right

\* and those of other days leave it right.
LEMMA UpsertApart ==
  ASSUME NEW s, NEW n, NEW old, NEW new, NEW w, NEW day, Right(s, n, old, w, day),
         Apart(s, n, new, day) \/ n = "etl", NEW F, F = Upsert(n, old, new)
  PROVE  Right(s, n, F, w, day)
<1>0. /\ DOMAIN F = DOMAIN old \cup DOMAIN new
      /\ \A k \in DOMAIN F :
           \/ k \notin DOMAIN new /\ k \in DOMAIN old /\ F[k] = old[k]
           \/ k \in DOMAIN new /\ k \notin DOMAIN old /\ F[k] = new[k]
           \/ k \in DOMAIN new /\ k \in DOMAIN old /\ F[k] = Merged(n, old[k], new[k])
  BY DEF Upsert
<1>1. \A k \in DOMAIN old : k \in DOMAIN F /\ (k \notin DOMAIN new => F[k] = old[k])
  BY <1>0
<1>2. n = "qc" => QcRight(s, F, day)
  BY <1>1 DEF Right, QcRight, Apart
<1>3. n = "etl" => EtlRight(s, F, w)
  BY <1>1 DEF Right, EtlRight
<1>4. n = "step" => StepRight(s, F, day)
  BY <1>1 DEF Right, StepRight, Apart
<1>11. n \in {"quality", "ops", "dash", "opsdash", "infday", "infdash"} =>
         \A k \in DOMAIN old : k[1] = day => k \in DOMAIN F /\ F[k] = old[k]
  BY <1>1 DEF Apart
<1>12. \A d : <<day, d>>[1] = day
  OBVIOUS
<1>5. n = "quality" => QualityRight(s, F, w, day)
  BY <1>11, <1>12 DEF Right, QualityRight
<1>6. n = "ops" => OpsRight(s, F, day)
  BY <1>11 DEF Right, OpsRight
<1>7. n = "dash" => DashRight(s, F, w, day)
  BY <1>11, <1>12 DEF Right, DashRight
<1>8. n = "opsdash" => OpsDashRight(s, F, day)
  BY <1>11 DEF Right, OpsDashRight
<1>9. n = "infday" => InfDayRight(s, F, day)
  BY <1>11, <1>12 DEF Right, InfDayRight
<1>10. n = "infdash" => InfDashRight(s, F, day)
  BY <1>11, <1>12 DEF Right, InfDashRight
<1> QED  BY <1>2, <1>3, <1>4, <1>5, <1>6, <1>7, <1>8, <1>9, <1>10 DEF Right

\* The step after a step is a later one or the end, and of a build of all layers the next one.
LEMMA NextIs ==
  ASSUME NEW i \in 0 .. 12, NEW layers
  PROVE  /\ StepAfter(i, layers) \in 1 .. 13
         /\ layers = Layers => StepAfter(i, layers) = i + 1
<1>1. PICK S : S = {j \in Steps(layers) : j > i} \cup {13}
  OBVIOUS
<1>2. S \subseteq 1 .. 13 /\ 13 \in S /\ StepAfter(i, layers) = Min(S)
  BY <1>1, Tables DEF Steps, StepAfter
<1>3. \E m \in S : \A j \in S : m <= j
  <2>1. PICK R : R = OpToRel(<, Nat)
    OBVIOUS
  <2>2. S \subseteq Nat /\ S # {}
    BY <1>2
  <2>3. IsWellFoundedOn(R, Nat)
    BY <2>1, NatLessThanWellFounded
  <2>4. PICK m \in S : \A j \in S : ~(<<j, m>> \in R)
    BY <2>2, <2>3, WFMin
  <2>5. \A j \in S : ~(j < m)
    BY <2>1, <2>2, <2>4 DEF OpToRel
  <2> QED  BY <2>2, <2>5
<1>4. Min(S) \in S /\ \A j \in S : Min(S) <= j
  BY <1>3 DEF Min
<1>5. ASSUME layers = Layers PROVE Min(S) = i + 1
  <2>1. \A j \in 1 .. 12 : Sequence[j][1] \in Layers
    BY DEF Sequence, Layers
  <2>2. i + 1 \in S
    BY <1>1, <1>5, <2>1, Tables DEF Steps
  <2>3. \A j \in S : j > i
    BY <1>1
  <2>4. Min(S) \in 1 .. 13 /\ Min(S) <= i + 1 /\ Min(S) > i
    BY <1>2, <1>4, <2>2, <2>3
  <2> QED  BY <2>4
<1> QED  BY <1>2, <1>4, <1>5

-----------------------------------------------------------------------------
\* The invariant holds before any build: the tables are empty,
LEMMA WhInitInv == WhInit => WhInv
<1> SUFFICES ASSUME WhInit PROVE WhInv
  OBVIOUS
<1>1. /\ tbl = [n \in TableNames |-> Empty] /\ pc = [b \in Builders |-> 0] /\ order = [b \in Builders |-> <<>>]
      /\ staged = [b \in Builders |-> <<>>] /\ failed = [b \in Builders |-> FALSE]
      /\ alone = [b \in Builders |-> FALSE] /\ current = {}
  BY DEF WhInit
<1>2. WhTypeOK /\ OrderGiven /\ OneAlone /\ CurrentRight /\ BehindRight /\ StagedRight
  BY <1>1 DEF WhTypeOK, OrderGiven, Idle, OneAlone, CurrentRight, BehindRight, StagedRight
<1>3. DOMAIN Empty = {}
  BY DEF Empty
<1>4. AllRooted
  BY <1>1, <1>3 DEF AllRooted, Rooted, QcRooted, EtlRooted, StepRooted, CountsRooted
<1> QED  BY <1>2, <1>4 DEF WhInv

\* what a row belongs to stays,
LEMMA RootsStay ==
  ASSUME NEW s, NEW z, RowsStay(s, z) \/ z = s, NEW n, NEW F, Rooted(s, n, F)
  PROVE  Rooted(z, n, F)
<1>1. CASE z = s
  BY <1>1
<1>2. CASE RowsStay(s, z)
  <2>1. ASSUME QcRooted(s, F) PROVE QcRooted(z, F)
    BY <1>2, <2>1 DEF QcRooted, RowsStay
  <2>2. ASSUME EtlRooted(s, F) PROVE EtlRooted(z, F)
    <3>1. ASSUME NEW r \in DOMAIN F
          PROVE  \E i \in DOMAIN z.perf : z.perf[i].run = r /\ F[r].day = Day(z.perf[i]) /\ F[r].ds = z.perf[i].ds
      <4>1. PICK i \in DOMAIN s.perf : s.perf[i].run = r /\ F[r].day = Day(s.perf[i]) /\ F[r].ds = s.perf[i].ds
        BY <2>2 DEF EtlRooted
      <4>2. i \in DOMAIN z.perf /\ z.perf[i] = s.perf[i]
        BY <1>2 DEF RowsStay
      <4> QED  BY <4>1, <4>2
    <3>2. ASSUME NEW r \in DOMAIN F
          PROVE  \E j \in DOMAIN z.perf : z.perf[j].run = r /\ F[r].status = z.perf[j].status
      <4>1. PICK j \in DOMAIN s.perf : s.perf[j].run = r /\ F[r].status = s.perf[j].status
        BY <2>2 DEF EtlRooted
      <4>2. j \in DOMAIN z.perf /\ z.perf[j] = s.perf[j]
        BY <1>2 DEF RowsStay
      <4> QED  BY <4>1, <4>2
    <3> QED  BY <3>1, <3>2 DEF EtlRooted
  <2>3. ASSUME StepRooted(s, F) PROVE StepRooted(z, F)
    BY <1>2, <2>3 DEF StepRooted, RowsStay
  <2>4. ASSUME NEW day, NEW d, SomeEnded(s, day, d) PROVE SomeEnded(z, day, d)
    <3>1. PICK i \in DatedIn(s, day, d), j \in DOMAIN s.perf :
                s.perf[j].run = s.perf[i].run /\ s.perf[j].status \notin Unended
      BY <2>4 DEF SomeEnded
    <3>2. i \in DOMAIN z.perf /\ z.perf[i] = s.perf[i] /\ j \in DOMAIN z.perf /\ z.perf[j] = s.perf[j]
      BY <1>2, <3>1 DEF RowsStay, DatedIn
    <3>3. i \in DatedIn(z, day, d)
      BY <3>1, <3>2 DEF DatedIn
    <3> QED  BY <3>1, <3>2, <3>3 DEF SomeEnded
  <2>5. ASSUME NEW day, NEW d, Checked(s, day, d) # {} PROVE Checked(z, day, d) # {}
    <3>1. PICK i \in DOMAIN s.qc : Day(s.qc[i]) = day /\ s.qc[i].ds = d
      BY <2>5 DEF Checked
    <3>2. i \in DOMAIN z.qc /\ Day(z.qc[i]) = day /\ z.qc[i].ds = d
      BY <1>2, <3>1 DEF RowsStay
    <3> QED  BY <3>2 DEF Checked
  <2>6. ASSUME CountsRooted(s, F) PROVE CountsRooted(z, F)
    BY <2>4, <2>5, <2>6 DEF CountsRooted
  <2> QED  BY <2>1, <2>2, <2>3, <2>6 DEF Rooted
<1> QED  BY <1>1, <1>2

\* a write of the rest of the system keeps the rows, and nothing is claimed of any window until a build is over,
LEMMA WriteInv == ASSUME WhInv, Write, RowsStay(src, src') \/ src' = src PROVE WhInv'
<1>1. /\ UNCHANGED <<tbl, pc, order, staged, failed>> /\ alone' = [b \in Builders |-> FALSE] /\ current' = {}
  BY DEF Write
<1>2. ASSUME NEW n, NEW F, Rooted(src, n, F) PROVE Rooted(src', n, F)
  BY <1>2, RootsStay
<1>3. AllRooted'
  BY <1>1, <1>2 DEF WhInv, AllRooted, Table
<1>4. WhTypeOK' /\ OrderGiven' /\ OneAlone' /\ CurrentRight' /\ BehindRight' /\ StagedRight'
  BY <1>1 DEF WhInv, WhTypeOK, OrderGiven, OneAlone, CurrentRight, BehindRight, StagedRight, Running, Idle
<1> QED  BY <1>3, <1>4 DEF WhInv

\* a build that starts has nothing behind it,
LEMMA StartInv == ASSUME WhInv, NEW c \in Builders, NEW o \in Orders[c], StartBuild(c, o) PROVE WhInv'
<1>1. /\ Idle(c) /\ order' = [order EXCEPT ![c] = o] /\ pc' = [pc EXCEPT ![c] = StepAfter(0, o[2])]
      /\ failed' = [failed EXCEPT ![c] = FALSE] /\ UNCHANGED <<src, tbl, staged, current>>
      /\ alone' = [b \in Builders |-> b = c /\ o[2] = Layers /\ \A x \in Builders \ {c} : Idle(x)]
  BY DEF StartBuild
<1>2. WhTypeOK /\ OrderGiven /\ OneAlone /\ AllRooted /\ CurrentRight /\ BehindRight /\ StagedRight
  BY DEF WhInv
<1>3. StepAfter(0, o[2]) \in 1 .. 13 /\ (o[2] = Layers => StepAfter(0, o[2]) = 1)
  BY NextIs
<1>4. /\ pc'[c] \in 1 .. 13 /\ order'[c] = o
      /\ \A b \in Builders \ {c} : pc'[b] = pc[b] /\ order'[b] = order[b] /\ failed'[b] = failed[b] /\ ~alone'[b]
  BY <1>1, <1>2, <1>3 DEF WhTypeOK
<1>5. \A b \in Builders : staged[b] # <<>> => b # c /\ ~Idle(b)
  BY <1>1, <1>2 DEF WhTypeOK, Running
<1>6. WhTypeOK' /\ OrderGiven'
  <2>1. WhTypeOK'
    <3>1. /\ pc' \in [Builders -> 0 .. 13] /\ order' = [b \in Builders |-> order'[b]]
          /\ failed' \in [Builders -> BOOLEAN] /\ alone' \in [Builders -> BOOLEAN]
      <4>1. pc' \in [Builders -> 0 .. 13]
        BY <1>1, <1>2, <1>3 DEF WhTypeOK
      <4> QED  BY <1>1, <1>2, <4>1 DEF WhTypeOK
    <3>2. \A b \in Builders : staged'[b] # <<>> => Running(b)'
      BY <1>1, <1>2, <1>4, <1>5 DEF WhTypeOK, Running, Idle
    <3> QED  BY <1>1, <1>2, <3>1, <3>2 DEF WhTypeOK
  <2>2. OrderGiven'
    BY <1>2, <1>4 DEF OrderGiven, Idle
  <2> QED  BY <2>1, <2>2
<1>7. OneAlone'
  <2>1. alone'[c] => o[2] = Layers /\ \A x \in Builders \ {c} : Idle(x)
    BY <1>1
  <2>2. ~Idle(c)' /\ \A x \in Builders \ {c} : Idle(x)' <=> Idle(x)
    BY <1>4 DEF Idle
  <2> QED  BY <1>4, <2>1, <2>2 DEF OneAlone
<1>8. AllRooted' /\ CurrentRight'
  BY <1>1, <1>2, <1>4, <1>5 DEF AllRooted, CurrentRight, Table
<1>9. BehindRight'
  <2>1. SUFFICES ASSUME alone'[c] PROVE \A j \in 1 .. 12 : ~(j < pc'[c])
    BY <1>4 DEF BehindRight
  <2>2. pc'[c] = 1
    BY <1>1, <1>2, <1>3, <2>1 DEF WhTypeOK
  <2> QED  BY <2>2
<1>10. StagedRight'
  BY <1>1, <1>2, <1>4, <1>5 DEF StagedRight, Table, Window
<1> QED  BY <1>6, <1>7, <1>8, <1>9, <1>10 DEF WhInv

\* what a step computes is right where what it reads is,
LEMMA ReadInv == ASSUME WhInv, SourcesSound(src), NEW c \in Builders, ReadStep(c) PROVE WhInv'
<1>1. PICK F : /\ F = Compute(Table(c), src, tbl, order[c][1]) /\ staged' = [staged EXCEPT ![c] = <<F>>]
               /\ Running(c) /\ UNCHANGED <<src, tbl, pc, order, failed, alone, current>>
  BY DEF ReadStep
<1>2. WhTypeOK /\ OrderGiven /\ OneAlone /\ AllRooted /\ CurrentRight /\ BehindRight /\ StagedRight
  BY DEF WhInv
<1>3. pc[c] \in 1 .. 12 /\ Table(c) \in TableNames /\ Table(c) = Sequence[pc[c]][2]
  BY <1>1, <1>2, Tables DEF WhTypeOK, Running, Idle, Table
<1>4. /\ staged'[c] # <<>> /\ staged'[c][1] = F /\ \A b \in Builders \ {c} : staged'[b] = staged[b]
  BY <1>1, <1>2 DEF WhTypeOK
<1>5. /\ Rooted(src, Table(c), F)
      /\ \A w, day : /\ day \in Window(c) /\ (Table(c) = "etl" => w = order[c][1])
                     /\ InputsRight(src, Table(c), tbl, w, day)
                     => Right(src, Table(c), F, w, day)
      /\ \A day : day \notin Window(c) => Apart(src, Table(c), F, day)
  <2>1. PICK v : v = order[c][1]
    OBVIOUS
  <2>2. order[c] \in Orders[c]
    BY <1>1, <1>2 DEF OrderGiven, Running
  <2>3. v[1] \in Nat \ {NoDay}
    BY <2>1, <2>2, OrdersAssumption
  <2>4. \A m \in TableNames : Rooted(src, m, tbl[m])
    BY <1>2 DEF AllRooted
  <2>5. F = Compute(Table(c), src, tbl, v)
    BY <1>1, <2>1
  <2>6. /\ Rooted(src, Table(c), F)
        /\ \A w, day : /\ day \in v[1] .. v[2] /\ (Table(c) = "etl" => w = v)
                       /\ InputsRight(src, Table(c), tbl, w, day)
                       => Right(src, Table(c), F, w, day)
        /\ \A day : day \notin v[1] .. v[2] => Apart(src, Table(c), F, day)
    BY <1>3, <2>3, <2>4, <2>5, Computed
  <2> QED  BY <2>1, <2>6 DEF Window
<1>6. ASSUME NEW w, NEW day,
             (w \in current /\ day \in Dates(w)) \/ (alone[c] /\ ~failed[c] /\ w = order[c][1] /\ day \in Window(c))
      PROVE  InputsRight(src, Table(c), tbl, w, day)
  <2>1. ASSUME NEW j \in 1 .. 12, j < pc[c] PROVE Right(src, Sequence[j][2], tbl[Sequence[j][2]], w, day)
    BY <1>2, <1>6, <2>1, Tables DEF CurrentRight, BehindRight
  <2>2. /\ Sequence[2][2] = "etl" /\ Sequence[3][2] = "qc" /\ Sequence[4][2] = "step"
        /\ Sequence[6][2] = "quality" /\ Sequence[8][2] = "ops" /\ Sequence[9][2] = "dash"
        /\ Sequence[10][2] = "opsdash" /\ Sequence[11][2] = "infday" /\ Sequence[12][2] = "infdash"
    BY DEF Sequence
  <2>3. /\ Table(c) = "quality" => pc[c] = 6
        /\ Table(c) = "ops" => pc[c] = 8
        /\ Table(c) = "dash" => pc[c] = 9
        /\ Table(c) = "opsdash" => pc[c] = 10
        /\ Table(c) = "infdash" => pc[c] = 12
    BY <1>3, <2>2, Tables
  <2>4. /\ pc[c] > 2 => EtlRight(src, tbl.etl, w)
        /\ pc[c] > 3 => QcRight(src, tbl.qc, day)
        /\ pc[c] > 4 => StepRight(src, tbl.step, day)
        /\ pc[c] > 6 => QualityRight(src, tbl.quality, w, day)
        /\ pc[c] > 8 => OpsRight(src, tbl.ops, day)
        /\ pc[c] > 11 => InfDayRight(src, tbl.infday, day)
    BY <1>3, <2>1, <2>2 DEF Right
  <2> QED  BY <2>3, <2>4 DEF InputsRight
<1>7. StagedRight'
  <2>1. SUFFICES ASSUME NEW b \in Builders, staged'[b] # <<>>, NEW w, NEW day
                 PROVE  /\ alone[b] /\ ~failed[b] /\ w = order[b][1] /\ day \in Window(b)
                           => Right(src, Table(b), staged'[b][1], w, day)
                        /\ w \in current /\ day \in Dates(w) =>
                             /\ day \in Window(b) /\ Table(b) # "etl" => Right(src, Table(b), staged'[b][1], w, day)
                             /\ day \notin Window(b) => Apart(src, Table(b), staged'[b][1], day)
    BY <1>1 DEF StagedRight, Window, Table
  <2>2. CASE b = c
    <3>1. ASSUME alone[c], ~failed[c], w = order[c][1], day \in Window(c) PROVE Right(src, Table(c), F, w, day)
      BY <1>5, <1>6, <3>1
    <3>2. ASSUME w \in current, day \in Dates(w), day \in Window(c), Table(c) # "etl"
          PROVE  Right(src, Table(c), F, w, day)
      BY <1>5, <1>6, <3>2
    <3> QED  BY <1>4, <1>5, <2>2, <3>1, <3>2
  <2>3. CASE b # c
    BY <1>2, <1>4, <2>1, <2>3 DEF StagedRight
  <2> QED  BY <2>2, <2>3
<1>8. WhTypeOK'
  BY <1>1, <1>2, <1>4 DEF WhTypeOK, Running, Idle
<1>9. AllRooted'
  <2>1. SUFFICES ASSUME NEW b \in Builders, staged'[b] # <<>> PROVE Rooted(src, Table(b), staged'[b][1])
    BY <1>1, <1>2 DEF AllRooted, Table
  <2> QED  BY <1>2, <1>4, <1>5, <2>1 DEF AllRooted
<1>10. OrderGiven' /\ OneAlone' /\ CurrentRight'
  BY <1>1, <1>2 DEF OrderGiven, OneAlone, CurrentRight, Idle
<1>11. BehindRight'
  BY <1>1, <1>2 DEF BehindRight, Window
<1> QED  BY <1>11, <1>7, <1>8, <1>9, <1>10 DEF WhInv

\* a step that commits makes its table right and leaves the others,
LEMMA CommitInv == ASSUME WhInv, NEW c \in Builders, CommitStep(c) PROVE WhInv'
<1>1. PICK n, F : /\ n = Table(c) /\ F = Upsert(n, tbl[n], staged[c][1]) /\ tbl' = [tbl EXCEPT ![n] = F]
                  /\ staged' = [staged EXCEPT ![c] = <<>>] /\ staged[c] # <<>>
                  /\ pc' = [pc EXCEPT ![c] = StepAfter(pc[c], order[c][2])]
                  /\ Running(c) /\ UNCHANGED <<src, order, failed, alone, current>>
  BY DEF CommitStep, NextStep
<1>2. WhTypeOK /\ OrderGiven /\ OneAlone /\ AllRooted /\ CurrentRight /\ BehindRight /\ StagedRight
  BY DEF WhInv
<1>3. pc[c] \in 1 .. 12 /\ n \in TableNames /\ n = Sequence[pc[c]][2]
  <2>1. pc[c] \in 1 .. 12
    BY <1>1, <1>2, Tables DEF WhTypeOK, Running, Idle
  <2> QED  BY <1>1, <2>1, Tables DEF Table
<1>4. /\ pc'[c] \in 1 .. 13 /\ (order[c][2] = Layers => pc'[c] = pc[c] + 1)
      /\ \A b \in Builders \ {c} : pc'[b] = pc[b]
  BY <1>1, <1>2, <1>3, NextIs DEF WhTypeOK
<1>5. staged'[c] = <<>> /\ \A b \in Builders \ {c} : staged'[b] = staged[b]
  BY <1>1, <1>2 DEF WhTypeOK
<1>6. tbl'[n] = F /\ \A m \in TableNames \ {n} : tbl'[m] = tbl[m]
  BY <1>1, <1>2, <1>3 DEF WhTypeOK
<1>7. \A b \in Builders : Idle(b)' <=> Idle(b)
  BY <1>1, <1>2, <1>3, <1>4 DEF Idle
<1>8. WhTypeOK'
  <2>1. pc' \in [Builders -> 0 .. 13] /\ tbl' = [m \in TableNames |-> tbl'[m]]
        /\ staged' = [b \in Builders |-> staged'[b]]
    <3>1. pc' \in [Builders -> 0 .. 13]
      BY <1>1, <1>2, <1>4 DEF WhTypeOK
    <3>2. tbl' = [m \in TableNames |-> tbl'[m]]
      BY <1>1, <1>2, <1>3 DEF WhTypeOK
    <3>3. staged' = [b \in Builders |-> staged'[b]]
      BY <1>1, <1>2 DEF WhTypeOK
    <3> QED  BY <3>1, <3>2, <3>3
  <2>2. \A b \in Builders : staged'[b] # <<>> => Running(b)'
    BY <1>2, <1>4, <1>5 DEF WhTypeOK, Running, Idle
  <2> QED  BY <1>1, <1>2, <2>1, <2>2 DEF WhTypeOK
<1>9. OrderGiven' /\ OneAlone'
  BY <1>1, <1>2, <1>7 DEF OrderGiven, OneAlone
<1>10. AllRooted'
  <2>1. Rooted(src, n, F)
    BY <1>1, <1>2, <1>3, UpsertRooted DEF AllRooted
  <2>2. \A b \in Builders \ {c} : Table(b)' = Table(b)
    BY <1>4 DEF Table
  <2> QED  BY <1>1, <1>2, <1>5, <1>6, <2>1, <2>2 DEF AllRooted
<1>11. CurrentRight'
  <2>1. SUFFICES ASSUME NEW w \in current, NEW day \in Dates(w), NEW m \in TableNames
                 PROVE  Right(src, m, tbl'[m], w, day)
    BY <1>1 DEF CurrentRight
  <2>2. Right(src, m, tbl[m], w, day)
    BY <1>2 DEF CurrentRight
  <2>3. CASE m = n
    <3>1. \/ Right(src, n, staged[c][1], w, day)
          \/ Apart(src, n, staged[c][1], day) \/ n = "etl"
      BY <1>1, <1>2 DEF StagedRight
    <3> QED  BY <1>1, <1>6, <2>2, <2>3, <3>1, UpsertRight, UpsertApart
  <2> QED  BY <1>6, <2>2, <2>3
<1>12. BehindRight'
  <2>1. SUFFICES ASSUME NEW b \in Builders, alone[b], ~failed[b], NEW day \in Window(b), NEW j \in 1 .. 12, j < pc'[b]
                 PROVE  Right(src, Sequence[j][2], tbl'[Sequence[j][2]], order[b][1], day)
    BY <1>1 DEF BehindRight, Window
  <2>2. b = c /\ order[c][2] = Layers
    BY <1>1, <1>2, <2>1 DEF OneAlone, Running
  <2>3. j < pc[c] \/ j = pc[c]
    BY <1>3, <1>4, <2>1, <2>2
  <2>4. CASE j = pc[c]
    <3>1. Right(src, n, staged[c][1], order[c][1], day)
      BY <1>1, <1>2, <2>1, <2>2 DEF StagedRight
    <3>2. Right(src, n, F, order[c][1], day)
      BY <1>1, <3>1, UpsertRight
    <3> QED  BY <1>3, <1>6, <2>2, <2>4, <3>2
  <2>5. CASE j < pc[c]
    <3>1. Sequence[j][2] \in TableNames \ {n}
      BY <1>3, <2>1, <2>5, Tables
    <3> QED  BY <1>2, <1>6, <2>1, <2>2, <2>5, <3>1 DEF BehindRight
  <2> QED  BY <2>3, <2>4, <2>5
<1>13. StagedRight'
  <2>1. \A b \in Builders \ {c} : Table(b)' = Table(b)
    BY <1>4 DEF Table
  <2> QED  BY <1>1, <1>2, <1>5, <2>1 DEF StagedRight, Window
<1> QED  BY <1>8, <1>9, <1>10, <1>11, <1>12, <1>13 DEF WhInv

\* one that fails, or is refused, makes the build one that failed,
LEMMA FailInv == ASSUME WhInv, NEW c \in Builders, Running(c), Skip(c) PROVE WhInv'
<1>1. /\ failed' = [failed EXCEPT ![c] = TRUE] /\ staged' = [staged EXCEPT ![c] = <<>>]
      /\ pc' = [pc EXCEPT ![c] = StepAfter(pc[c], order[c][2])]
      /\ Running(c) /\ UNCHANGED <<src, tbl, order, alone, current>>
  BY DEF Skip, NextStep
<1>2. WhTypeOK /\ OrderGiven /\ OneAlone /\ AllRooted /\ CurrentRight /\ BehindRight /\ StagedRight
  BY DEF WhInv
<1>3. pc[c] \in 1 .. 12
  BY <1>1, <1>2, Tables DEF WhTypeOK, Running, Idle
<1>4. pc'[c] \in 1 .. 13 /\ \A b \in Builders \ {c} : pc'[b] = pc[b] /\ Table(b)' = Table(b)
  BY <1>1, <1>2, <1>3, NextIs DEF WhTypeOK, Table
<1>5. /\ staged'[c] = <<>> /\ failed'[c]
      /\ \A b \in Builders \ {c} : staged'[b] = staged[b] /\ failed'[b] = failed[b]
  BY <1>1, <1>2 DEF WhTypeOK
<1>6. \A b \in Builders : Idle(b)' <=> Idle(b)
  BY <1>1, <1>2, <1>3, <1>4 DEF Idle
<1>7. WhTypeOK'
  <2>1. pc' \in [Builders -> 0 .. 13] /\ failed' \in [Builders -> BOOLEAN]
        /\ staged' = [b \in Builders |-> staged'[b]]
    BY <1>1, <1>2, <1>4 DEF WhTypeOK
  <2>2. \A b \in Builders : staged'[b] # <<>> => Running(b)'
    BY <1>2, <1>4, <1>5 DEF WhTypeOK, Running, Idle
  <2> QED  BY <1>1, <1>2, <2>1, <2>2 DEF WhTypeOK
<1>8. OrderGiven' /\ OneAlone' /\ CurrentRight'
  BY <1>1, <1>2, <1>6 DEF OrderGiven, OneAlone, CurrentRight
<1>9. AllRooted' /\ StagedRight'
  <2>1. AllRooted'
    BY <1>1, <1>2, <1>4, <1>5 DEF AllRooted
  <2>2. StagedRight'
    BY <1>1, <1>2, <1>4, <1>5 DEF StagedRight, Window
  <2> QED  BY <2>1, <2>2
<1>10. BehindRight'
  BY <1>1, <1>2, <1>4, <1>5 DEF BehindRight, Window
<1> QED  BY <1>7, <1>8, <1>9, <1>10 DEF WhInv

\* a build that is gone claims nothing, and one that ended green has every table behind it.
LEMMA GoneInv ==
  ASSUME WhInv, NEW c \in Builders, FinishBuild(c) \/ KillBuild(c)
  PROVE  WhInv'
<1>1. /\ pc' = [pc EXCEPT ![c] = 0] /\ order' = [order EXCEPT ![c] = <<>>] /\ ~Idle(c)
      /\ failed' = [failed EXCEPT ![c] = FALSE] /\ alone' = [alone EXCEPT ![c] = FALSE]
      /\ UNCHANGED <<src, tbl>>
  BY DEF FinishBuild, KillBuild
<1>2. WhTypeOK /\ OrderGiven /\ OneAlone /\ AllRooted /\ CurrentRight /\ BehindRight /\ StagedRight
  BY DEF WhInv
<1>3. \/ current' = current
      \/ /\ pc[c] = 13 /\ alone[c] /\ ~failed[c] /\ current' = current \cup {order[c][1]}
  <2>1. CASE FinishBuild(c)
    <3>1. pc[c] \in 0 .. 13
      BY <1>2 DEF WhTypeOK
    <3>2. pc[c] > Len(Sequence)
      BY <2>1 DEF FinishBuild
    <3>3. pc[c] = 13
      BY <3>1, <3>2, Tables
    <3>4. failed[c] \in BOOLEAN /\ alone[c] \in BOOLEAN
      BY <1>2 DEF WhTypeOK
    <3>5. current' = IF StatusOf(c) = "ok" /\ alone[c] THEN current \cup {order[c][1]} ELSE current
      BY <2>1 DEF FinishBuild
    <3>6. StatusOf(c) = "ok" <=> ~failed[c]
      BY <3>4 DEF StatusOf
    <3> QED  BY <3>3, <3>4, <3>5, <3>6
  <2>2. CASE KillBuild(c)
    BY <2>2 DEF KillBuild
  <2> QED  BY <2>1, <2>2
<1>4. (staged' = staged /\ staged[c] = <<>>) \/ staged' = [staged EXCEPT ![c] = <<>>]
  BY <1>1, <1>2 DEF FinishBuild, KillBuild, WhTypeOK, Running
<1>5. staged'[c] = <<>> /\ (\A b \in Builders \ {c} : staged'[b] = staged[b]) /\ staged' = [b \in Builders |-> staged'[b]]
  BY <1>2, <1>4 DEF WhTypeOK
<1>6. /\ pc'[c] = 0 /\ ~alone'[c]
      /\ \A b \in Builders \ {c} : /\ pc'[b] = pc[b] /\ order'[b] = order[b] /\ failed'[b] = failed[b]
                                   /\ alone'[b] = alone[b] /\ Table(b)' = Table(b) /\ Window(b)' = Window(b)
  BY <1>1, <1>2 DEF WhTypeOK, Table, Window
<1>7. WhTypeOK'
  <2>1. /\ pc' \in [Builders -> 0 .. 13] /\ failed' \in [Builders -> BOOLEAN]
        /\ alone' \in [Builders -> BOOLEAN] /\ order' = [b \in Builders |-> order'[b]]
    <3>1. pc' \in [Builders -> 0 .. 13]
      BY <1>1, <1>2 DEF WhTypeOK
    <3> QED  BY <1>1, <1>2, <3>1 DEF WhTypeOK
  <2>2. \A b \in Builders : staged'[b] # <<>> => Running(b)'
    BY <1>2, <1>5, <1>6 DEF WhTypeOK, Running, Idle
  <2> QED  BY <1>1, <1>2, <1>5, <2>1, <2>2 DEF WhTypeOK
<1>8. OrderGiven' /\ OneAlone'
  BY <1>1, <1>2, <1>6 DEF OrderGiven, OneAlone, Idle
<1>9. AllRooted'
  BY <1>1, <1>2, <1>5, <1>6 DEF AllRooted
<1>10. BehindRight'
  BY <1>1, <1>2, <1>6 DEF BehindRight
<1>11. CurrentRight'
  <2>1. SUFFICES ASSUME NEW w \in current', NEW day \in Dates(w), NEW m \in TableNames
                 PROVE  Right(src, m, tbl[m], w, day)
    BY <1>1 DEF CurrentRight
  <2>2. CASE w \in current
    BY <1>2, <2>2 DEF CurrentRight
  <2>3. CASE pc[c] = 13 /\ alone[c] /\ ~failed[c] /\ w = order[c][1]
    <3>1. PICK j \in 1 .. 12 : m = Sequence[j][2]
      BY Tables
    <3>2. j < pc[c]
      BY <2>3
    <3>3. day \in Window(c)
      BY <2>3 DEF Window, Dates
    <3> QED  BY <1>2, <2>3, <3>1, <3>2, <3>3 DEF BehindRight
  <2> QED  BY <1>3, <2>1, <2>2, <2>3
<1>12. StagedRight'
  <2>1. SUFFICES ASSUME NEW b \in Builders \ {c}, staged[b] # <<>>, NEW w, NEW day
                 PROVE  /\ alone[b] /\ ~failed[b] /\ w = order[b][1] /\ day \in Window(b)
                           => Right(src, Table(b), staged[b][1], w, day)
                        /\ w \in current' /\ day \in Dates(w) =>
                             /\ day \in Window(b) /\ Table(b) # "etl" => Right(src, Table(b), staged[b][1], w, day)
                             /\ day \notin Window(b) => Apart(src, Table(b), staged[b][1], day)
    BY <1>1, <1>5, <1>6 DEF StagedRight
  <2>2. ~Idle(b)
    BY <1>2, <2>1 DEF WhTypeOK, Running
  <2>3. ~alone[c]
    BY <1>2, <2>1, <2>2 DEF OneAlone
  <2>4. current' = current
    BY <1>3, <2>3
  <2> QED  BY <1>2, <2>1, <2>4 DEF StagedRight
<1> QED  BY <1>7, <1>8, <1>9, <1>10, <1>11, <1>12 DEF WhInv

\* Every step of the builds and of the rest of the system keeps it.
LEMMA WhStepInv ==
  ASSUME WhInv, SourcesSound(src), RowsStay(src, src') \/ src' = src, [WhNext]_whVars
  PROVE  WhInv'
<1>1. CASE UNCHANGED whVars
  BY <1>1 DEF whVars, WhInv, WhTypeOK, OrderGiven, OneAlone, AllRooted, CurrentRight, BehindRight, StagedRight, Window, Table, Running, Idle
<1>2. CASE Write
  BY <1>2, WriteInv
<1>3. ASSUME NEW b \in Builders, NEW o \in Orders[b], StartBuild(b, o) PROVE WhInv'
  BY <1>3, StartInv
<1>4. ASSUME NEW b \in Builders, ReadStep(b) PROVE WhInv'
  BY <1>4, ReadInv
<1>5. ASSUME NEW b \in Builders, CommitStep(b) PROVE WhInv'
  BY <1>5, CommitInv
<1>6. ASSUME NEW b \in Builders, FailStep(b) \/ AbortStep(b) PROVE WhInv'
  BY <1>6, FailInv DEF FailStep, AbortStep
<1>7. ASSUME NEW b \in Builders, FinishBuild(b) \/ KillBuild(b) PROVE WhInv'
  BY <1>7, GoneInv
<1> QED  BY <1>1, <1>2, <1>3, <1>4, <1>5, <1>6, <1>7 DEF WhNext

-----------------------------------------------------------------------------
\* On a day on which the dashboards are right they tell what the sources say.
LEMMA RightTells ==
  ASSUME NEW w, NEW day, DashRight(src, tbl.dash, w, day), OpsDashRight(src, tbl.opsdash, day),
         InfDashRight(src, tbl.infdash, day)
  PROVE  DayRight(w, day)
<1>1. \A d : /\ EndStatuses(day, d) = Ends(src, day, d) /\ Contracts(day, d) = Checked(src, day, d)
             /\ Settled(w, day, d) => Seen(src, w, day, d)
  BY DEF EndStatuses, Dated, DatedIn, Contracts, Ends, Checked, Unended, Settled, Seen
<1>2. ASSUME NEW d, Bad(Checked(src, day, d)) \/ (Seen(src, w, day, d) /\ Bad(Ends(src, day, d)))
      PROVE  <<day, d>> \in DOMAIN tbl.dash /\ tbl.dash[<<day, d>>].alert = "CRITICAL"
  <2>1. PICK x : x = tbl.dash[<<day, d>>]
    OBVIOUS
  <2>2. <<day, d>> \in DOMAIN tbl.dash /\ Numbers(src, x, w, day, d) /\ x.alert = AlertOf(x)
    BY <1>2, <2>1 DEF DashRight, Told, Bad
  <2>3. (x.etl \in Nat /\ x.etl > 0 /\ x.etlOk = 0) \/ (x.qc \in Nat /\ x.qc > 0 /\ x.qcOk = 0)
    BY <1>2, <2>2 DEF Numbers, Counts, Bad
  <2>4. Below(x.etlOk, x.etl, 80) \/ Below(x.qcOk, x.qc, 80)
    BY <2>3 DEF Below
  <2> QED  BY <2>1, <2>2, <2>4 DEF AlertOf
<1>3. ASSUME NEW d, Seen(src, w, day, d), Ends(src, day, d) \cup Checked(src, day, d) # {},
             Checked(src, day, d) \subseteq {"PASS"}, Ends(src, day, d) \subseteq Successes
      PROVE  <<day, d>> \in DOMAIN tbl.dash /\ tbl.dash[<<day, d>>].alert = "OK"
  <2>1. PICK x : x = tbl.dash[<<day, d>>]
    OBVIOUS
  <2>2. <<day, d>> \in DOMAIN tbl.dash /\ Numbers(src, x, w, day, d) /\ x.alert = AlertOf(x)
    BY <1>3, <2>1 DEF DashRight, Told
  <2>4. x.etl \in Nat /\ x.etlOk = x.etl /\ x.qc \in Nat /\ x.qcOk = x.qc
    BY <1>3, <2>2 DEF Numbers, Counts
  <2>5. ~Below(x.etlOk, x.etl, 80) /\ ~Below(x.qcOk, x.qc, 80) /\ ~Below(x.qcOk, x.qc, 95)
    BY <2>4 DEF Below
  <2> QED  BY <2>1, <2>2, <2>5 DEF AlertOf
<1>4. ASSUME NEW i \in DOMAIN src.steps, src.steps[i].day = day, src.steps[i].reason = "OOMKILLED"
      PROVE  \E k \in DOMAIN tbl.opsdash : k[1] = day /\ tbl.opsdash[k].alert = "CRITICAL"
  BY <1>4 DEF OpsDashRight
<1>5. ASSUME NEW g, JobsOn(day, g) # {}, JobsOn(day, g) \subseteq {"FAILED", "DEAD_LETTER"}
      PROVE  <<day, g>> \in DOMAIN tbl.infdash /\ tbl.infdash[<<day, g>>].alert = "CRITICAL"
  <2>1. AllLost(src, day, g)
    BY <1>5 DEF JobsOn, AllLost, JobEnds
  <2> QED  BY <2>1 DEF InfDashRight
<1>6. ASSUME NEW d \in DOMAIN src.versions
      PROVE  /\ Bad(Contracts(day, d)) \/ (Settled(w, day, d) /\ Bad(EndStatuses(day, d))) =>
                    <<day, d>> \in DOMAIN tbl.dash /\ tbl.dash[<<day, d>>].alert = "CRITICAL"
             /\ (Settled(w, day, d) /\ EndStatuses(day, d) \cup Contracts(day, d) # {} /\ Contracts(day, d) \subseteq {"PASS"}
                    /\ EndStatuses(day, d) \subseteq {"OK", "WARN", "SUCCESS", "SUCCEEDED"}) =>
                    <<day, d>> \in DOMAIN tbl.dash /\ tbl.dash[<<day, d>>].alert = "OK"
  BY <1>1, <1>2, <1>3 DEF Successes
<1> QED  BY <1>4, <1>5, <1>6 DEF DayRight

\* The warehouse beside sources that are finite and keep their rows.
WhSoundSpec == WhInit /\ [][WhNext]_whVars /\ []SourcesSound(src) /\ [][RowsStay(src, src')]_src

\* The invariant of the builds: every step of a build, and every row another writer adds, keeps it.
THEOREM WhInvariant == WhSoundSpec => []WhInv
<1>1. WhInv /\ SourcesSound(src) /\ [RowsStay(src, src')]_src /\ [WhNext]_whVars => WhInv'
  BY WhStepInv
<1> QED  BY WhInitInv, <1>1, PTL DEF WhSoundSpec

\* Once a green build of all layers ran over a window with nothing beside it, the dashboards of its
\* days are right until the sources change (builder.py, the statements of warehouse/sql/dml): for any
\* sources, any windows and layers, any number of builds that overlap, fail, are refused or die.
THEOREM WhTruth == WhSoundSpec => []DashboardTellsTruth
<1>1. ASSUME WhInv PROVE DashboardTellsTruth
  <2>1. SUFFICES ASSUME NEW w \in current, NEW day \in w[1] .. w[2] PROVE DayRight(w, day)
    BY DEF DashboardTellsTruth
  <2>2. Right(src, "dash", tbl["dash"], w, day) /\ Right(src, "opsdash", tbl["opsdash"], w, day)
        /\ Right(src, "infdash", tbl["infdash"], w, day)
    BY <1>1, Tables DEF WhInv, CurrentRight, Dates
  <2> QED  BY <2>2, RightTells DEF Right
<1> QED  BY WhInvariant, <1>1, PTL

-----------------------------------------------------------------------------
\* Checks and plans beside the builds.
OpsSoundSpec ==
  /\ WhInit /\ QaInit /\ [][(WhNext /\ UNCHANGED qaVars) \/ QaNext]_opsVars
  /\ []SourcesSound(src) /\ [][RowsStay(src, src')]_src

\* Checks, plans and backfill runs write nothing that the builds or their sources keep.
LEMMA QaLeavesWarehouse == ASSUME QaNext PROVE UNCHANGED whVars
<1>1. ASSUME NEW r \in Runs, EndTask(r) PROVE UNCHANGED whVars
  BY <1>1 DEF EndTask, Ended
<1>2. ASSUME NEW r \in Runs, TimeOut(r) PROVE UNCHANGED whVars
  BY <1>2 DEF TimeOut, Ended
<1>3. ASSUME NEW r \in Runs, FinishRun(r) \/ KillRun(r) PROVE UNCHANGED whVars
  BY <1>3 DEF FinishRun, KillRun, Gone
<1>4. ASSUME NEW r \in Runs, BeginTask(r) PROVE UNCHANGED whVars
  BY <1>4 DEF BeginTask
<1>5. ASSUME NEW r \in Runs, NEW plan \in Plans, StartRun(r, plan) PROVE UNCHANGED whVars
  BY <1>5 DEF StartRun
<1>6. ASSUME NEW plan \in Plans, NEW q \in Requests, PlanBackfill(plan, q) \/ PlanCrashes(plan, q) PROVE UNCHANGED whVars
  BY <1>6 DEF PlanBackfill, PlanCrashes
<1>7. CASE SlaCheck(Yesterday, FALSE)
  BY <1>7 DEF SlaCheck
<1> QED  BY <1>1, <1>2, <1>3, <1>4, <1>5, <1>6, <1>7 DEF QaNext
\* Nor do they disturb the invariant of the builds: an SLA check reads tables that are rooted.
THEOREM OpsWhInvariant == OpsSoundSpec => []WhInv
<1>1. [(WhNext /\ UNCHANGED qaVars) \/ QaNext]_opsVars => [WhNext]_whVars
  BY QaLeavesWarehouse DEF opsVars
<1>2. WhInv /\ SourcesSound(src) /\ [RowsStay(src, src')]_src /\ [WhNext]_whVars => WhInv'
  BY WhStepInv
<1> QED  BY <1>1, <1>2, WhInitInv, PTL DEF OpsSoundSpec

-----------------------------------------------------------------------------
\* A minimum above zero is missed by a dataset of which nothing succeeded.
LEMMA NoneIsMissed ==
  ASSUME NEW min \in Nat, min > 0, NEW runs \in Nat, runs > 0
  PROVE  Missed(min, 0, runs)
<1>1. min * runs > 0
  OBVIOUS
<1>2. min # NoLimit
  BY DEF NoLimit
<1> QED  BY <1>1, <1>2 DEF Missed

\* A verdict PASS on a day of a current window is earned.
LEMMA PassEarned ==
  ASSUME WhInv, SourcesSound(src), NEW p \in Policies, NEW w \in current, NEW day \in Dates(w), NEW d,
         Evaluate(p, day, d) = "PASS"
  PROVE  /\ p.minQc # NoLimit => Contracts(day, d) # {}
         /\ p.minQc > 0 => ~Bad(Contracts(day, d))
         /\ p.minEtl > 0 /\ Settled(w, day, d) => EndStatuses(day, d) # {} /\ ~Bad(EndStatuses(day, d))
         /\ p.maxWf = 0 => \A x \in DOMAIN src.wf : src.wf[x].day = day => src.wf[x].status # "FAILED"
<1>1. PICK known, row : /\ known <=> <<day, d>> \in DOMAIN tbl.dash
                        /\ row = IF known THEN tbl.dash[<<day, d>>] ELSE [qc |-> 0, qcOk |-> 0, etl |-> 0, etlOk |-> 0]
  OBVIOUS
<1>2. /\ ~Missed(p.minQc, row.qcOk, row.qc) /\ ~Missed(p.minEtl, row.etlOk, row.etl)
      /\ ~(p.maxWf # NoLimit /\ FailedWorkflows(day) > p.maxWf)
      /\ ~Missing(p.minQc, row.qc) /\ ~Missing(p.minEtl, row.etl)
  BY <1>1 DEF Evaluate
<1>3. /\ EndStatuses(day, d) = Ends(src, day, d) /\ Contracts(day, d) = Checked(src, day, d)
      /\ Settled(w, day, d) => Seen(src, w, day, d)
  BY DEF EndStatuses, Dated, DatedIn, Contracts, Ends, Checked, Unended, Settled, Seen
<1>4. /\ row.qc # 0 => Checked(src, day, d) # {}
      /\ row.etl # 0 => SomeEnded(src, day, d)
  <2>1. CountsRooted(src, tbl.dash)
    BY Tables DEF WhInv, AllRooted, Rooted
  <2> QED  BY <1>1, <2>1 DEF CountsRooted
<1>8. Told(src, w, day, d) => Numbers(src, row, w, day, d)
  <2>1. DashRight(src, tbl.dash, w, day)
    BY Tables DEF WhInv, CurrentRight, Right
  <2> QED  BY <1>1, <2>1 DEF DashRight
<1>9. p.minQc \in Nat \cup {NoLimit} /\ p.minEtl \in Nat \cup {NoLimit}
  BY PoliciesAssumption
<1>5. ASSUME p.minQc # NoLimit PROVE Checked(src, day, d) # {}
  BY <1>2, <1>4, <1>5 DEF Missing
<1>10. ASSUME p.minQc > 0, Bad(Checked(src, day, d)) PROVE FALSE
  <2>1. row.qc \in Nat /\ row.qc > 0 /\ row.qcOk = 0
    BY <1>8, <1>10 DEF Told, Numbers, Counts, Bad
  <2>2. p.minQc \in Nat
    BY <1>9, <1>10 DEF NoLimit
  <2> QED  BY <1>2, <1>10, <2>1, <2>2, NoneIsMissed
<1>6. ASSUME p.minEtl > 0, Seen(src, w, day, d) PROVE Ends(src, day, d) # {} /\ ~Bad(Ends(src, day, d))
  <2>1. p.minEtl \in Nat /\ p.minEtl # NoLimit
    BY <1>6, <1>9 DEF NoLimit
  <2>2. SomeEnded(src, day, d)
    BY <1>2, <1>4, <2>1 DEF Missing
  <2>3. PICK i \in DatedIn(src, day, d), j \in DOMAIN src.perf :
              src.perf[j].run = src.perf[i].run /\ src.perf[j].status \notin Unended
    BY <2>2 DEF SomeEnded
  <2>4. j = i
    BY <1>6, <2>3 DEF Seen
  <2>5. Ends(src, day, d) # {}
    BY <2>3, <2>4 DEF Ends
  <2>6. ASSUME Bad(Ends(src, day, d)) PROVE FALSE
    <3>1. row.etl \in Nat /\ row.etl > 0 /\ row.etlOk = 0
      BY <1>6, <1>8, <2>5, <2>6 DEF Told, Numbers, Counts
    <3> QED  BY <1>2, <1>6, <2>1, <3>1, NoneIsMissed
  <2> QED  BY <2>5, <2>6
<1>7. ASSUME p.maxWf = 0, NEW x \in DOMAIN src.wf, src.wf[x].day = day, src.wf[x].status = "FAILED" PROVE FALSE
  <2>1. PICK W : W = {y \in DOMAIN src.wf : src.wf[y].day = day /\ src.wf[y].status \in {"FAILED", "ERROR"}}
    OBVIOUS
  <2>2. IsFiniteSet(W) /\ x \in W
    BY <1>7, <2>1, FS_Subset DEF SourcesSound
  <2>3. FailedWorkflows(day) = Cardinality(W) /\ Cardinality(W) \in Nat /\ Cardinality(W) > 0
    BY <2>1, <2>2, Counted0 DEF FailedWorkflows
  <2> QED  BY <1>2, <1>7, <2>3 DEF NoLimit
<1> QED  BY <1>3, <1>5, <1>6, <1>7, <1>10

\* An SLA check (quality_ops/sla.py) that passes on a day of a window whose dashboards are current has
\* earned it: with a minimum for contract runs, a dataset has some and they did not all fail; with one for
\* ETL, the runs a build could see ended and did not all fail; with no failed workflow allowed, there is
\* none; for any sources, policies, and builds beside the checks.
THEOREM PassesAreEarned == OpsSoundSpec => PassIsEarned
<1>1. ASSUME WhInv, SourcesSound(src), [(WhNext /\ UNCHANGED qaVars) \/ QaNext]_opsVars
      PROVE  [\A c \in checks' \ checks, w \in current :
        c[2] \in w[1]..w[2] /\ c[4] = "PASS" =>
            \E p \in Policies :
                /\ p.id = c[1]
                /\ p.minQc # NoLimit => Contracts(c[2], c[3]) # {}
                /\ p.minQc > 0 => ~Bad(Contracts(c[2], c[3]))
                /\ p.minEtl > 0 /\ Settled(w, c[2], c[3]) =>
                        EndStatuses(c[2], c[3]) # {} /\ ~Bad(EndStatuses(c[2], c[3]))
                /\ p.maxWf = 0 => \A x \in DOMAIN src.wf :
                                     src.wf[x].day = c[2] => src.wf[x].status # "FAILED"]_opsVars
  <2>1. SUFFICES ASSUME NEW c \in checks' \ checks, NEW w \in current, c[2] \in w[1] .. w[2], c[4] = "PASS"
                 PROVE  \E p \in Policies :
                          /\ p.id = c[1]
                          /\ p.minQc # NoLimit => Contracts(c[2], c[3]) # {}
                          /\ p.minQc > 0 => ~Bad(Contracts(c[2], c[3]))
                          /\ p.minEtl > 0 /\ Settled(w, c[2], c[3]) =>
                                  EndStatuses(c[2], c[3]) # {} /\ ~Bad(EndStatuses(c[2], c[3]))
                          /\ p.maxWf = 0 => \A x \in DOMAIN src.wf :
                                               src.wf[x].day = c[2] => src.wf[x].status # "FAILED"
    OBVIOUS
  <2>2. checks' # checks
    BY <2>1
  <2>3. checks' \subseteq checks \cup Verdicts(Yesterday)
    <3>1. SlaCheck(Yesterday, FALSE) \/ \E r \in Runs : EndTask(r)
      BY <1>1, <2>2 DEF opsVars, qaVars, runVars, QaNext, PlanBackfill, PlanCrashes, StartRun, BeginTask, TimeOut,
                        FinishRun, KillRun, Gone
    <3> QED  BY <3>1 DEF SlaCheck, EndTask
  <2>4. PICK p \in Policies : \E d : c = <<p.id, Yesterday, d, Evaluate(p, Yesterday, d)>>
    BY <2>1, <2>3 DEF Verdicts
  <2>6. PICK d : c = <<p.id, Yesterday, d, Evaluate(p, Yesterday, d)>>
    BY <2>4
  <2>5. c[1] = p.id /\ c[2] = Yesterday /\ c[3] = d /\ Evaluate(p, Yesterday, d) = "PASS" /\ Yesterday \in Dates(w)
    BY <2>1, <2>6 DEF Dates
  <2> QED  BY <1>1, <2>5, PassEarned
<1> QED  BY <1>1, OpsWhInvariant, PTL DEF OpsSoundSpec, PassIsEarned
=============================================================================
