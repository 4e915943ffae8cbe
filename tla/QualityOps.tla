----------------------------- MODULE QualityOps -----------------------------
(* What the team does with the tables of the metrics warehouse: the SLA      *)
(* check and the quality summary read them, `backfill plan` turns what went  *)
(* wrong into tasks, `backfill run` executes the tasks' commands one by one. *)
(* All of it goes on beside the builds of WarehouseBuild and beside the      *)
(* writes of the rest of the system.                                         *)
(*                                                                           *)
(* Modelled: quality_ops/sla.py, backfill.py and summary.py, and the exit    *)
(* statuses the command line makes of them.  Left out: the reports that are  *)
(* rendered, the averages of the summary, --output files, the plan's own row *)
(* except through its tasks, --version (a dataset stands for id and version).*)
EXTENDS WarehouseBuild

CONSTANTS Policies,     \* the enabled SLA policies, records with id, pattern (datasets,
                        \* {} for none), fam, outputs, minQc, minEtl, maxWf (NoLimit for none)
          Requests,     \* arguments of `backfill plan`: [window, ds, phase, filter]
          Plans,        \* plan ids
          Runs,         \* processes of `backfill run --execute`
          Yesterday,    \* the day `sla check` takes without --date
          MaxExecuted   \* bound on the commands backfill runs start

NoLimit == -1
ASSUME BackfillAssumption == None \notin Plans
ASSUME PoliciesAssumption ==
    \A p \in Policies : p.minQc \in Nat \cup {NoLimit} /\ p.minEtl \in Nat \cup {NoLimit}

VARIABLES
    checks,     \* rows of sla_checks: <<policy, day, dataset, status>>
    tasks,      \* backfill_tasks: <<plan, dataset, phase, day>> -> row
    plans,      \* backfill_plans: plan -> what it was asked for
    crashed,    \* ids of the plans whose command ended in an exception
    rPlan,      \* run -> plan it executes, None when there is no run
    rTodo,      \* run -> tasks it has not finished, in order
    rSeen,      \* run -> attempts of its tasks as they were when it loaded them
    rBusy,      \* run -> the command of its first task is running
    executed,   \* commands of the runs so far
    killed      \* a run was killed

qaVars == <<checks, tasks, plans, crashed, rPlan, rTodo, rSeen, rBusy, executed, killed>>
runVars == <<rPlan, rTodo, rSeen, rBusy, executed, killed>>
opsVars == <<whVars, qaVars>>

(***************************************************************************)
(* SLA check and summary                                                   *)
(***************************************************************************)
\* Both filters of a policy must match.
Matches(p, d, fam) == /\ p.fam = None \/ fam = p.fam
                      /\ p.pattern = {} \/ d \in p.pattern
DashOn(day) == {k \in DOMAIN tbl.dash : k[1] = day}

\* The datasets of the day's dashboard, and those of dim_dataset that are not among them.
SelectDatasets(p, day) ==
    LET onDash == {k[2] : k \in {x \in DashOn(day) : Matches(p, x[2], tbl.dash[x].fam)}}
    IN  onDash \cup {d \in DOMAIN tbl.dim : Matches(p, d, tbl.dim[d].fam)}

\* The contract runs that started that day: one without a start is not seen here.
QcRunsOn(day, d) == {src.qc[i] : i \in {j \in DOMAIN src.qc : src.qc[j].started = day /\ src.qc[j].ds = d}}

\* An output that is not known is there with the dashboard's row, when its name is a part
\* of the name of one that is.
Fragments == {"", "a", "d", "o", "r", "s", "w", "ad", "aw", "ds", "dw", "od", "ra", "wd"}
OutputPresent(name, day, d) ==
    LET key == <<day, d>>
    IN  CASE name = "qc_contract" -> \E r \in QcRunsOn(day, d) : r.status \in {"PASS", "WARN"}
          [] name = "ml_ready" -> \E i \in DOMAIN src.mlready : src.mlready[i].ds = d
          [] name = "dwd" -> key \in DOMAIN tbl.dash /\ tbl.dash[key].dwd > 0
          [] name = "raw" -> key \in DOMAIN tbl.dash /\ tbl.dash[key].raw > 0
          [] name \in {"ads"} \cup Fragments -> key \in DOMAIN tbl.dash
          [] OTHER -> FALSE

\* The failed workflows of the day are those of every dataset.
FailedWorkflows(day) ==
    Cardinality({x \in DOMAIN src.wf : src.wf[x].day = day /\ src.wf[x].status \in {"FAILED", "ERROR"}})

\* PASS, WARN (a rate that is asked for is missing) or FAIL.
NothingMissing(min, runs) == FALSE                                         \* mutant
Missing(min, runs) == min # NoLimit /\ runs = 0
Missed(min, ok, runs) == min # NoLimit /\ runs > 0 /\ 100 * ok < min * runs
Evaluate(p, day, d) ==
    LET known == <<day, d>> \in DOMAIN tbl.dash
        row == IF known THEN tbl.dash[<<day, d>>] ELSE [qc |-> 0, qcOk |-> 0, etl |-> 0, etlOk |-> 0]
    IN  IF \/ \E o \in p.outputs : ~OutputPresent(o, day, d)
           \/ Missed(p.minQc, row.qcOk, row.qc)
           \/ Missed(p.minEtl, row.etlOk, row.etl)
           \/ p.maxWf # NoLimit /\ FailedWorkflows(day) > p.maxWf
        THEN "FAIL"
        ELSE IF Missing(p.minQc, row.qc) \/ Missing(p.minEtl, row.etl) THEN "WARN" ELSE "PASS"

Verdicts(day) ==
    UNION {{<<p.id, day, d, Evaluate(p, day, d)>> : d \in SelectDatasets(p, day)} : p \in Policies}

\* Exit 0 unless a check fails; with --dry-run nothing is recorded.
SlaExit(day) == IF \E v \in Verdicts(day) : v[4] = "FAIL" THEN 1 ELSE 0
SlaCheck(day, dryRun) ==
    /\ checks' = IF dryRun THEN checks ELSE checks \cup Verdicts(day)
    /\ UNCHANGED <<whVars, tasks, plans, crashed, runVars>>

\* `quality summary`: the worst alert of the day; CRITICAL ends in exit 1.
SummaryAlert(day) ==
    LET alerts == {tbl.dash[k].alert : k \in DashOn(day)}
    IN  IF "CRITICAL" \in alerts THEN "CRITICAL"
        ELSE IF "WARN" \in alerts THEN "WARN" ELSE "OK"
SummaryExit(day) == IF SummaryAlert(day) = "CRITICAL" THEN 1 ELSE 0

(***************************************************************************)
(* backfill plan                                                           *)
(***************************************************************************)
\* Keys <<day, dataset, phase, family>> of the four tables, for what has a status of the filter.
Candidates(q) ==
    LET wanted(d) == q.ds = None \/ d = q.ds
        etl == {k \in On(tbl.etl, q.window) : /\ tbl.etl[k].status \in q.filter
                                              /\ wanted(tbl.etl[k].ds)
                                              /\ q.phase = None \/ tbl.etl[k].phase = q.phase}
        step == {k \in On(tbl.step, q.window) : /\ tbl.step[k].phase \in q.filter
                                                /\ tbl.step[k].ds # None /\ wanted(tbl.step[k].ds)}
        dash == {k \in On(tbl.dash, q.window) : tbl.dash[k].status \in q.filter /\ wanted(k[2])}
        sla == {c \in checks : /\ c[2] \in q.window[1]..q.window[2]
                               /\ c[4] \in q.filter /\ wanted(c[3])}
    IN  {<<tbl.etl[k].day, tbl.etl[k].ds, tbl.etl[k].phase, None>> : k \in etl}
        \cup {<<tbl.step[k].day, tbl.step[k].ds, FirstOf(q.phase, "workflow"), tbl.step[k].fam>> : k \in step}
        \cup {<<k[1], k[2], FirstOf(q.phase, "build_features"), tbl.dash[k].fam>> : k \in dash}
        \cup {<<c[2], c[3], FirstOf(q.phase, "sla"), None>> : c \in sla}
\* With a dataset named and nothing found, a task for every day of the window.
ByHand(q) == {<<day, q.ds, FirstOf(q.phase, "normalize"), None>> : day \in q.window[1]..q.window[2]}
Keys(q) == IF Candidates(q) = {} /\ q.ds # None THEN ByHand(q) ELSE Candidates(q)

\* The keys are sorted: two that differ only in a family that is missing in one of them
\* cannot be compared.
Unsortable(ks) == \E k, j \in ks : SubSeq(k, 1, 3) = SubSeq(j, 1, 3) /\ k[4] = None /\ j[4] # None

\* The command of a task stands for its stage.
Stage(phase) ==
    CASE phase = "workflow" -> "etl"
      [] phase \in {"normalize", "etl", "build_features", "build_ads", "ml_ready", "qc", "sla"} -> phase
      [] OTHER -> "normalize"

Used == DOMAIN plans \cup crashed
Planned == [status |-> "PLANNED", attempts |-> 0, error |-> None]
PlanBackfill(plan, q) ==
    /\ plan \notin Used /\ ~Unsortable(Keys(q))
    /\ LET new == {<<plan, c[2], c[3], c[1]>> : c \in Keys(q)}
       IN  tasks' = [k \in new \cup DOMAIN tasks |-> IF k \in new THEN Planned ELSE tasks[k]]
    /\ plans' = [p \in {plan} \cup DOMAIN plans |-> IF p = plan THEN q ELSE plans[p]]
    /\ UNCHANGED <<whVars, checks, crashed, runVars>>
PlanCrashes(plan, q) ==
    /\ plan \notin Used /\ Unsortable(Keys(q))
    /\ crashed' = crashed \cup {plan}
    /\ UNCHANGED <<whVars, checks, tasks, plans, runVars>>

(***************************************************************************)
(* backfill run                                                            *)
(***************************************************************************)
\* A run loads every task of the plan, whatever its status.
StartRun(r, plan) ==
    LET ks == {k \in DOMAIN tasks : k[1] = plan}
    IN  /\ rPlan[r] = None /\ ks # {} /\ executed + Cardinality(ks) <= MaxExecuted
        /\ rPlan' = [rPlan EXCEPT ![r] = plan]
        /\ rTodo' = [rTodo EXCEPT ![r] = SetToSeq(ks)]
        /\ rSeen' = [rSeen EXCEPT ![r] = [k \in ks |-> tasks[k].attempts]]
        /\ executed' = executed + Cardinality(ks)
        /\ UNCHANGED <<whVars, checks, tasks, plans, crashed, rBusy, killed>>

\* The task is marked, in a transaction of its own, before its command is started.
BeginTask(r) ==
    LET k == rTodo[r][1]
    IN  /\ rTodo[r] # <<>> /\ ~rBusy[r]
        /\ tasks' = [tasks EXCEPT ![k].status = "RUNNING", ![k].attempts = rSeen[r][k] + 1]
        /\ rBusy' = [rBusy EXCEPT ![r] = TRUE]
        /\ UNCHANGED <<whVars, checks, plans, crashed, rPlan, rTodo, rSeen, executed, killed>>

\* The command ends.  Only `sla check` has all the arguments it needs; it checks yesterday,
\* whatever the day of the task.  The others end in a usage error.
Accepted(stage) == stage = "sla"
Ended(r, status, error) ==
    /\ rBusy[r]
    /\ tasks' = [tasks EXCEPT ![rTodo[r][1]].status = status, ![rTodo[r][1]].error = error]
    /\ rTodo' = [rTodo EXCEPT ![r] = Tail(@)]
    /\ rBusy' = [rBusy EXCEPT ![r] = FALSE]
    /\ UNCHANGED <<whVars, plans, crashed, rPlan, rSeen, executed, killed>>
EndTask(r) ==
    LET sla == Accepted(Stage(rTodo[r][1][3]))
        ok == sla /\ SlaExit(Yesterday) = 0
    IN  /\ Ended(r, IF ok THEN "SUCCEEDED" ELSE "FAILED",
                    IF ok THEN tasks[rTodo[r][1]].error ELSE IF sla THEN "exit 1" ELSE "usage")
        /\ checks' = IF sla THEN checks \cup Verdicts(Yesterday) ELSE checks

\* It takes more than an hour, or cannot be started.
LeftRunning(r) == "RUNNING"                                                \* mutant
TimedOut(r) == "FAILED"
TimeOut(r) == Ended(r, TimedOut(r), "timeout") /\ UNCHANGED checks

Gone(r) == /\ rPlan' = [rPlan EXCEPT ![r] = None]
           /\ rTodo' = [rTodo EXCEPT ![r] = <<>>]
           /\ rSeen' = [rSeen EXCEPT ![r] = Empty]
           /\ rBusy' = [rBusy EXCEPT ![r] = FALSE]
           /\ UNCHANGED <<whVars, checks, tasks, plans, crashed, executed>>
FinishRun(r) == rPlan[r] # None /\ rTodo[r] = <<>> /\ Gone(r) /\ UNCHANGED killed
\* The process goes away: a task it had marked stays RUNNING.
KillRun(r) == rTodo[r] # <<>> /\ ~killed /\ killed' = TRUE /\ Gone(r)

QaInit ==
    /\ checks = {} /\ tasks = Empty /\ plans = Empty /\ crashed = {} /\ executed = 0
    /\ rPlan = [r \in Runs |-> None] /\ rTodo = [r \in Runs |-> <<>>]
    /\ rSeen = [r \in Runs |-> Empty] /\ rBusy = [r \in Runs |-> FALSE] /\ killed = FALSE

QaNext ==
    \/ SlaCheck(Yesterday, FALSE)
    \/ \E plan \in Plans, q \in Requests : PlanBackfill(plan, q) \/ PlanCrashes(plan, q)
    \/ \E r \in Runs :
        \/ \E plan \in Plans : StartRun(r, plan)
        \/ BeginTask(r) \/ EndTask(r) \/ TimeOut(r) \/ FinishRun(r) \/ KillRun(r)

(***************************************************************************)
(* Properties                                                              *)
(***************************************************************************)
\* An SLA check that passes on a day whose dashboards are current has earned it: a dataset
\* without contract runs passes no policy with a minimum for them, nor does one whose
\* contract runs, or whose runs, all failed; and none passes on a day with more failed
\* workflows than the policy allows (sla.py: tables of different ages are combined).
PassIsEarned ==
    [][\A c \in checks' \ checks, w \in current :
        c[2] \in w[1]..w[2] /\ c[4] = "PASS" =>
            \E p \in Policies :
                /\ p.id = c[1]
                /\ p.minQc # NoLimit => Contracts(c[2], c[3]) # {}
                /\ p.minQc > 0 => ~Bad(Contracts(c[2], c[3]))
                /\ p.minEtl > 0 /\ Settled(w, c[2], c[3]) =>
                        EndStatuses(c[2], c[3]) # {} /\ ~Bad(EndStatuses(c[2], c[3]))
                /\ p.maxWf = 0 => \A x \in DOMAIN src.wf :
                                     src.wf[x].day = c[2] => src.wf[x].status # "FAILED"]_opsVars

\* However many processes run one plan, and however their commands end: once they are all
\* done, and none was killed, no task of it is RUNNING.
NothingLeftRunning ==
    (\A r \in Runs : rPlan[r] = None) /\ ~killed =>
        \A k \in DOMAIN tasks : tasks[k].status # "RUNNING"

=============================================================================
