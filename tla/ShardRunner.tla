---------------------------- MODULE ShardRunner ----------------------------
(***************************************************************************)
(* The sharded ETL of one plan: run_shard (sharding/shard_runner.py) for   *)
(* the shards of the plan, one step of the Argo workflow each, and         *)
(* merge_shard_summaries (sharding/merge.py) after them.                   *)
(*                                                                         *)
(* A shard runs etl_run for each of its datasets, one after the other or   *)
(* in a thread pool whose results the main thread collects as they         *)
(* complete; with --fail-fast it cancels what is still queued at the first *)
(* failure.  Then it writes shard_summary.json and closes its row.  A step *)
(* may crash and be run again, which starts it from nothing.               *)
(*                                                                         *)
(* The warehouse is soft: a write of the shard's row may be lost with a    *)
(* warning in the log.  The merge passes over a summary it cannot read,    *)
(* also with no more than a warning.                                       *)
(*                                                                         *)
(* etl_run is abstracted to its status (it never returns SKIPPED) and to   *)
(* whether the dataset's layers are in the lake afterwards.                *)
(***************************************************************************)
EXTENDS Naturals, FiniteSets

CONSTANTS
  Shards,       \* shard indices of the plan
  Steps,        \* shard indices the workflow has a step for
  Datasets,     \* the datasets of the plan
  ShardOf,      \* the shard of each dataset
  Rank,         \* the position of each dataset in its shard
  Threads,      \* --max-workers
  FailFastFlags, \* values of --fail-fast a workflow may be given
  MaxAttempts,  \* bound: times a step is run
  MaxFaults,    \* bound: steps that crash
  SchemaDrift,  \* TRUE: a row write may raise V15SchemaMissingError
  ByHand        \* TRUE: merge-summary may also be run by hand, at any time

ASSUME ShardAssumption ==
  /\ ShardOf \in [Datasets -> Shards]
  /\ Rank \in [Datasets -> Nat]
  /\ \A c, d \in Datasets : ShardOf[c] = ShardOf[d] /\ Rank[c] = Rank[d] => c = d
  /\ IsFiniteSet(Datasets)
  /\ Threads \in Nat \ {0}
  /\ MaxAttempts \in Nat /\ MaxFaults \in Nat
  /\ FailFastFlags \in SUBSET BOOLEAN
  /\ SchemaDrift \in BOOLEAN /\ ByHand \in BOOLEAN

VARIABLES
  failFast,  \* --fail-fast of this workflow
  pc,        \* where the main thread of each step is
  task,      \* the future of each dataset
  lake,      \* datasets whose layers are published
  runs,      \* the collected results of each step: ShardSummary.runs
  summary,   \* shard_summary.json of each step
  row,       \* etl_shards.status of each shard
  warned,    \* steps whose last run logged that its closing row write was lost
  exit,      \* exit status of the last run of each step
  merged,    \* the plan summary
  attempts,  \* times each step was run
  faults     \* crashes

steps == <<pc, task, lake, runs, exit>>
results == <<summary, row, warned>>
rest == <<failFast, merged, attempts, faults>>
vars == <<steps, results, rest>>

DatasetsOf(s) == {d \in Datasets : ShardOf[d] = s}
InPlan(s) == s \in Shards

\* A good run is one that etl_run calls OK or WARN: run_shard counts them alike.
Good == {"good"}
Done == Good \union {"FAIL", "raised"}
Task == {"none", "queued", "running", "cancelled"} \union Done

\* The results a summary lists, as sets of datasets.
Runs == [good: SUBSET Datasets, bad: SUBSET Datasets]
NoRuns == [good |-> {}, bad |-> {}]
ShardStatus == {"OK", "WARN", "FAIL", "SKIPPED"}
Summary == [status: {"none"} \union ShardStatus, runs: Runs, total: Nat]
NoSummary == [status |-> "none", runs |-> NoRuns, total |-> 0]
Merged == [good: SUBSET Datasets, bad: SUBSET Datasets, total: Nat,
           exit: {"none", "ok", "fail"}]
NotMerged == [good |-> {}, bad |-> {}, total |-> 0, exit |-> "none"]

Pc == {"idle", "collect", "cancel", "drain", "raise", "summary", "row"}

TypeOK ==
  /\ failFast \in FailFastFlags
  /\ pc \in [Steps -> Pc]
  /\ task \in [Datasets -> Task]
  /\ lake \in SUBSET Datasets
  /\ runs \in [Steps -> Runs]
  /\ summary \in [Steps -> Summary]
  /\ row \in [Steps -> {"none", "RUNNING"} \union ShardStatus]
  /\ warned \in SUBSET Steps
  /\ exit \in [Steps -> {"none", "ok", "fail"}]
  /\ merged \in Merged
  /\ attempts \in [Steps -> 0 .. MaxAttempts]
  /\ faults \in 0 .. MaxFaults

Init ==
  /\ failFast \in FailFastFlags
  /\ pc = [s \in Steps |-> "idle"]
  /\ task = [d \in Datasets |-> "none"]
  /\ lake = {}
  /\ runs = [s \in Steps |-> NoRuns]
  /\ summary = [s \in Steps |-> NoSummary]
  /\ row = [s \in Steps |-> "none"]
  /\ warned = {}
  /\ exit = [s \in Steps |-> "none"]
  /\ merged = NotMerged
  /\ attempts = [s \in Steps |-> 0]
  /\ faults = 0

-----------------------------------------------------------------------------
(* Helpers.                                                                *)

Goto(s, l) == pc' = [pc EXCEPT ![s] = l]
Tasks(s, states) == {d \in DatasetsOf(s) : task[d] \in states}
First(S) == {d \in S : \A e \in S : Rank[d] <= Rank[e]}

\* A pool is made for more than one worker and more than one dataset.
Pooled(s) == Threads > 1 /\ Cardinality(DatasetsOf(s)) > 1

\* Results that are there and not collected yet.
Collected(s) == runs[s].good \union runs[s].bad
Uncollected(s) == Tasks(s, Done) \ Collected(s)

\* FAIL if nothing succeeded, WARN if something failed.
FinalStatus(r) == CASE r.bad # {} /\ r.good = {} -> "FAIL"
                    [] r.bad # {} /\ r.good # {} -> "WARN"
                    [] OTHER -> "OK"

\* The exit status of etl run-shard, and of etl merge-summary.
ShardExit(status) == IF status = "FAIL" THEN "fail" ELSE "ok"
MergeExitZero(bad) == "ok"                                          \* mutant
MergeExit(bad) == IF bad = {} THEN "ok" ELSE "fail"

-----------------------------------------------------------------------------
(* run_shard, the main thread.                                             *)

\* The workflow starts a step, or somebody retries one that failed.
MayBegin(s) == /\ pc[s] = "idle"
               /\ exit[s] # "ok"
               /\ attempts[s] < MaxAttempts

\* The row is RUNNING, unless that write is lost, and all datasets are
\* submitted.
Begin(s) ==
  /\ MayBegin(s) /\ InPlan(s)
  /\ attempts' = [attempts EXCEPT ![s] = @ + 1]
  /\ row' \in {row, [row EXCEPT ![s] = "RUNNING"]}
  /\ task' = [d \in Datasets |-> IF ShardOf[d] = s THEN "queued" ELSE task[d]]
  /\ runs' = [runs EXCEPT ![s] = NoRuns]
  /\ exit' = [exit EXCEPT ![s] = "none"]
  /\ Goto(s, "collect")
  /\ UNCHANGED <<failFast, lake, summary, warned, merged, faults>>

\* A row write the schema does not fit raises also when the warehouse is soft:
\* run_shard ends before its first dataset.
BeginRaises(s) ==
  /\ MayBegin(s) /\ InPlan(s)
  /\ SchemaDrift
  /\ attempts' = [attempts EXCEPT ![s] = @ + 1]
  /\ exit' = [exit EXCEPT ![s] = "fail"]
  /\ UNCHANGED <<failFast, pc, task, lake, runs, results, merged, faults>>

\* No such shard in the plan: a SKIPPED summary, no row, exit 0.
Skip(s) ==
  /\ MayBegin(s) /\ ~InPlan(s)
  /\ attempts' = [attempts EXCEPT ![s] = @ + 1]
  /\ summary' = [summary EXCEPT
       ![s] = [status |-> "SKIPPED", runs |-> NoRuns, total |-> 0]]
  /\ exit' = [exit EXCEPT ![s] = "ok"]
  /\ UNCHANGED <<failFast, pc, task, lake, runs, row, warned, merged, faults>>

\* A thread takes the next dataset from the queue, also while the main thread
\* is cancelling or waits for the pool to shut down.  Without a pool the main
\* thread itself takes it, once the last result is counted.
StartTask(s) ==
  /\ pc[s] \in {"collect", "cancel", "drain", "raise"}
  /\ IF Pooled(s)
     THEN Cardinality(Tasks(s, {"running"})) < Threads
     ELSE /\ pc[s] = "collect"
          /\ Tasks(s, {"running"}) = {} /\ Uncollected(s) = {}
  /\ \E d \in First(Tasks(s, {"queued"})) :
       task' = [task EXCEPT ![d] = "running"]
  /\ UNCHANGED <<pc, lake, runs, exit, results, rest>>

\* etl_run returned, and the perf records were written, or raised.
FinishTask(d) ==
  /\ task[d] = "running"
  /\ \E out \in Good \union {"FAIL"} \union IF SchemaDrift THEN {"raised"} ELSE {} :
       /\ task' = [task EXCEPT ![d] = out]
       /\ \E kept \in IF out \in Good THEN {TRUE}
                      ELSE IF out = "raised" THEN BOOLEAN ELSE {FALSE} :
            lake' = IF kept THEN lake \union {d} ELSE lake
  /\ UNCHANGED <<pc, runs, exit, results, rest>>

\* The main thread counts a completed run; the first failure of a fail-fast
\* shard ends the loop, and an exception leaves run_shard.
CollectAnyAsGood(s) ==                                              \* mutant
  /\ pc[s] = "collect"
  /\ \E d \in Uncollected(s) :
       runs' = [runs EXCEPT ![s].good = @ \union {d}]
  /\ UNCHANGED <<pc, task, lake, exit, results, rest>>
Collect(s) ==
  /\ pc[s] = "collect"
  /\ \E d \in Uncollected(s) :
       IF task[d] = "raised"
       THEN Goto(s, "raise") /\ UNCHANGED runs
       ELSE /\ runs' = IF task[d] \in Good
                       THEN [runs EXCEPT ![s].good = @ \union {d}]
                       ELSE [runs EXCEPT ![s].bad = @ \union {d}]
            /\ Goto(s, IF failFast /\ task[d] = "FAIL" THEN "cancel" ELSE "collect")
  /\ UNCHANGED <<task, lake, exit, results, rest>>

\* Everything is counted.
CollectEnd(s) ==
  /\ pc[s] = "collect" /\ Collected(s) = DatasetsOf(s)
  /\ Goto(s, "summary")
  /\ UNCHANGED <<task, lake, runs, exit, results, rest>>

\* The loop over future_map: what is queued is cancelled, one at a time, what
\* runs goes on.
CancelGoesOn(s) ==                                                  \* mutant
  /\ pc[s] = "cancel"
  /\ \/ \E d \in First(Tasks(s, {"queued"})) :
          /\ task' = [task EXCEPT ![d] = "cancelled"]
          /\ UNCHANGED pc
     \/ /\ Tasks(s, {"queued"}) = {}
        /\ Goto(s, "collect")
        /\ UNCHANGED task
  /\ UNCHANGED <<lake, runs, exit, results, rest>>
Cancel(s) ==
  /\ pc[s] = "cancel"
  /\ \/ \E d \in First(Tasks(s, {"queued"})) :
          /\ task' = [task EXCEPT ![d] = "cancelled"]
          /\ UNCHANGED pc
     \/ /\ Tasks(s, {"queued"}) = {}
        /\ Goto(s, "drain")
        /\ UNCHANGED task
  /\ UNCHANGED <<lake, runs, exit, results, rest>>

\* The pool shuts down and waits; what its threads still finish is not
\* counted.
Drain(s) ==
  /\ pc[s] = "drain" /\ Tasks(s, {"running"}) = {}
  /\ Goto(s, "summary")
  /\ UNCHANGED <<task, lake, runs, exit, results, rest>>

\* The pool runs what is queued to its end before the exception gets out: no
\* summary, and the row stays RUNNING.  Without a pool it gets out at once.
RaiseOut(s) ==
  /\ pc[s] = "raise"
  /\ Pooled(s) => Tasks(s, {"queued", "running"}) = {}
  /\ exit' = [exit EXCEPT ![s] = "fail"]
  /\ Goto(s, "idle")
  /\ UNCHANGED <<task, lake, runs, results, rest>>

WriteSummary(s) ==
  /\ pc[s] = "summary"
  /\ summary' = [summary EXCEPT ![s] =
       [status |-> FinalStatus(runs[s]), runs |-> runs[s],
        total |-> Cardinality(DatasetsOf(s))]]
  /\ Goto(s, "row")
  /\ UNCHANGED <<task, lake, runs, row, warned, exit, rest>>

\* record_etl_shard closes the row, or loses it and warns; the exit status
\* follows the summary's either way.
FinishRow(s) ==
  /\ pc[s] = "row"
  /\ \/ /\ row' = [row EXCEPT ![s] = summary[s].status]
        /\ warned' = warned \ {s}
     \/ /\ warned' = warned \union {s}
        /\ UNCHANGED row
  /\ exit' = [exit EXCEPT ![s] = ShardExit(summary[s].status)]
  /\ Goto(s, "idle")
  /\ UNCHANGED <<task, lake, runs, summary, rest>>

\* The closing write raises: the summary is there, and the step fails.
FinishRaises(s) ==
  /\ pc[s] = "row" /\ SchemaDrift
  /\ exit' = [exit EXCEPT ![s] = "fail"]
  /\ Goto(s, "idle")
  /\ UNCHANGED <<task, lake, runs, results, rest>>

\* The pod is killed, its threads with it.
Crash(s) ==
  /\ pc[s] # "idle"
  /\ faults < MaxFaults
  /\ faults' = faults + 1
  /\ task' = [d \in Datasets |->
       IF ShardOf[d] = s /\ task[d] = "running" THEN "none" ELSE task[d]]
  /\ exit' = [exit EXCEPT ![s] = "fail"]
  /\ Goto(s, "idle")
  /\ UNCHANGED <<failFast, lake, runs, results, merged, attempts>>

-----------------------------------------------------------------------------
(* merge_shard_summaries.                                                  *)

\* The workflow's step depends on run-shard-0 && run-shard-1 && run-shard-2; a
\* merge by hand does not.  It adds up the summaries that are there (SKIPPED
\* ones included) and can be read; a summary's total is its shard's number of
\* datasets.  The exit status looks at the failures, not at expected_shards.
Found == {s \in Steps : summary[s].status # "none"}
MergedRuns(S) == [good |-> UNION {summary[s].runs.good : s \in S},
                  bad |-> UNION {summary[s].runs.bad : s \in S}]
Merge ==
  /\ ByHand \/ \A s \in Steps : exit[s] = "ok"
  /\ \E S \in SUBSET Found :
       merged' = [good |-> MergedRuns(S).good,
                  bad |-> MergedRuns(S).bad,
                  total |-> Cardinality({d \in Datasets : ShardOf[d] \in S}),
                  exit |-> MergeExit(MergedRuns(S).bad)]
  /\ UNCHANGED <<failFast, steps, results, attempts, faults>>

Main(s) == \/ Begin(s) \/ BeginRaises(s) \/ Skip(s) \/ Collect(s) \/ CollectEnd(s)
           \/ Cancel(s) \/ Drain(s) \/ RaiseOut(s)
           \/ WriteSummary(s) \/ FinishRow(s) \/ FinishRaises(s)

Next == \/ \E s \in Steps : Main(s) \/ StartTask(s) \/ Crash(s)
        \/ \E d \in Datasets : FinishTask(d)
        \/ Merge

Spec == Init /\ [][Next]_vars

\* The threads of a live pod make progress, a dataset's run ends, and the
\* workflow controller starts the steps that are ready.
FairSpec == /\ Spec
            /\ \A s \in Steps : WF_vars(Main(s)) /\ WF_vars(StartTask(s))
            /\ \A d \in Datasets : WF_vars(FinishTask(d))

-----------------------------------------------------------------------------
(* Properties.                                                             *)

\* A dataset that any summary counts as succeeded is in the lake, though
\* other runs failed, raised, were cancelled or crashed around it.
SucceededIsPublished ==
  /\ \A s \in Steps : summary[s].runs.good \subseteq lake
  /\ merged.good \subseteq lake

\* A green merge whose total is the plan's number of datasets means that every
\* dataset of the plan is published, whoever ran it and whenever: no run is
\* lost between the pool, the summaries and the merge, with or without
\* --fail-fast.  That the merge is green is not enough, for it passes over a
\* summary it could not read; nor are found_shards and expected_shards, which
\* may be equal when a SKIPPED summary makes up for an unread one.
GreenMergeIsComplete ==
  merged.exit = "ok" /\ merged.total = Cardinality(Datasets) => lake = Datasets

\* No thread of a step outlives it, and works against a retry: the pool is
\* drained before the summary, also after --fail-fast and an exception.
NoTaskOutlivesStep ==
  \A s \in Steps : pc[s] \in {"idle", "summary", "row"} => Tasks(s, {"running"}) = {}

\* Without --fail-fast a summary accounts for each dataset of its shard.
SummaryAccounts ==
  ~failFast => \A s \in Steps : summary[s].status \in ShardStatus =>
    Cardinality(summary[s].runs.good) + Cardinality(summary[s].runs.bad)
      = summary[s].total

\* A step that exited 0 has a summary that does not say FAIL, and of its
\* datasets, if it has any, at least one was not a failure.  Its row has been
\* closed with that verdict, unless the log says that this write was lost.
ExitMatchesRow ==
  \A s \in Steps : exit[s] = "ok" /\ InPlan(s) =>
    /\ summary[s].status \in {"OK", "WARN"}
    /\ DatasetsOf(s) # {} => summary[s].runs.good # {}
    /\ s \in warned \/ row[s] = summary[s].status

\* What a step leaves behind is true: its summary, its row, its exit status and the
\* absence of its threads (run_shard, and `etl run-shard` around it).
StepsAccount ==
  SucceededIsPublished /\ NoTaskOutlivesStep /\ SummaryAccounts /\ ExitMatchesRow

\* A step that has begun ends, whatever its datasets do.
StepsEnd == \A s \in Steps : pc[s] # "idle" ~> pc[s] = "idle"
=============================================================================
