------------------------- MODULE ShardRunnerProofs -------------------------
(***************************************************************************)
(* Type correctness, StepsAccount and GreenMergeIsComplete of ShardRunner  *)
(* for any plan, any number of threads and attempts, and any crashes.      *)
(*                                                                         *)
(* The invariant follows a result on its way: from the thread that ends    *)
(* (Published), to the main thread that counts it (Counted), and through   *)
(* the end of its loop into summary, row and exit status (Told).           *)
(***************************************************************************)
EXTENDS ShardRunner, TLAPS, FiniteSetTheorems

Verdicts == {"OK", "WARN", "FAIL"}

\* A task that is good has left its layers in the lake, and only such tasks are called good.
Published ==
  /\ \A d \in Datasets : task[d] \in Good => d \in lake
  /\ \A s \in Steps : runs[s].good \subseteq lake
  /\ SucceededIsPublished

\* Without a pool at most one dataset of a step is between queue and count.
OneAtATime(s) ==
  ~Pooled(s) => \A c, d \in Tasks(s, {"running"}) \cup Uncollected(s) : c = d

\* Only results of ended tasks are counted, each once, and no thread works on when the
\* main thread has left its pool.
CountedAt(s) ==
  /\ Collected(s) \subseteq Tasks(s, Done)
  /\ runs[s].good \cap runs[s].bad = {}
  /\ OneAtATime(s)
  /\ ~Pooled(s) /\ pc[s] \in {"cancel", "drain", "raise"} => Tasks(s, {"running"}) = {}
  /\ pc[s] \in {"idle", "summary", "row"} => Tasks(s, {"running"}) = {}

Counted == \A s \in Steps : CountedAt(s)

\* Results cover a shard, unless --fail-fast stopped at a failure.
Covers(s, r) ==
  /\ r.good \cap r.bad = {}
  /\ r.bad = {} \/ ~failFast => r.good \cup r.bad = DatasetsOf(s)

ControlAt(s) ==
  /\ pc[s] # "idle" => InPlan(s) /\ exit[s] = "none"
  /\ pc[s] \in {"cancel", "drain"} => failFast /\ runs[s].bad # {}
  /\ pc[s] = "summary" => Covers(s, runs[s])
  /\ pc[s] = "row" => summary[s].status \in Verdicts

ToldAt(s) ==
  /\ summary[s].status \in Verdicts =>
       /\ Covers(s, summary[s].runs) /\ summary[s].status = FinalStatus(summary[s].runs)
       /\ summary[s].total = Cardinality(DatasetsOf(s))
  /\ summary[s].status = "SKIPPED" => ~InPlan(s) /\ summary[s].runs = NoRuns /\ summary[s].total = 0
  /\ exit[s] = "ok" /\ InPlan(s) => /\ s \in warned \/ row[s] = summary[s].status
                                   /\ summary[s].status \in {"OK", "WARN"}

Told == \A s \in Steps : ControlAt(s) /\ ToldAt(s)

IInv == TypeOK /\ Published /\ Counted /\ Told /\ GreenMergeIsComplete

-----------------------------------------------------------------------------
(* Type correctness.                                                       *)

LEMMA RunsAreRuns ==
  ASSUME TypeOK, NEW s \in Steps
  PROVE  /\ runs[s].good \subseteq Datasets /\ runs[s].bad \subseteq Datasets
         /\ summary[s].runs.good \subseteq Datasets /\ summary[s].runs.bad \subseteq Datasets
BY DEF TypeOK, Runs, Summary

\* What a summary is given is a status (run_shard).
LEMMA FinalStatusIsVerdict == ASSUME NEW r PROVE FinalStatus(r) \in Verdicts
BY DEF FinalStatus, Verdicts

\* One result is counted, on the one side or the other (run_shard).
LEMMA CollectCounts ==
  ASSUME TypeOK, NEW s \in Steps, Collect(s)
  PROVE  \E d \in Uncollected(s) :
           \/ task[d] = "raised" /\ pc' = [pc EXCEPT ![s] = "raise"] /\ UNCHANGED runs
           \/ /\ task[d] \in Good /\ pc' = [pc EXCEPT ![s] = "collect"]
              /\ runs' = [runs EXCEPT ![s] = [good |-> runs[s].good \cup {d}, bad |-> runs[s].bad]]
           \/ /\ task[d] \notin Good /\ task[d] # "raised"
              /\ pc' = [pc EXCEPT ![s] = IF failFast /\ task[d] = "FAIL" THEN "cancel" ELSE "collect"]
              /\ runs' = [runs EXCEPT ![s] = [good |-> runs[s].good, bad |-> runs[s].bad \cup {d}]]
<1>1. PICK d \in Uncollected(s) :
         IF task[d] = "raised"
         THEN Goto(s, "raise") /\ UNCHANGED runs
         ELSE /\ runs' = IF task[d] \in Good
                         THEN [runs EXCEPT ![s].good = @ \union {d}]
                         ELSE [runs EXCEPT ![s].bad = @ \union {d}]
              /\ Goto(s, IF failFast /\ task[d] = "FAIL" THEN "cancel" ELSE "collect")
  BY DEF Collect
<1>2. runs \in [Steps -> Runs] /\ runs[s] = [good |-> runs[s].good, bad |-> runs[s].bad]
  BY DEF TypeOK, Runs
<1>3. CASE task[d] = "raised"
  BY <1>1, <1>3 DEF Goto
<1>4. CASE task[d] \in Good
  <2>1. runs' = [runs EXCEPT ![s] = [runs[s] EXCEPT !.good = runs[s].good \cup {d}]]
    BY <1>1, <1>2, <1>4 DEF Good
  <2>2. [runs[s] EXCEPT !.good = runs[s].good \cup {d}] = [good |-> runs[s].good \cup {d}, bad |-> runs[s].bad]
    BY <1>2
  <2> QED  BY <1>1, <1>4, <2>1, <2>2 DEF Goto, Good
<1>5. CASE task[d] \notin Good /\ task[d] # "raised"
  <2>1. runs' = [runs EXCEPT ![s] = [runs[s] EXCEPT !.bad = runs[s].bad \cup {d}]]
    BY <1>1, <1>2, <1>5
  <2>2. [runs[s] EXCEPT !.bad = runs[s].bad \cup {d}] = [good |-> runs[s].good, bad |-> runs[s].bad \cup {d}]
    BY <1>2
  <2> QED  BY <1>1, <1>5, <2>1, <2>2 DEF Goto
<1> QED  BY <1>3, <1>4, <1>5

LEMMA NextKeepsTypes == ASSUME TypeOK, [Next]_vars PROVE TypeOK'
<1> USE ShardAssumption
<1>1. ASSUME NEW s \in Steps, NEW l \in Pc, Goto(s, l) PROVE pc' \in [Steps -> Pc]
  BY <1>1 DEF Goto, TypeOK
<1>2. ASSUME NEW s \in Steps, Begin(s) PROVE TypeOK'
  <2>1. pc' \in [Steps -> Pc]
    BY <1>1, <1>2 DEF Begin, Pc
  <2>2. task' \in [Datasets -> Task] /\ runs' \in [Steps -> Runs] /\ attempts' \in [Steps -> 0 .. MaxAttempts]
    BY <1>2 DEF Begin, MayBegin, TypeOK, Task, Runs, NoRuns
  <2>3. row' \in [Steps -> {"none", "RUNNING"} \cup ShardStatus] /\ exit' \in [Steps -> {"none", "ok", "fail"}]
    BY <1>2 DEF Begin, TypeOK
  <2> QED  BY <1>2, <2>1, <2>2, <2>3 DEF Begin, TypeOK
<1>20. ASSUME NEW s \in Steps, BeginRaises(s) \/ FinishRaises(s) PROVE TypeOK'
  <2>1. pc' \in [Steps -> Pc]
    BY <1>1, <1>20 DEF BeginRaises, FinishRaises, Pc, TypeOK
  <2>2. exit' \in [Steps -> {"none", "ok", "fail"}]
    BY <1>20 DEF BeginRaises, FinishRaises, TypeOK
  <2>3. attempts' \in [Steps -> 0 .. MaxAttempts]
    BY <1>20 DEF BeginRaises, FinishRaises, MayBegin, TypeOK, rest
  <2> QED  BY <1>20, <2>1, <2>2, <2>3 DEF BeginRaises, FinishRaises, TypeOK, results, rest
<1>3. ASSUME NEW s \in Steps, Skip(s) PROVE TypeOK'
  <2>1. summary' \in [Steps -> Summary] /\ attempts' \in [Steps -> 0 .. MaxAttempts]
    BY <1>3 DEF Skip, MayBegin, TypeOK, Summary, ShardStatus, Runs, NoRuns
  <2> QED  BY <1>3, <2>1 DEF Skip, TypeOK
<1>4. ASSUME NEW s \in Steps, StartTask(s) PROVE TypeOK'
  BY <1>4 DEF StartTask, TypeOK, Task, results, rest
<1>5. ASSUME NEW d \in Datasets, FinishTask(d) PROVE TypeOK'
  <2>1. task' \in [Datasets -> Task]
    BY <1>5 DEF FinishTask, TypeOK, Task, Done, Good
  <2>2. lake' \in SUBSET Datasets
    BY <1>5 DEF FinishTask, TypeOK
  <2> QED  BY <1>5, <2>1, <2>2 DEF FinishTask, TypeOK, results, rest
<1>6. ASSUME NEW s \in Steps, Collect(s) PROVE TypeOK'
  <2>1. Uncollected(s) \subseteq Datasets /\ runs[s].good \subseteq Datasets /\ runs[s].bad \subseteq Datasets
    BY RunsAreRuns DEF Uncollected, Tasks, DatasetsOf
  <2>2. PICK l, r : l \in Pc /\ r \in Runs /\ pc' = [pc EXCEPT ![s] = l] /\ runs' \in {runs, [runs EXCEPT ![s] = r]}
    <3>1. runs[s] \in Runs /\ \A d \in Uncollected(s) :
            /\ [good |-> runs[s].good \cup {d}, bad |-> runs[s].bad] \in Runs
            /\ [good |-> runs[s].good, bad |-> runs[s].bad \cup {d}] \in Runs
      BY <2>1 DEF TypeOK, Runs
    <3> QED  BY <1>6, <3>1, CollectCounts DEF Pc
  <2>3. runs' \in [Steps -> Runs]
    BY <2>2 DEF TypeOK
  <2>4. pc' \in [Steps -> Pc]
    BY <2>2 DEF TypeOK
  <2> QED  BY <1>6, <2>3, <2>4 DEF Collect, TypeOK, results, rest
<1>7. ASSUME NEW s \in Steps, CollectEnd(s) \/ Drain(s) PROVE TypeOK'
  <2>1. pc' \in [Steps -> Pc]
    BY <1>1, <1>7 DEF CollectEnd, Drain, Pc
  <2> QED  BY <1>7, <2>1 DEF CollectEnd, Drain, TypeOK, results, rest
<1>8. ASSUME NEW s \in Steps, Cancel(s) PROVE TypeOK'
  <2>1. pc' \in [Steps -> Pc] /\ task' \in [Datasets -> Task]
    BY <1>1, <1>8 DEF Cancel, TypeOK, Pc, Task
  <2> QED  BY <1>8, <2>1 DEF Cancel, TypeOK, results, rest
<1>9. ASSUME NEW s \in Steps, RaiseOut(s) PROVE TypeOK'
  <2>1. pc' \in [Steps -> Pc]
    BY <1>1, <1>9 DEF RaiseOut, Pc
  <2> QED  BY <1>9, <2>1 DEF RaiseOut, TypeOK, results, rest
<1>10. ASSUME NEW s \in Steps, WriteSummary(s) PROVE TypeOK'
  <2>1. Cardinality(DatasetsOf(s)) \in Nat
    BY FS_Subset, FS_CardinalityType DEF DatasetsOf
  <2>2. summary' \in [Steps -> Summary]
    BY <1>10, <2>1, FinalStatusIsVerdict DEF WriteSummary, TypeOK, Summary, ShardStatus, Verdicts
  <2>3. pc' \in [Steps -> Pc]
    BY <1>1, <1>10 DEF WriteSummary, Pc
  <2> QED  BY <1>10, <2>2, <2>3 DEF WriteSummary, TypeOK, rest
<1>11. ASSUME NEW s \in Steps, FinishRow(s) PROVE TypeOK'
  <2>1. pc' \in [Steps -> Pc]
    BY <1>1, <1>11 DEF FinishRow, Pc
  <2>2. row' \in [Steps -> {"none", "RUNNING"} \cup ShardStatus] /\ exit' \in [Steps -> {"none", "ok", "fail"}]
    BY <1>11 DEF FinishRow, TypeOK, Summary, ShardExit
  <2>3. warned' \in SUBSET Steps
    BY <1>11 DEF FinishRow, TypeOK
  <2> QED  BY <1>11, <2>1, <2>2, <2>3 DEF FinishRow, TypeOK, rest
<1>12. ASSUME NEW s \in Steps, Crash(s) PROVE TypeOK'
  <2>1. pc' \in [Steps -> Pc] /\ task' \in [Datasets -> Task]
    BY <1>1, <1>12 DEF Crash, TypeOK, Pc, Task
  <2>2. exit' \in [Steps -> {"none", "ok", "fail"}] /\ faults' \in 0 .. MaxFaults
    BY <1>12 DEF Crash, TypeOK
  <2> QED  BY <1>12, <2>1, <2>2 DEF Crash, TypeOK, results
<1>13. ASSUME Merge PROVE TypeOK'
  <2>1. PICK S \in SUBSET Found :
          merged' = [good |-> MergedRuns(S).good, bad |-> MergedRuns(S).bad,
                     total |-> Cardinality({d \in Datasets : ShardOf[d] \in S}),
                     exit |-> MergeExit(MergedRuns(S).bad)]
    BY <1>13 DEF Merge
  <2>2. MergedRuns(S).good \subseteq Datasets /\ MergedRuns(S).bad \subseteq Datasets
    BY <2>1, RunsAreRuns DEF MergedRuns, Found
  <2>3. Cardinality({d \in Datasets : ShardOf[d] \in S}) \in Nat
    BY FS_Subset, FS_CardinalityType
  <2>4. merged' \in Merged
    BY <2>1, <2>2, <2>3 DEF Merged, MergeExit
  <2> QED  BY <1>13, <2>4 DEF Merge, TypeOK, steps, results
<1>14. CASE UNCHANGED vars
  BY <1>14 DEF vars, steps, results, rest, TypeOK
<1> QED
  BY <1>2, <1>3, <1>4, <1>5, <1>6, <1>7, <1>8, <1>9, <1>10, <1>11, <1>12, <1>13, <1>14, <1>20
     DEF Next, Main

-----------------------------------------------------------------------------
(* What is called good is published.                                       *)

LEMMA NextKeepsPublished == ASSUME TypeOK, Published, [Next]_vars PROVE Published'
<1>1. ASSUME NEW s \in Steps, Begin(s) PROVE Published'
  <2>1. UNCHANGED <<lake, summary, merged>> /\ \A t \in Steps : runs'[t].good \subseteq runs[t].good
    BY <1>1 DEF Begin, TypeOK, NoRuns
  <2>2. \A d \in Datasets : task'[d] \in Good => task[d] \in Good
    BY <1>1 DEF Begin, Good
  <2> QED  BY <2>1, <2>2 DEF Published, SucceededIsPublished
<1>2. ASSUME NEW s \in Steps, Skip(s) PROVE Published'
  <2>1. UNCHANGED <<task, lake, runs, merged>> /\ \A t \in Steps : summary'[t].runs.good \subseteq summary[t].runs.good
    BY <1>2 DEF Skip, TypeOK, NoRuns
  <2> QED  BY <2>1 DEF Published, SucceededIsPublished
<1>3. ASSUME NEW d \in Datasets, FinishTask(d) PROVE Published'
  <2>1. /\ UNCHANGED <<runs, summary, merged>> /\ lake \subseteq lake'
        /\ \A c \in Datasets : c # d => task'[c] = task[c]
        /\ task'[d] \in Good => d \in lake'
    BY <1>3 DEF FinishTask, TypeOK, results, rest
  <2> QED  BY <2>1 DEF Published, SucceededIsPublished
<1>4. ASSUME NEW s \in Steps, Collect(s) PROVE Published'
  <2>1. PICK d \in Uncollected(s) :
           \A t \in Steps : runs'[t].good \subseteq runs[t].good \cup (IF task[d] \in Good THEN {d} ELSE {})
    BY <1>4, CollectCounts DEF TypeOK
  <2>2. d \in Datasets /\ UNCHANGED <<task, lake, summary, merged>>
    BY <1>4 DEF Collect, Uncollected, Tasks, DatasetsOf, results, rest
  <2> QED  BY <2>1, <2>2 DEF Published, SucceededIsPublished
<1>5. ASSUME NEW s \in Steps, WriteSummary(s) PROVE Published'
  <2>1. \A t \in Steps : summary'[t].runs.good \in {summary[t].runs.good, runs[t].good}
    BY <1>5 DEF WriteSummary, TypeOK
  <2> QED  BY <1>5, <2>1 DEF WriteSummary, Published, SucceededIsPublished, rest
<1>6. ASSUME Merge PROVE Published'
  <2>1. PICK S \in SUBSET Steps : merged'.good = UNION {summary[s].runs.good : s \in S}
    BY <1>6 DEF Merge, MergedRuns, Found
  <2>2. merged'.good \subseteq lake
    BY <2>1 DEF Published, SucceededIsPublished
  <2> QED  BY <1>6, <2>2 DEF Merge, Published, SucceededIsPublished, steps, results
<1>7. ASSUME NEW s \in Steps, StartTask(s) \/ Cancel(s) \/ Crash(s) PROVE Published'
  <2>1. UNCHANGED <<lake, runs, summary, merged>> /\ \A d \in Datasets : task'[d] \in Good => task[d] \in Good
    BY <1>7 DEF StartTask, Cancel, Crash, Good, TypeOK, results, rest
  <2> QED  BY <2>1 DEF Published, SucceededIsPublished
<1>8. CASE UNCHANGED vars \/ \E s \in Steps : \/ CollectEnd(s) \/ Drain(s) \/ RaiseOut(s) \/ FinishRow(s)
                                             \/ BeginRaises(s) \/ FinishRaises(s)
  <2>1. UNCHANGED <<task, lake, runs, summary, merged>>
    BY <1>8 DEF BeginRaises, FinishRaises, CollectEnd, Drain, RaiseOut, FinishRow, vars, steps, results, rest
  <2> QED  BY <2>1 DEF Published, SucceededIsPublished
<1> QED
  BY <1>1, <1>2, <1>3, <1>4, <1>5, <1>6, <1>7, <1>8 DEF Next, Main

-----------------------------------------------------------------------------
(* What is counted.                                                        *)

\* What concerns other steps only leaves the count of this one alone.
LEMMA OthersLeaveCount ==
  ASSUME NEW s, CountedAt(s), pc'[s] = pc[s], runs'[s] = runs[s],
         \A d \in DatasetsOf(s) : task'[d] = task[d]
  PROVE  CountedAt(s)'
<1>1. Collected(s)' = Collected(s)
  BY DEF Collected
<1>2. \A X : {d \in DatasetsOf(s) : task'[d] \in X} = {d \in DatasetsOf(s) : task[d] \in X}
  OBVIOUS
<1>3. Tasks(s, Done)' = Tasks(s, Done) /\ Tasks(s, {"running"})' = Tasks(s, {"running"})
  BY <1>2 DEF Tasks, DatasetsOf
<1>4. Uncollected(s)' = Uncollected(s)
  BY <1>1, <1>3 DEF Uncollected
<1>5. Pooled(s)' = Pooled(s)
  BY DEF Pooled, DatasetsOf
<1> HIDE DEF Collected, Tasks, Uncollected, Pooled
<1> QED  BY <1>1, <1>3, <1>4, <1>5 DEF CountedAt, OneAtATime

LEMMA NextKeepsCounted == ASSUME TypeOK, Counted, [Next]_vars PROVE Counted'
<1> SUFFICES ASSUME NEW s \in Steps PROVE CountedAt(s)'
  BY DEF Counted
<1>1. CountedAt(s) /\ pc \in [Steps -> Pc] /\ task \in [Datasets -> Task] /\ runs \in [Steps -> Runs]
  BY DEF Counted, TypeOK
<1>2. ASSUME NEW t \in Steps, t # s, Main(t) \/ StartTask(t) \/ Crash(t) PROVE CountedAt(s)'
  <2>1. \A d \in DatasetsOf(s) : d \in Datasets /\ d \notin DatasetsOf(t)
    BY <1>2 DEF DatasetsOf
  <2>2. pc'[s] = pc[s] /\ runs'[s] = runs[s]
    <3>1. CASE Collect(t)
      BY <1>1, <1>2, <3>1, CollectCounts
    <3>2. CASE ~Collect(t)
      BY <1>1, <1>2, <3>2 DEF Main, Begin, BeginRaises, FinishRaises, Skip, CollectEnd, Cancel, Drain, RaiseOut, WriteSummary,
                              FinishRow, StartTask, Crash, Goto
    <3> QED  BY <3>1, <3>2
  <2>3. \A d \in DatasetsOf(s) : task'[d] = task[d]
    BY <1>1, <1>2, <2>1 DEF Main, Begin, BeginRaises, FinishRaises, Skip, Collect, CollectEnd, Cancel, Drain, RaiseOut, WriteSummary,
                            FinishRow, StartTask, Crash, First, Tasks, DatasetsOf
  <2> QED  BY <1>1, <2>2, <2>3, OthersLeaveCount
<1> USE DEF CountedAt, OneAtATime
<1>3. CASE Begin(s)
  <2>1. /\ runs'[s] = NoRuns /\ \A d \in DatasetsOf(s) : task'[d] = "queued"
        /\ pc'[s] = "collect"
    BY <1>1, <1>3 DEF Begin, Goto, DatasetsOf
  <2>2. Collected(s)' = {}
    BY <2>1 DEF Collected, NoRuns
  <2>3. \A X : "queued" \notin X => Tasks(s, X)' = {}
    BY <2>1 DEF Tasks, DatasetsOf
  <2>4. Tasks(s, {"running"})' = {} /\ Uncollected(s)' = {}
    BY <2>3 DEF Uncollected, Done, Good
  <2> QED  BY <2>1, <2>2, <2>4 DEF NoRuns
<1>4. CASE Skip(s) \/ BeginRaises(s)
  BY <1>1, <1>4, OthersLeaveCount DEF Skip, BeginRaises
<1>5. CASE StartTask(s)
  <2>1. PICK d \in Tasks(s, {"queued"}) :
           task' = [task EXCEPT ![d] = "running"]
    BY <1>5 DEF StartTask, First
  <2>2. /\ d \in DatasetsOf(s) /\ d \in Datasets /\ task[d] = "queued"
        /\ UNCHANGED <<pc, runs>>
        /\ ~Pooled(s) => pc[s] = "collect" /\ Tasks(s, {"running"}) = {} /\ Uncollected(s) = {}
        /\ pc[s] \in {"collect", "cancel", "drain", "raise"}
    BY <1>5 DEF StartTask, Tasks, DatasetsOf
  <2>3. Tasks(s, {"running"})' = Tasks(s, {"running"}) \cup {d} /\ Tasks(s, Done)' = Tasks(s, Done)
    BY <1>1, <2>1, <2>2 DEF Tasks, DatasetsOf, Done, Good
  <2>4. Collected(s)' = Collected(s) /\ Uncollected(s)' = Uncollected(s) /\ Pooled(s)' = Pooled(s)
    BY <2>2, <2>3 DEF Collected, Uncollected, Pooled, DatasetsOf
  <2> HIDE DEF Pooled
  <2> QED  BY <1>1, <2>2, <2>3, <2>4
<1>6. ASSUME NEW d \in Datasets, FinishTask(d) PROVE CountedAt(s)'
  <2>1. PICK out \in Done : task[d] = "running" /\ task' = [task EXCEPT ![d] = out] /\ UNCHANGED <<pc, runs>>
    BY <1>6 DEF FinishTask, Done
  <2>2. CASE d \notin DatasetsOf(s)
    BY <1>1, <2>1, <2>2, OthersLeaveCount DEF DatasetsOf
  <2>3. CASE d \in DatasetsOf(s)
    <3>1. /\ Tasks(s, {"running"})' = Tasks(s, {"running"}) \ {d} /\ d \in Tasks(s, {"running"})
          /\ Tasks(s, Done)' = Tasks(s, Done) \cup {d} /\ d \notin Tasks(s, Done)
      BY <1>1, <2>1, <2>3 DEF Tasks, DatasetsOf, Done, Good
    <3>2. Collected(s)' = Collected(s) /\ Uncollected(s)' = Uncollected(s) \cup {d} /\ Pooled(s)' = Pooled(s)
      BY <1>1, <2>1, <3>1 DEF Collected, Uncollected, Pooled, DatasetsOf
    <3> QED  BY <1>1, <2>1, <3>1, <3>2
  <2> QED  BY <2>2, <2>3
<1>7. CASE Collect(s)
  <2>1. PICK d \in Uncollected(s) :
           \/ pc' = [pc EXCEPT ![s] = "raise"] /\ UNCHANGED runs
           \/ \E l \in {"cancel", "collect"} :
                pc' = [pc EXCEPT ![s] = l]
                /\ \/ runs' = [runs EXCEPT ![s] = [good |-> runs[s].good \cup {d}, bad |-> runs[s].bad]]
                   \/ runs' = [runs EXCEPT ![s] = [good |-> runs[s].good, bad |-> runs[s].bad \cup {d}]]
    BY <1>7, CollectCounts
  <2>2. UNCHANGED task
    BY <1>7 DEF Collect
  <2>3. d \in Tasks(s, Done) /\ d \notin Collected(s) /\ d \notin Tasks(s, {"running"})
    BY DEF Uncollected, Tasks, Done, Good
  <2>4. Tasks(s, {"running"})' = Tasks(s, {"running"}) /\ Tasks(s, Done)' = Tasks(s, Done) /\ Pooled(s)' = Pooled(s)
    BY <2>2 DEF Tasks, DatasetsOf, Pooled
  <2>5. Collected(s)' \subseteq Collected(s) \cup {d} /\ Collected(s) \subseteq Collected(s)'
        /\ runs'[s].good \cap runs'[s].bad = {}
    BY <1>1, <2>1, <2>3 DEF Collected
  <2>6. Uncollected(s)' \subseteq Uncollected(s)
    BY <2>4, <2>5 DEF Uncollected
  <2>7. ~Pooled(s) => Tasks(s, {"running"}) = {}
    BY <1>1, <2>3
  <2>8. pc'[s] \in {"raise", "cancel", "collect"}
    BY <1>1, <2>1
  <2> HIDE DEF Pooled
  <2> QED  BY <1>1, <2>3, <2>4, <2>5, <2>6, <2>7, <2>8
<1>8. CASE CollectEnd(s)
  <2>1. pc'[s] = "summary" /\ UNCHANGED <<task, runs>> /\ Collected(s) = DatasetsOf(s)
    BY <1>1, <1>8 DEF CollectEnd, Goto
  <2>2. Tasks(s, {"running"}) = {}
    BY <1>1, <2>1 DEF Tasks, Done, Good
  <2>3. /\ Tasks(s, {"running"})' = Tasks(s, {"running"}) /\ Tasks(s, Done)' = Tasks(s, Done)
        /\ Pooled(s)' = Pooled(s) /\ Collected(s)' = Collected(s) /\ Uncollected(s)' = Uncollected(s)
    BY <2>1 DEF Tasks, DatasetsOf, Pooled, Collected, Uncollected
  <2> QED  BY <1>1, <2>1, <2>2, <2>3
<1>9. CASE Cancel(s)
  <2>1. CASE \E d \in Tasks(s, {"queued"}) : task' = [task EXCEPT ![d] = "cancelled"] /\ UNCHANGED pc
    <3>1. PICK d \in Tasks(s, {"queued"}) : task' = [task EXCEPT ![d] = "cancelled"] /\ UNCHANGED pc
      BY <2>1
    <3>2. Tasks(s, {"running"})' = Tasks(s, {"running"}) /\ Tasks(s, Done)' = Tasks(s, Done)
      BY <1>1, <3>1 DEF Tasks, DatasetsOf, Done, Good
    <3>3. Pooled(s)' = Pooled(s) /\ Collected(s)' = Collected(s) /\ Uncollected(s)' = Uncollected(s) /\ UNCHANGED runs
      BY <1>9, <3>2 DEF Cancel, Pooled, DatasetsOf, Collected, Uncollected
    <3> QED  BY <1>1, <3>1, <3>2, <3>3
  <2>2. CASE Goto(s, "drain") /\ UNCHANGED task
    <3>1. pc[s] = "cancel" /\ pc'[s] = "drain" /\ UNCHANGED <<task, runs>>
      BY <1>1, <1>9, <2>2 DEF Cancel, Goto
    <3>2. /\ Tasks(s, {"running"})' = Tasks(s, {"running"}) /\ Tasks(s, Done)' = Tasks(s, Done)
          /\ Pooled(s)' = Pooled(s) /\ Collected(s)' = Collected(s) /\ Uncollected(s)' = Uncollected(s)
      BY <3>1 DEF Tasks, DatasetsOf, Pooled, Collected, Uncollected
    <3> QED  BY <1>1, <3>1, <3>2
  <2> QED  BY <1>9, <2>1, <2>2 DEF Cancel, First
<1>10. CASE Drain(s) \/ RaiseOut(s) \/ WriteSummary(s) \/ FinishRow(s) \/ FinishRaises(s)
  <2>1. UNCHANGED <<task, runs>> /\ pc'[s] \in {"summary", "idle", "row"} /\ Tasks(s, {"running"}) = {}
    <3>1. CASE Drain(s)
      BY <1>1, <3>1 DEF Drain, Goto
    <3>2. CASE RaiseOut(s)
      <4>1. Pooled(s) => Tasks(s, {"queued", "running"}) = {}
        BY <3>2 DEF RaiseOut
      <4>2. Tasks(s, {"running"}) \subseteq Tasks(s, {"queued", "running"})
        BY DEF Tasks
      <4> QED  BY <1>1, <3>2, <4>1, <4>2 DEF RaiseOut, Goto
    <3>3. CASE WriteSummary(s) \/ FinishRow(s) \/ FinishRaises(s)
      BY <1>1, <3>3 DEF WriteSummary, FinishRow, FinishRaises, Goto
    <3> QED  BY <1>10, <3>1, <3>2, <3>3
  <2>2. /\ Tasks(s, {"running"})' = Tasks(s, {"running"}) /\ Tasks(s, Done)' = Tasks(s, Done)
        /\ Pooled(s)' = Pooled(s) /\ Collected(s)' = Collected(s) /\ Uncollected(s)' = Uncollected(s)
    BY <2>1 DEF Tasks, DatasetsOf, Pooled, Collected, Uncollected
  <2> QED  BY <1>1, <2>1, <2>2
<1>11. CASE Crash(s)
  <2>1. /\ UNCHANGED runs /\ pc'[s] = "idle"
        /\ \A d \in DatasetsOf(s) : task'[d] = IF task[d] = "running" THEN "none" ELSE task[d]
    BY <1>1, <1>11 DEF Crash, Goto, DatasetsOf
  <2>2. Tasks(s, {"running"})' = {} /\ Tasks(s, Done)' = Tasks(s, Done)
    BY <2>1 DEF Tasks, DatasetsOf, Done, Good
  <2>3. Pooled(s)' = Pooled(s) /\ Collected(s)' = Collected(s) /\ Uncollected(s)' = Uncollected(s)
    BY <2>1, <2>2 DEF DatasetsOf, Pooled, Collected, Uncollected
  <2> QED  BY <1>1, <2>1, <2>2, <2>3
<1>12. CASE Merge \/ UNCHANGED vars
  <2>1. UNCHANGED <<pc, task, runs>>
    BY <1>12 DEF Merge, vars, steps
  <2> QED  BY <1>1, <2>1, OthersLeaveCount
<1> QED
  BY <1>2, <1>3, <1>4, <1>5, <1>6, <1>7, <1>8, <1>9, <1>10, <1>11, <1>12 DEF Next, Main

-----------------------------------------------------------------------------
(* What is told.                                                           *)

LEMMA NextKeepsTold == ASSUME TypeOK, Counted, Told, [Next]_vars PROVE Told'
<1> SUFFICES ASSUME NEW s \in Steps PROVE ControlAt(s)' /\ ToldAt(s)'
  BY DEF Told
<1>1. /\ pc \in [Steps -> Pc] /\ runs \in [Steps -> Runs] /\ summary \in [Steps -> Summary]
      /\ exit \in [Steps -> {"none", "ok", "fail"}] /\ row \in [Steps -> {"none", "RUNNING"} \cup ShardStatus]
  BY DEF TypeOK
<1>2. ControlAt(s) /\ ToldAt(s)
  BY DEF Told
<1>3. UNCHANGED failFast
  BY DEF Next, Main, Begin, BeginRaises, FinishRaises, Skip, Collect, CollectEnd, Cancel, Drain, RaiseOut, WriteSummary, FinishRow,
         StartTask, FinishTask, Crash, Merge, vars, rest
<1>4. \A r : Covers(s, r)' = Covers(s, r)
  BY <1>3 DEF Covers, DatasetsOf
<1>5. ASSUME UNCHANGED <<pc[s], runs[s], exit[s], summary[s], row[s], (s \in warned)>> PROVE ControlAt(s)' /\ ToldAt(s)'
  BY <1>2, <1>3, <1>4, <1>5 DEF ControlAt, ToldAt, InPlan, DatasetsOf
<1>6. ASSUME NEW t \in Steps, t # s, Main(t) PROVE ControlAt(s)' /\ ToldAt(s)'
  <2>1. pc'[s] = pc[s] /\ runs'[s] = runs[s]
    <3>1. CASE Collect(t)
      BY <1>1, <1>6, <3>1, CollectCounts
    <3>2. CASE ~Collect(t)
      BY <1>1, <1>6, <3>2 DEF Main, Begin, BeginRaises, FinishRaises, Skip, CollectEnd, Cancel, Drain, RaiseOut, WriteSummary,
                              FinishRow, Goto
    <3> QED  BY <3>1, <3>2
  <2>2. exit'[s] = exit[s] /\ summary'[s] = summary[s] /\ row'[s] = row[s] /\ (s \in warned' <=> s \in warned)
    BY <1>1, <1>6 DEF Main, Begin, BeginRaises, FinishRaises, Skip, Collect, CollectEnd, Cancel, Drain, RaiseOut, WriteSummary,
                      FinishRow, results
  <2> QED  BY <1>5, <2>1, <2>2
<1>7. CASE Begin(s)
  <2>1. /\ pc'[s] = "collect" /\ exit'[s] = "none" /\ InPlan(s) /\ UNCHANGED summary
    BY <1>1, <1>7 DEF Begin, Goto
  <2> QED  BY <1>2, <1>3, <1>4, <2>1 DEF ControlAt, ToldAt, InPlan, DatasetsOf
<1>8. CASE Skip(s)
  <2>1. /\ ~InPlan(s) /\ pc'[s] = "idle"
        /\ summary'[s] = [status |-> "SKIPPED", runs |-> NoRuns, total |-> 0]
    BY <1>1, <1>8 DEF Skip, MayBegin
  <2> QED  BY <2>1 DEF ControlAt, ToldAt, InPlan, Verdicts
<1>9. CASE Collect(s)
  <2>1. /\ pc[s] = "collect" /\ UNCHANGED <<exit, summary, row, warned>>
    BY <1>9 DEF Collect, results
  <2>2. pc'[s] \in {"raise", "collect"} \/ (pc'[s] = "cancel" /\ failFast /\ runs'[s].bad # {})
    BY <1>1, <1>9, CollectCounts
  <2> QED  BY <1>2, <1>3, <1>4, <2>1, <2>2 DEF ControlAt, ToldAt, InPlan, DatasetsOf
<1>10. CASE CollectEnd(s)
  <2>1. pc[s] = "collect" /\ pc'[s] = "summary" /\ UNCHANGED <<runs, exit, summary, row, warned>>
    BY <1>1, <1>10 DEF CollectEnd, Goto, results
  <2>2. Covers(s, runs[s])
    BY <1>10 DEF CollectEnd, Counted, CountedAt, Collected, Covers
  <2> QED  BY <1>2, <1>3, <1>4, <2>1, <2>2 DEF ControlAt, ToldAt, InPlan, DatasetsOf
<1>11. CASE Cancel(s)
  <2>1. pc[s] = "cancel" /\ pc'[s] \in {"cancel", "drain"} /\ UNCHANGED <<runs, exit, summary, row, warned>>
    BY <1>1, <1>11 DEF Cancel, Goto, results
  <2> QED  BY <1>2, <1>3, <1>4, <2>1 DEF ControlAt, ToldAt, InPlan, DatasetsOf
<1>12. CASE Drain(s)
  <2>1. pc[s] = "drain" /\ pc'[s] = "summary" /\ UNCHANGED <<runs, exit, summary, row, warned>>
    BY <1>1, <1>12 DEF Drain, Goto, results
  <2>2. Covers(s, runs[s])
    BY <1>2, <2>1 DEF ControlAt, Counted, CountedAt, Covers
  <2> QED  BY <1>2, <1>3, <1>4, <2>1, <2>2 DEF ControlAt, ToldAt, InPlan, DatasetsOf
<1>13. CASE RaiseOut(s) \/ Crash(s) \/ BeginRaises(s) \/ FinishRaises(s)
  <2>1. pc'[s] = "idle" /\ exit'[s] = "fail" /\ UNCHANGED summary
    BY <1>1, <1>13 DEF RaiseOut, Crash, BeginRaises, FinishRaises, MayBegin, Goto, results
  <2> QED  BY <1>2, <1>3, <1>4, <2>1 DEF ControlAt, ToldAt, InPlan, DatasetsOf
<1>14. CASE WriteSummary(s)
  <2>1. /\ pc[s] = "summary" /\ pc'[s] = "row" /\ UNCHANGED exit
        /\ summary'[s] = [status |-> FinalStatus(runs[s]), runs |-> runs[s],
                          total |-> Cardinality(DatasetsOf(s))]
    BY <1>1, <1>14 DEF WriteSummary, Goto
  <2>2. FinalStatus(runs[s]) \in Verdicts
    BY FinalStatusIsVerdict
  <2> HIDE DEF FinalStatus
  <2> QED  BY <1>2, <1>3, <1>4, <2>1, <2>2 DEF ControlAt, ToldAt, InPlan, DatasetsOf, Verdicts
<1>15. CASE FinishRow(s)
  <2>1. /\ pc[s] = "row" /\ pc'[s] = "idle" /\ UNCHANGED summary
        /\ s \in warned' \/ row'[s] = summary[s].status
        /\ exit'[s] = ShardExit(summary[s].status)
    BY <1>1, <1>15 DEF FinishRow, Goto
  <2> QED  BY <1>2, <1>3, <1>4, <2>1 DEF ControlAt, ToldAt, InPlan, DatasetsOf, Verdicts, ShardExit
<1>16. CASE \/ \E t \in Steps : StartTask(t) \/ (t # s /\ Crash(t))
            \/ \E d \in Datasets : FinishTask(d)
            \/ Merge \/ UNCHANGED vars
  <2>1. UNCHANGED <<pc[s], runs[s], exit[s], summary[s], row[s], (s \in warned)>>
    BY <1>1, <1>16 DEF StartTask, Crash, Goto, FinishTask, Merge, vars, steps, results
  <2> QED  BY <1>5, <2>1
<1> QED
  BY <1>6, <1>7, <1>8, <1>9, <1>10, <1>11, <1>12, <1>13, <1>14, <1>15, <1>16 DEF Next, Main

\* Summaries whose totals add up to the plan are those of all its shards.
LEMMA FullTotal ==
  ASSUME NEW S, Cardinality({d \in Datasets : ShardOf[d] \in S}) = Cardinality(Datasets)
  PROVE  \A d \in Datasets : ShardOf[d] \in S
<1> DEFINE D == {d \in Datasets : ShardOf[d] \in S}
<1>1. IsFiniteSet(Datasets) /\ D \subseteq Datasets
  BY ShardAssumption
<1>2. D = Datasets
  BY <1>1, FS_Subset, FS_CardinalityType
<1> QED  BY <1>2

\* Each summary the merge could read covers its shard, if it has no failure.
LEMMA NextKeepsGreenMerge ==
  ASSUME TypeOK, Published, Told, GreenMergeIsComplete, [Next]_vars
  PROVE  GreenMergeIsComplete'
<1> SUFFICES ASSUME merged'.exit = "ok", merged'.total = Cardinality(Datasets) PROVE lake' = Datasets
  BY DEF GreenMergeIsComplete
<1>1. lake \subseteq lake' /\ lake' \subseteq Datasets
  <2>1. TypeOK'
    BY NextKeepsTypes
  <2>2. lake \subseteq lake'
    BY DEF Next, Main, Begin, BeginRaises, FinishRaises, Skip, Collect, CollectEnd, Cancel, Drain, RaiseOut,
           WriteSummary, FinishRow, StartTask, FinishTask, Crash, Merge, vars, steps
  <2> QED  BY <2>1, <2>2 DEF TypeOK
<1>2. CASE UNCHANGED merged
  BY <1>1, <1>2 DEF GreenMergeIsComplete
<1>3. CASE Merge
  <2>1. PICK S \in SUBSET Found :
          merged' = [good |-> MergedRuns(S).good, bad |-> MergedRuns(S).bad,
                     total |-> Cardinality({d \in Datasets : ShardOf[d] \in S}),
                     exit |-> MergeExit(MergedRuns(S).bad)]
    BY <1>3 DEF Merge
  <2>2. MergedRuns(S).bad = {} /\ \A d \in Datasets : ShardOf[d] \in S
    BY <2>1, FullTotal DEF MergeExit
  <2>3. ASSUME NEW d \in Datasets PROVE d \in lake
    <3> DEFINE s == ShardOf[d]
    <3>1. s \in Steps /\ s \in S /\ InPlan(s) /\ d \in DatasetsOf(s) /\ summary[s].status # "none"
      BY <2>1, <2>2, ShardAssumption DEF InPlan, DatasetsOf, Found
    <3>2. summary[s].status \in Verdicts
      BY <3>1 DEF Told, ToldAt, TypeOK, Summary, ShardStatus, Verdicts
    <3>3. Covers(s, summary[s].runs)
      BY <3>1, <3>2 DEF Told, ToldAt
    <3>4. summary[s].runs.bad = {}
      BY <2>2, <3>1 DEF MergedRuns
    <3>5. d \in summary[s].runs.good
      BY <3>1, <3>3, <3>4 DEF Covers
    <3> QED  BY <3>1, <3>5 DEF Published, SucceededIsPublished
  <2> QED  BY <1>1, <2>3
<1> QED
  BY <1>2, <1>3
     DEF Next, Main, Begin, BeginRaises, FinishRaises, Skip, Collect, CollectEnd, Cancel, Drain, RaiseOut,
         WriteSummary, FinishRow, StartTask, FinishTask, Crash, vars, rest

-----------------------------------------------------------------------------
(* What the module promises.                                               *)

LEMMA InitIInv == Init => IInv
<1> SUFFICES ASSUME Init PROVE IInv
  OBVIOUS
<1> USE ShardAssumption
<1>1. TypeOK
  BY DEF Init, TypeOK, Pc, Task, Runs, NoRuns, Summary, NoSummary, Merged, NotMerged
<1>2. Published
  BY DEF Init, Published, SucceededIsPublished, Good, NoRuns, NoSummary, NotMerged
<1>3. Counted
  <2>1. ASSUME NEW s \in Steps PROVE CountedAt(s)
    <3>1. Collected(s) = {} /\ Tasks(s, {"running"}) = {} /\ Tasks(s, Done) = {}
      BY <2>1 DEF Init, Collected, NoRuns, Tasks, DatasetsOf, Done, Good
    <3> QED  BY <2>1, <3>1 DEF Init, CountedAt, OneAtATime, Uncollected, NoRuns
  <2> QED  BY <2>1 DEF Counted
<1>4. Told
  BY DEF Init, Told, ControlAt, ToldAt, NoSummary, Verdicts
<1>5. GreenMergeIsComplete
  BY DEF Init, GreenMergeIsComplete, NotMerged
<1> QED  BY <1>1, <1>2, <1>3, <1>4, <1>5 DEF IInv

\* The invariant holds whatever threads, crashes, retries and merges by hand do.
THEOREM Invariant == Spec => []IInv
<1>1. IInv /\ [Next]_vars => IInv'
  BY NextKeepsTypes, NextKeepsPublished, NextKeepsCounted, NextKeepsTold, NextKeepsGreenMerge DEF IInv
<1> QED  BY InitIInv, <1>1, PTL DEF Spec

\* Every variable has its type.
THEOREM ShardTypeCorrect == Spec => []TypeOK
BY Invariant, PTL DEF IInv

\* A green merge that adds up to the plan means a published plan, though summaries that
\* could not be read are passed over (merge_shard_summaries).
THEOREM GreenMerge == Spec => []GreenMergeIsComplete
BY Invariant, PTL DEF IInv

\* Summary, row, exit status and threads of a step agree, but for a row whose loss the
\* log tells of (run_shard, record_etl_shard).
THEOREM Account == Spec => []StepsAccount
<1>1. IInv => StepsAccount
  <2>1. SUFFICES ASSUME IInv PROVE StepsAccount
    OBVIOUS
  <2>2. SucceededIsPublished
    BY <2>1 DEF IInv, Published
  <2>3. NoTaskOutlivesStep
    BY <2>1 DEF IInv, Counted, CountedAt, NoTaskOutlivesStep
  <2>4. SummaryAccounts
    <3>1. SUFFICES ASSUME ~failFast, NEW s \in Steps, summary[s].status \in ShardStatus
                   PROVE  Cardinality(summary[s].runs.good) + Cardinality(summary[s].runs.bad)
                            = summary[s].total
      BY DEF SummaryAccounts
    <3> DEFINE good == summary[s].runs.good
               bad == summary[s].runs.bad
    <3>2. CASE summary[s].status = "SKIPPED"
      <4>1. good = {} /\ bad = {} /\ summary[s].total = 0
        BY <2>1, <3>2 DEF IInv, Told, ToldAt, NoRuns
      <4>2. Cardinality({}) = 0
        BY FS_EmptySet
      <4> QED  BY <4>1, <4>2
    <3>3. CASE summary[s].status \in Verdicts
      <4>1. /\ good \cap bad = {} /\ good \cup bad = DatasetsOf(s)
            /\ summary[s].total = Cardinality(DatasetsOf(s))
        BY <2>1, <3>1, <3>3 DEF IInv, Told, ToldAt, Covers
      <4>2. IsFiniteSet(DatasetsOf(s))
        BY ShardAssumption, FS_Subset DEF DatasetsOf
      <4>3. IsFiniteSet(good) /\ IsFiniteSet(bad)
        BY <4>1, <4>2, FS_Subset
      <4>4. Cardinality(good \cup bad) = Cardinality(good) + Cardinality(bad) - Cardinality(good \cap bad)
        BY <4>3, FS_Union
      <4>5. Cardinality(good) \in Nat /\ Cardinality(bad) \in Nat /\ Cardinality(good \cap bad) = 0
        BY <4>1, <4>3, FS_CardinalityType, FS_EmptySet
      <4>6. summary[s].total = Cardinality(good \cup bad)
        BY <4>1
      <4> HIDE DEF good, bad
      <4>7. Cardinality(good) + Cardinality(bad) = summary[s].total
        BY <4>4, <4>5, <4>6
      <4> QED  BY <4>7 DEF good, bad
    <3> QED  BY <3>1, <3>2, <3>3 DEF ShardStatus, Verdicts
  <2>5. ExitMatchesRow
    <3>1. SUFFICES ASSUME NEW s \in Steps, exit[s] = "ok", InPlan(s)
                   PROVE  /\ summary[s].status \in {"OK", "WARN"}
                          /\ s \in warned \/ row[s] = summary[s].status
                          /\ DatasetsOf(s) # {} => summary[s].runs.good # {}
      BY DEF ExitMatchesRow
    <3>2. /\ summary[s].status \in {"OK", "WARN"}
          /\ s \in warned \/ row[s] = summary[s].status
      BY <2>1, <3>1 DEF IInv, Told, ToldAt
    <3>3. Covers(s, summary[s].runs) /\ FinalStatus(summary[s].runs) \in {"OK", "WARN"}
      BY <2>1, <3>2 DEF IInv, Told, ToldAt, Verdicts
    <3> QED  BY <3>2, <3>3 DEF Covers, FinalStatus
  <2> QED  BY <2>2, <2>3, <2>4, <2>5 DEF StepsAccount
<1> QED  BY Invariant, <1>1, PTL
===========================================================================
