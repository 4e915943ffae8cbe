--------------------------- MODULE WarehouseBuild ---------------------------
(* The metrics warehouse: `robot-dh warehouse build` recomputes the tables   *)
(* of the layers dim, fact, dws, ads and inference, one after the other,     *)
(* each in a transaction of its own, while ETL, workflows and inference jobs *)
(* go on writing what it reads, and while another build may be under way (a  *)
(* step of a workflow beside a command typed by hand).                       *)
(*                                                                           *)
(* Modelled: the PostgreSQL path, which is the one production runs:          *)
(* builder.py executes one statement INSERT ... SELECT ... ON CONFLICT DO    *)
(* UPDATE per table, those of warehouse/sql/dml.  A table is a function from *)
(* its key to its row.  Nothing is ever deleted: a rebuilt table keeps the   *)
(* rows whose keys no longer occur, and a row that is there takes over only  *)
(* the columns its statement lists (Merged).  WarehouseSqlite has the other  *)
(* path, which the tests and offline installations use.                      *)
(*                                                                           *)
(* A dataset stands for the pair (dataset_id, version), a run for its        *)
(* (job, run, phase, dataset), a rule for (contract, rule, severity,         *)
(* metric), an inference group for (model, task).  The rules of one contract *)
(* run are distinct.                                                         *)
(* Left out: columns that are only copied or only averaged (durations, URIs, *)
(* scores, percentiles), --dry-run, which changes nothing, and the refusal   *)
(* of a database without the tables, before anything is read.                *)
EXTENDS Integers, Sequences, FiniteSets, TLC, FiniteSetsExt, SequencesExt

CONSTANTS Builders,     \* processes that run `warehouse build`
          Orders,       \* builder -> the pairs <<window, layers>> it is started with
          Feeds,        \* pairs <<writes before the start, writes to come>>
          MaxFaults     \* transactions that fail and builds that are killed

None == "none"
NoDay == 0              \* a NULL time stamp
Layers == {"dim", "fact", "dws", "ads", "inference"}
SourceTables == {"versions", "snapshots", "mlready", "perf", "qc", "wf", "steps",
                 "profiles", "jobs", "failures"}

ASSUME OrdersAssumption ==
    \A b \in Builders : Orders[b] # {} /\ \A o \in Orders[b] :
        /\ o[1][1] \in Nat \ {NoDay} /\ o[1][2] \in Nat /\ o[1][1] <= o[1][2]
        /\ o[2] \subseteq Layers /\ o[2] # {}

VARIABLES
    src,        \* source table -> (key -> row)
    feed,       \* the writes that are still to come
    tbl,        \* warehouse table -> (key -> row)
    pc,         \* builder -> index of its step in Sequence, 0 when it has no build
    order,      \* builder -> the pair it was started with, <<>> when idle
    staged,     \* builder -> <<the rows it has computed and not committed>>, or <<>>
    failed,     \* builder -> a step of this build ended in an error
    alone,      \* builder -> it builds all layers, and since its start nothing was written
                \* and no other build was under way
    faults,
    current     \* windows fully rebuilt since the last write of the rest of the system

whVars == <<src, feed, tbl, pc, order, staged, failed, alone, faults, current>>

(***************************************************************************)
(* Helpers                                                                 *)
(***************************************************************************)
\* Keys of the rows of table f whose day lies in window w.
On(f, w) == {k \in DOMAIN f : f[k].day \in w[1]..w[2]}
Having(f, ks, P(_)) == {k \in ks : P(f[k])}

\* ok / runs < pct / 100, where a rate without runs is NULL and read as 1.
Below(ok, runs, pct) == runs > 0 /\ 100 * ok < pct * runs
FirstOf(a, b) == IF a # None THEN a ELSE b
AnyOf(S) == IF S \ {None} = {} THEN None ELSE CHOOSE x \in S \ {None} : TRUE

(***************************************************************************)
(* What the statements select.  s: source tables, t: warehouse tables.     *)
(***************************************************************************)
\* COALESCE of two time stamps, and the days of the records that have several.
FirstDay(a, b) == IF a # NoDay THEN a ELSE b
Day(r) == FirstDay(r.started, r.created)
JobDay(j) == FirstDay(j.finished, Day(j))

\* dim_dataset: the newest snapshot decides the status.
DimDataset(s, t, w) ==
    [d \in DOMAIN s.versions |->
        LET snaps == {k \in DOMAIN s.snapshots : s.snapshots[k].ds = d}
            last == s.snapshots[Max(snaps)]
        IN  IF snaps = {} THEN [status |-> s.versions[d].status, fam |-> None]
            ELSE [status |-> FirstOf(last.status, s.versions[d].status), fam |-> last.fam]]

\* fact_etl_run: the records that were INSERTED in the window, dated by when their run
\* STARTED.  One statement may not touch a row twice: two records of one run in the
\* window are refused.  The family stays empty.
Written(s, w) == {i \in DOMAIN s.perf : s.perf[i].created \in w[1]..w[2]}
Clash(s, w) == \E i, j \in Written(s, w) : i # j /\ s.perf[i].run = s.perf[j].run
FactEtl(s, t, w) ==
    [run \in {s.perf[i].run : i \in Written(s, w)} |->
        LET r == s.perf[CHOOSE i \in Written(s, w) : s.perf[i].run = run]
        IN  [ds |-> r.ds, day |-> Day(r), phase |-> r.phase, status |-> r.status]]

\* fact_qc_rule_result: a row per rule of a contract run, from the results it kept, and
\* where it kept none from the lists of its failures and warnings; and one row with the
\* verdict.
Contract == "contract_status"
RuleResults(r) ==
    IF DOMAIN r.results # {} THEN r.results
    ELSE [x \in r.failed \cup r.warned |-> IF x \in r.failed THEN "FAIL" ELSE "WARN"]
QcOn(s, w) == {i \in DOMAIN s.qc : Day(s.qc[i]) \in w[1]..w[2]}
FactQc(s, t, w) ==
    [k \in UNION {{<<i, x>> : x \in DOMAIN RuleResults(s.qc[i]) \cup {Contract}} : i \in QcOn(s, w)} |->
        LET r == s.qc[k[1]]
        IN  [ds |-> r.ds, fam |-> r.fam, day |-> Day(r),
             status |-> IF k[2] = Contract THEN r.status ELSE RuleResults(r)[k[2]]]]

\* fact_workflow_step: the type comes from the row of the workflow, when there is one.
FactStep(s, t, w) ==
    [i \in On(s.steps, w) |->
        LET x == s.steps[i]
        IN  [wf |-> x.wf, ds |-> x.ds, fam |-> x.fam, day |-> x.day, phase |-> x.phase,
             reason |-> x.reason, type |-> IF x.wf \in DOMAIN s.wf THEN s.wf[x.wf].type ELSE None]]

FactAsset(s, t, w) == [i \in On(s.profiles, w) |-> s.profiles[i]]

\* dws_dataset_quality_daily, one row per day and dataset.  A run that has not ended does
\* not count, a warning counts as success, a workflow counts as succeeded when one of its
\* steps did.  The family is that of the ETL rows, which have none.
Counted(r) == r.status \notin {"RUNNING", "PENDING", "STARTED"}
IsSuccess(r) == r.status \in {"OK", "WARN", "SUCCESS", "SUCCEEDED"}
DwsQuality(s, t, w) ==
    LET etl == Having(t.etl, On(t.etl, w), Counted)
        qc == {k \in On(t.qc, w) : k[2] = Contract}
        steps == {k \in On(t.step, w) : t.step[k].ds # None}
        at(f, ks, k) == {x \in ks : <<f[x].day, f[x].ds>> = k}
        keys(f, ks) == {<<f[x].day, f[x].ds>> : x \in ks}
        wfs(k, P(_)) == Cardinality({t.step[x].wf : x \in Having(t.step, at(t.step, steps, k), P)})
    IN  [k \in keys(t.etl, etl) \cup keys(t.qc, qc) \cup keys(t.step, steps)
               \cup keys(s.mlready, On(s.mlready, w)) |->
            LET e == at(t.etl, etl, k)
                q == at(t.qc, qc, k)
            IN  [day |-> k[1], ds |-> k[2], fam |-> None,
                 etl |-> Cardinality(e), etlOk |-> Cardinality(Having(t.etl, e, IsSuccess)),
                 qc |-> Cardinality(q),
                 qcOk |-> Cardinality({x \in q : t.qc[x].status = "PASS"}),
                 wf |-> wfs(k, LAMBDA r : TRUE),
                 wfOk |-> wfs(k, LAMBDA r : r.phase = "SUCCEEDED")]]

\* dws_rule_failure_daily, per day, family and rule.
DwsRule(s, t, w) ==
    LET rows == {k \in On(t.qc, w) : k[2] # Contract}
        group(k) == <<t.qc[k].day, FirstOf(t.qc[k].fam, "unknown"), k[2]>>
        runs(g) == {k \in rows : group(k) = g}
    IN  [g \in {group(k) : k \in rows} |->
            [day |-> g[1], fam |-> g[2], rule |-> g[3], run |-> Cardinality(runs(g)),
             fail |-> Cardinality({k \in runs(g) : t.qc[k].status = "FAIL"})]]

\* dws_workflow_ops_daily, per day and workflow type.
DwsOps(s, t, w) ==
    LET rows == On(t.step, w)
        group(k) == <<t.step[k].day, FirstOf(t.step[k].type, "unknown")>>
        wfs(g, phases) == Cardinality({t.step[k].wf : k \in
                              {x \in rows : group(x) = g /\ t.step[x].phase \in phases}})
        with(g, reason) == Cardinality({k \in rows : group(k) = g /\ t.step[k].reason = reason})
    IN  [g \in {group(k) : k \in rows} |->
            [day |-> g[1], type |-> g[2],
             wf |-> Cardinality({t.step[k].wf : k \in {x \in rows : group(x) = g}}),
             ok |-> wfs(g, {"SUCCEEDED"}), failed |-> wfs(g, {"FAILED", "ERROR"}),
             running |-> wfs(g, {"RUNNING", "PENDING"}),
             oom |-> with(g, "OOMKILLED"), deadline |-> with(g, "DEADLINEEXCEEDED")]]

\* ads_quality_dashboard: verdict, alert, the rule that failed most in the row's family
\* that day, and the bytes of the profiled assets.
AlertOf(d) ==
    IF Below(d.qcOk, d.qc, 80) \/ Below(d.etlOk, d.etl, 80) THEN "CRITICAL"
    ELSE IF Below(d.qcOk, d.qc, 95) THEN "WARN" ELSE "OK"
Verdict(alert) == CASE alert = "CRITICAL" -> "FAIL" [] alert = "WARN" -> "WARN" [] OTHER -> "PASS"
AdsQuality(s, t, w) ==
    LET rules(d) == {g \in On(t.rule, w) : /\ t.rule[g].fail > 0
                                           /\ t.rule[g].day = d.day /\ t.rule[g].fam = d.fam}
        top(d) == CHOOSE g \in rules(d) : \A h \in rules(d) : t.rule[h].fail <= t.rule[g].fail
        bytes(d, ls) == MapThenSumSet(LAMBDA k : t.asset[k].bytes,
                            {k \in On(t.asset, w) : /\ t.asset[k].day = d.day
                                                    /\ t.asset[k].ds = d.ds
                                                    /\ t.asset[k].layer \in ls})
    IN  [k \in On(t.quality, w) |->
            LET d == t.quality[k]
            IN  [day |-> d.day, ds |-> d.ds, fam |-> d.fam,
                 etl |-> d.etl, etlOk |-> d.etlOk, qc |-> d.qc, qcOk |-> d.qcOk,
                 wf |-> d.wf, wfOk |-> d.wfOk,
                 alert |-> AlertOf(d), status |-> Verdict(AlertOf(d)),
                 top |-> IF rules(d) = {} THEN None ELSE t.rule[top(d)].rule,
                 raw |-> bytes(d, {"raw", "ods"}), dwd |-> bytes(d, {"dwd"})]]

\* ads_workflow_ops_dashboard
OpsAlert(d) ==
    IF Below(d.ok, d.wf, 80) \/ d.oom > 0 \/ d.deadline > 0 THEN "CRITICAL"
    ELSE IF Below(d.ok, d.wf, 95) THEN "WARN" ELSE "OK"
AdsOps(s, t, w) ==
    [k \in On(t.ops, w) |->
        LET d == t.ops[k]
        IN  [day |-> d.day, type |-> d.type, wf |-> d.wf, ok |-> d.ok, failed |-> d.failed,
             running |-> d.running, oom |-> d.oom, deadline |-> d.deadline,
             alert |-> OpsAlert(d)]]

\* dws_inference_job_daily, per day and group.
DwsInference(s, t, w) ==
    LET rows == {i \in DOMAIN s.jobs : JobDay(s.jobs[i]) \in w[1]..w[2]}
        key(i) == <<JobDay(s.jobs[i]), s.jobs[i].group>>
        of(k) == {i \in rows : key(i) = k}
        sum(k, F(_)) == MapThenSumSet(F, of(k))
        ended(k, sts) == Cardinality({i \in of(k) : s.jobs[i].status \in sts})
    IN  [k \in {key(i) : i \in rows} |->
            [day |-> k[1], group |-> k[2], jobs |-> Cardinality(of(k)),
             ok |-> ended(k, {"SUCCEEDED", "OK"}), fail |-> ended(k, {"FAILED", "DEAD_LETTER"}),
             samples |-> sum(k, LAMBDA i : s.jobs[i].samples),
             bad |-> sum(k, LAMBDA i : s.jobs[i].bad)]]

\* ads_inference_dashboard
InferenceAlert(d) ==
    IF Below(d.ok, d.jobs, 80) \/ (d.samples > 0 /\ 5 * d.bad > d.samples) THEN "CRITICAL"
    ELSE IF Below(d.ok, d.jobs, 95) THEN "WARN" ELSE "OK"
AdsInference(s, t, w) ==
    LET errors(d) == {f \in DOMAIN s.failures :
                        LET j == s.jobs[s.failures[f].job] IN
                        /\ s.failures[f].job \in DOMAIN s.jobs
                        /\ JobDay(j) = d.day /\ j.group = d.group}
        count(d, e) == Cardinality({f \in errors(d) : s.failures[f].error = e})
        names(d) == {s.failures[f].error : f \in errors(d)}
    IN  [k \in On(t.infday, w) |->
            LET d == t.infday[k]
            IN  [day |-> d.day, group |-> d.group, jobs |-> d.jobs, ok |-> d.ok, fail |-> d.fail,
                 samples |-> d.samples, bad |-> d.bad,
                 alert |-> InferenceAlert(d), status |-> Verdict(InferenceAlert(d)),
                 top |-> IF names(d) = {} THEN None
                         ELSE CHOOSE e \in names(d) :
                                 \A x \in names(d) : count(d, x) <= count(d, e)]]

DoNothing(n, o, r) == o                                                    \* mutant
\* ON CONFLICT DO UPDATE: what becomes of row o when the statement of table n selects r for
\* its key.  The fact tables keep the day, the dataset and the type they were inserted with.
Merged(n, o, r) ==
    CASE n = "dim" -> [status |-> r.status, fam |-> FirstOf(r.fam, o.fam)]
      [] n = "etl" -> [ds |-> o.ds, day |-> o.day, phase |-> o.phase, status |-> r.status]
      [] n = "qc" -> [ds |-> o.ds, fam |-> o.fam, day |-> o.day, status |-> r.status]
      [] n = "step" -> [wf |-> o.wf, ds |-> o.ds, fam |-> o.fam, day |-> o.day,
                        phase |-> r.phase, reason |-> r.reason, type |-> o.type]
      [] n = "asset" -> [ds |-> o.ds, day |-> o.day, layer |-> o.layer, bytes |-> r.bytes]
      [] OTHER -> r
Upsert(n, old, new) ==
    [k \in DOMAIN old \cup DOMAIN new |->
        IF k \notin DOMAIN new THEN old[k]
        ELSE IF k \in DOMAIN old THEN Merged(n, old[k], new[k]) ELSE new[k]]

(***************************************************************************)
(* The sequence of a build                                                 *)
(***************************************************************************)
AdsFirst == << <<"dim", "dim">>, <<"fact", "etl">>, <<"fact", "qc">>, <<"fact", "step">>,
               <<"fact", "asset">>, <<"ads", "dash">>, <<"ads", "opsdash">>, <<"dws", "quality">>,
               <<"dws", "rule">>, <<"dws", "ops">>,                          \* mutant
               <<"inference", "infday">>, <<"inference", "infdash">> >>
Sequence == << <<"dim", "dim">>, <<"fact", "etl">>, <<"fact", "qc">>, <<"fact", "step">>,
               <<"fact", "asset">>, <<"dws", "quality">>, <<"dws", "rule">>, <<"dws", "ops">>,
               <<"ads", "dash">>, <<"ads", "opsdash">>,
               <<"inference", "infday">>, <<"inference", "infdash">> >>

\* The step after the i-th one: those of other layers are passed over.
Steps(layers) == {j \in DOMAIN Sequence : Sequence[j][1] \in layers}
StepAfter(i, layers) == Min({j \in Steps(layers) : j > i} \cup {Len(Sequence) + 1})
TableNames == {x[2] : x \in Range(Sequence)}

Compute(name, s, t, w) ==
    CASE name = "dim" -> DimDataset(s, t, w)
      [] name = "etl" -> FactEtl(s, t, w)
      [] name = "qc" -> FactQc(s, t, w)
      [] name = "step" -> FactStep(s, t, w)
      [] name = "asset" -> FactAsset(s, t, w)
      [] name = "quality" -> DwsQuality(s, t, w)
      [] name = "rule" -> DwsRule(s, t, w)
      [] name = "ops" -> DwsOps(s, t, w)
      [] name = "dash" -> AdsQuality(s, t, w)
      [] name = "opsdash" -> AdsOps(s, t, w)
      [] name = "infday" -> DwsInference(s, t, w)
      [] name = "infdash" -> AdsInference(s, t, w)

(***************************************************************************)
(* Actions                                                                 *)
(***************************************************************************)
Empty == [x \in {} |-> None]
Idle(b) == pc[b] = 0

\* The rest of the system writes a row of a source table: <<table, key, row>>.
Put(write, s) == [s EXCEPT ![write[1]] = (write[2] :> write[3]) @@ @]

WhInit ==
    /\ \E f \in Feeds : /\ src = FoldSeq(Put, [n \in SourceTables |-> Empty], f[1])
                       /\ feed = f[2]
    /\ tbl = [n \in TableNames |-> Empty]
    /\ pc = [b \in Builders |-> 0]
    /\ order = [b \in Builders |-> <<>>]
    /\ staged = [b \in Builders |-> <<>>]
    /\ failed = [b \in Builders |-> FALSE]
    /\ alone = [b \in Builders |-> FALSE]
    /\ faults = 0
    /\ current = {}

Write ==
    /\ feed # <<>>
    /\ src' = Put(feed[1], src)
    /\ feed' = Tail(feed)
    /\ alone' = [b \in Builders |-> FALSE]
    /\ current' = {}
    /\ UNCHANGED <<tbl, pc, order, staged, failed, faults>>

\* `warehouse build` is started with a window of days and layers.
StartBuild(b, o) ==
    /\ Idle(b)
    /\ order' = [order EXCEPT ![b] = o]
    /\ pc' = [pc EXCEPT ![b] = StepAfter(0, o[2])]
    /\ failed' = [failed EXCEPT ![b] = FALSE]
    /\ alone' = [c \in Builders |-> c = b /\ o[2] = Layers
                                   /\ \A x \in Builders \ {b} : Idle(x)]
    /\ UNCHANGED <<src, feed, tbl, staged, faults, current>>

Running(b) == ~Idle(b) /\ pc[b] <= Len(Sequence)
Table(b) == Sequence[pc[b]][2]
NextStep(b) == pc' = [pc EXCEPT ![b] = StepAfter(pc[b], order[b][2])]

\* A statement reads what it needs and computes its rows ...
Refused(b) == Table(b) = "etl" /\ Clash(src, order[b][1])
ReadStep(b) ==
    /\ Running(b) /\ staged[b] = <<>> /\ ~Refused(b)
    /\ staged' = [staged EXCEPT ![b] = <<Compute(Table(b), src, tbl, order[b][1])>>]
    /\ UNCHANGED <<src, feed, tbl, pc, order, failed, alone, faults, current>>

\* ... and they become visible when it commits.
CommitStep(b) ==
    /\ Running(b) /\ staged[b] # <<>>
    /\ tbl' = [tbl EXCEPT ![Table(b)] = Upsert(Table(b), @, staged[b][1])]
    /\ staged' = [staged EXCEPT ![b] = <<>>]
    /\ NextStep(b)
    /\ UNCHANGED <<src, feed, order, failed, alone, faults, current>>

\* A statement ends in an error: it is put down and the next one runs.
Skip(b) ==
    /\ failed' = [failed EXCEPT ![b] = TRUE]
    /\ staged' = [staged EXCEPT ![b] = <<>>]
    /\ NextStep(b)
    /\ UNCHANGED <<src, feed, tbl, order, alone, current>>

\* "ON CONFLICT DO UPDATE command cannot affect row a second time".
AbortStep(b) == Running(b) /\ staged[b] = <<>> /\ Refused(b) /\ Skip(b) /\ UNCHANGED faults

\* The database is gone, or refuses the transaction.
FailStep(b) == Running(b) /\ faults < MaxFaults /\ faults' = faults + 1 /\ Skip(b)

\* The report, and the exit status: 1 when a step failed.
StatusOf(b) == IF failed[b] THEN "fail" ELSE "ok"
FinishBuild(b) ==
    /\ ~Idle(b) /\ pc[b] > Len(Sequence)
    /\ current' = IF StatusOf(b) = "ok" /\ alone[b]
                  THEN current \cup {order[b][1]} ELSE current
    /\ pc' = [pc EXCEPT ![b] = 0]
    /\ order' = [order EXCEPT ![b] = <<>>]
    /\ failed' = [failed EXCEPT ![b] = FALSE]
    /\ alone' = [alone EXCEPT ![b] = FALSE]
    /\ UNCHANGED <<src, feed, tbl, staged, faults>>

\* The pod goes away.
KillBuild(b) ==
    /\ ~Idle(b) /\ faults < MaxFaults
    /\ faults' = faults + 1
    /\ pc' = [pc EXCEPT ![b] = 0]
    /\ order' = [order EXCEPT ![b] = <<>>]
    /\ staged' = [staged EXCEPT ![b] = <<>>]
    /\ failed' = [failed EXCEPT ![b] = FALSE]
    /\ alone' = [alone EXCEPT ![b] = FALSE]
    /\ UNCHANGED <<src, feed, tbl, current>>

BuildStep(b) == ReadStep(b) \/ CommitStep(b) \/ AbortStep(b) \/ FinishBuild(b)
WhNext ==
    \/ Write
    \/ \E b \in Builders :
        \/ \E o \in Orders[b] : StartBuild(b, o)
        \/ ReadStep(b) \/ CommitStep(b) \/ AbortStep(b) \/ FailStep(b)
        \/ FinishBuild(b) \/ KillBuild(b)

\* A build that was started goes on; the schedule starts the build of every layer and of
\* the whole period again and again.
FullOrders(b) == {o \in Orders[b] : o[2] = Layers /\ \A p \in Orders[b] : o[1][1] <= p[1][1]
                                                                        /\ o[1][2] >= p[1][2]}
WhFairness ==
    \A b \in Builders :
        /\ WF_whVars(BuildStep(b))
        /\ \A o \in FullOrders(b) : SF_whVars(StartBuild(b, o))

WhSpec == WhInit /\ [][WhNext]_whVars /\ WhFairness

(***************************************************************************)
(* Properties                                                              *)
(***************************************************************************)
\* What an operator would conclude from the sources alone.
Dated(day, d) == {i \in DOMAIN src.perf : Day(src.perf[i]) = day /\ src.perf[i].ds = d}
EndStatuses(day, d) == {src.perf[i].status : i \in Dated(day, d)} \ {"RUNNING", "PENDING", "STARTED"}
Contracts(day, d) == {src.qc[i].status : i \in {j \in DOMAIN src.qc :
                                        Day(src.qc[j]) = day /\ src.qc[j].ds = d}}
JobsOn(day, g) == {src.jobs[i].status : i \in {j \in DOMAIN src.jobs :
                                        JobDay(src.jobs[j]) = day /\ src.jobs[j].group = g}}
Bad(statuses) == statuses # {} /\ statuses \subseteq {"FAIL", "FAILED", "ERROR"}

\* A build over w sees all of a dataset's runs of a day: they were recorded within w, each
\* of them once.
Settled(w, day, d) ==
    /\ ~Clash(src, w)
    /\ \A i \in Dated(day, d) : i \in Written(src, w) /\ \A j \in DOMAIN src.perf :
                                    src.perf[j].run = src.perf[i].run => j = i

\* The dashboards of a day agree with the sources: a dataset whose contract checks, or
\* whose runs, all failed is CRITICAL; one with runs or checks and no failure is OK; a day
\* on which a step was killed for memory is CRITICAL for some type of workflow; and so is
\* a model whose jobs of the day all failed.
DayRight(w, day) ==
    /\ \A d \in DOMAIN src.versions :
        LET row == tbl.dash[<<day, d>>]
            e == EndStatuses(day, d)
            q == Contracts(day, d)
        IN  /\ Bad(q) \/ (Settled(w, day, d) /\ Bad(e)) =>
                    <<day, d>> \in DOMAIN tbl.dash /\ row.alert = "CRITICAL"
            /\ (Settled(w, day, d) /\ e \cup q # {} /\ q \subseteq {"PASS"}
                    /\ e \subseteq {"OK", "WARN", "SUCCESS", "SUCCEEDED"}) =>
                    <<day, d>> \in DOMAIN tbl.dash /\ row.alert = "OK"
    /\ \A i \in DOMAIN src.steps :
        src.steps[i].day = day /\ src.steps[i].reason = "OOMKILLED" =>
            \E k \in DOMAIN tbl.opsdash : k[1] = day /\ tbl.opsdash[k].alert = "CRITICAL"
    /\ \A g \in {src.jobs[i].group : i \in DOMAIN src.jobs} :
        JobsOn(day, g) # {} /\ JobsOn(day, g) \subseteq {"FAILED", "DEAD_LETTER"} =>
            <<day, g>> \in DOMAIN tbl.infdash /\ tbl.infdash[<<day, g>>].alert = "CRITICAL"

\* Once a green build of all layers ran over a window with nothing beside it, the
\* dashboards of its days are right, and stay right until the sources change, whatever
\* other builds start, overlap, fail or die (builder.py: every statement recomputes from
\* the tables below it, and keeps what it does not select).
DashboardTellsTruth == \A w \in current : \A day \in w[1]..w[2] : DayRight(w, day)

\* However builds and writes have interleaved, and whichever statements failed: when the
\* writes are over, the daily build brings every dashboard right for good; the verdicts of
\* the contracts even when the statement of fact_etl_run is refused every time.
AllRight == \A b \in Builders : \A o \in FullOrders(b) :
                \A day \in o[1][1]..o[1][2] : DayRight(o[1], day)
Converges == <>[]AllRight

=============================================================================
