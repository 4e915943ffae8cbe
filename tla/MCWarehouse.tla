---------------------------- MODULE MCWarehouse ----------------------------
(***************************************************************************)
(* Instances of WarehouseBuild and QualityOps for TLC: in one part of the  *)
(* behaviours two builders interleave step by step, in the other the SLA   *)
(* checks and backfills work on what whole daily builds have produced.     *)
(***************************************************************************)
EXTENDS QualityOps, WarehouseSqlite

VARIABLE part   \* which of the two state spaces this behaviour belongs to

Full == <<<<1, 2>>, Layers>>
MCOrders == [b \in Builders |-> IF b = "cron" THEN {Full}
                                ELSE {<<<<1, 2>>, {"dws", "ads"}>>}]

Dataset == <<"versions", "d1", [status |-> "normalized"]>>
Perf(i, run, start, day, status) ==
    <<"perf", i, [run |-> run, ds |-> "d1", created |-> day, started |-> start,
                  phase |-> "normalize", status |-> status]>>
Qc(i, start, day, status, results, bad, warn) ==
    <<"qc", i, [ds |-> "d1", fam |-> "f", created |-> day, started |-> start, status |-> status,
                results |-> results, failed |-> bad, warned |-> warn]>>
Step(i, wf, day, phase, reason) ==
    <<"steps", i, [wf |-> wf, ds |-> "d1", fam |-> "f", day |-> day, phase |-> phase,
                   reason |-> reason]>>
Job(i, day, end, status, bad) ==
    <<"jobs", i, [group |-> "m", created |-> day, started |-> day, finished |-> end,
                  status |-> status, samples |-> 4, bad |-> bad]>>

Passed == [x \in {"c1"} |-> "PASS"]
BuildFeeds == {
    \* a dataset of a shard that fails, and again in each retry of the shard, the last one on
    \* the next day (shard_runner.py:53 gives all of them one run), beside a contract that fails
    << <<Dataset, Perf(1, "r1", NoDay, 1, "FAIL")>>,
       <<Qc(1, 1, 1, "FAIL", Empty, {"c1"}, {"c2"}), Perf(2, "r1", NoDay, 1, "FAIL"),
         Perf(3, "r1", NoDay, 2, "FAIL")>> >>,
    \* a failed run with its start that is ingested the next day, one of that day, and one
    \* that an older version left RUNNING (normalize.py:556)
    << <<Dataset, Perf(3, "r3", 2, 2, "RUNNING")>>,
       <<Perf(1, "r1", 1, 2, "FAIL"), Perf(2, "r2", NoDay, 2, "WARN")>> >>,
    \* a contract that fails, and the next day passes
    << <<Dataset, <<"mlready", 1, [ds |-> "d1", day |-> 2]>> >>,
       <<Qc(1, NoDay, 1, "FAIL", [x \in {"c1"} |-> "FAIL"], {"c1"}, {}),
         Qc(2, 2, 2, "PASS", Passed, {}, {}),
         <<"snapshots", 1, [ds |-> "d1", day |-> 2, status |-> "WARN", fam |-> "f",
                            scored |-> TRUE]>> >> >>,
    \* steps of a workflow whose own row comes late
    << <<Dataset, Step(1, "w1", 1, "SUCCEEDED", None),
         <<"profiles", 1, [ds |-> "d1", day |-> 1, layer |-> "ods", bytes |-> 3]>>,
         Step(2, "w1", NoDay, "PENDING", None)>>,
       <<Step(2, "w1", 1, "FAILED", "OOMKILLED"), <<"wf", "w1", [type |-> "etl", day |-> 1, status |-> "FAILED"]>> >> >>,
    \* a job that is seen on the day it starts and ends on the next
    << <<Job(1, 1, NoDay, "RUNNING", 0)>>,
       <<Job(1, 1, 2, "FAILED", 3), <<"failures", 1, [job |-> 1, error |-> "TIMEOUT"]>>,
         Job(2, 2, 2, "DEAD_LETTER", 4)>> >> }

OpsFeeds == {
    << <<Dataset, Perf(1, "r1", 2, 2, "OK"), Qc(1, 2, 2, "PASS", Passed, {}, {}),
         Step(1, "w1", 2, "SUCCEEDED", None)>>,
       <<Perf(2, "r2", 2, 2, "FAIL"), <<"wf", "w1", [type |-> "etl", day |-> 2, status |-> "FAILED"]>> >> >>,
    << <<Dataset, Perf(1, "r1", 2, 2, "OK"), <<"mlready", 1, [ds |-> "d1", day |-> 2]>> >>,
       <<Qc(1, 2, 2, "FAIL", Empty, {"c1"}, {})>> >> }
MCFeeds == BuildFeeds \cup OpsFeeds

MCPolicies == {
    [id |-> "daily", pattern |-> {"d1"}, fam |-> None, outputs |-> {"ads"},
     minQc |-> 80, minEtl |-> 80, maxWf |-> 0],
    [id |-> "family", pattern |-> {}, fam |-> "f", outputs |-> {"qc_contract"},
     minQc |-> NoLimit, minEtl |-> NoLimit, maxWf |-> NoLimit] }
MCRequests == {
    [window |-> <<2, 2>>, ds |-> None, phase |-> None, filter |-> {"FAILED", "WARN", "ERROR", "FAIL"}],
    [window |-> <<2, 2>>, ds |-> "d1", phase |-> "normalize", filter |-> {"FAILED", "FAIL"}] }

MCInit == /\ WhInit /\ QaInit
          /\ part = IF \E f \in OpsFeeds : f[2] = feed THEN "ops" ELSE "builds"
Builds == part = "builds" /\ WhNext /\ UNCHANGED <<qaVars, part>>
\* The daily build in one step, undisturbed and without a fault.
WholeBuild(w) ==
    /\ ~Clash(src, w)
    /\ tbl' = FoldLeft(LAMBDA t, st : [t EXCEPT ![st[2]] = Upsert(st[2], @, Compute(st[2], src, t, w))],
                       tbl, Sequence)
    /\ current' = current \cup {w}
    /\ UNCHANGED <<src, feed, pc, order, staged, failed, alone, faults>>
DailyBuild == part = "ops" /\ UNCHANGED <<qaVars, part>> /\ (Write \/ WholeBuild(Full[1]))
Operations == part = "ops" /\ QaNext /\ UNCHANGED part
MCSpec ==
    /\ MCInit /\ [][Builds \/ DailyBuild \/ Operations]_<<opsVars, part>>
    /\ \A b \in Builders :
        /\ WF_whVars(part = "builds" /\ BuildStep(b))
        /\ \A o \in FullOrders(b) : SF_whVars(part = "builds" /\ StartBuild(b, o))

\* Converges, in the part whose builds go on for ever.
BuildsConverge == <>[](part = "builds" => AllRight)
=============================================================================
