-------------------------- MODULE WarehouseSqlite --------------------------
(* The other path of a warehouse build: on SQLite builder.py aggregates in   *)
(* Python ("sqlite simplified").  It is the path the tests and the offline   *)
(* installations run, so what they show of the production statements is what *)
(* the two have in common; SimplifiedAgrees says what that is.               *)
(*                                                                           *)
(* Modelled: the functions _sqlite_build_*, as operators over the tables of  *)
(* WarehouseBuild.  They overwrite a row that is there as a whole, date runs *)
(* and contracts by their start alone, keep no rule that passed, take the    *)
(* family from the contracts and steps, and give a scored dataset a row of   *)
(* its own.  In all else they select what the statements select.             *)
EXTENDS WarehouseBuild

\* A dataset that has a row and no snapshot keeps its status.
SqliteDim(s, t, w) ==
    [d \in DOMAIN s.versions |->
        LET snaps == {k \in DOMAIN s.snapshots : s.snapshots[k].ds = d}
            old == IF d \in DOMAIN t.dim THEN t.dim[d] ELSE [status |-> None, fam |-> None]
        IN  IF snaps = {}
            THEN [status |-> FirstOf(old.status, s.versions[d].status), fam |-> old.fam]
            ELSE [status |-> s.snapshots[Max(snaps)].status,
                  fam |-> FirstOf(s.snapshots[Max(snaps)].fam, old.fam)]]

\* The records of one run fall into one row, the last one read wins.
SqliteEtl(s, t, w) ==
    LET read == {i \in DOMAIN s.perf : s.perf[i].started \in w[1]..w[2]}
        rec(run) == s.perf[Max({i \in read : s.perf[i].run = run})]
    IN  [run \in {s.perf[i].run : i \in read} |->
            [ds |-> rec(run).ds, day |-> rec(run).started, phase |-> rec(run).phase,
             status |-> rec(run).status]]

\* A rule that is in both lists ends as a warning.
SqliteQc(s, t, w) ==
    LET read == {i \in DOMAIN s.qc : s.qc[i].started \in w[1]..w[2]}
        rules(i) == s.qc[i].failed \cup s.qc[i].warned \cup {Contract}
    IN  [k \in UNION {{<<i, x>> : x \in rules(i)} : i \in read} |->
            LET r == s.qc[k[1]]
            IN  [ds |-> r.ds, fam |-> r.fam, day |-> r.started,
                 status |-> IF k[2] = Contract THEN r.status
                            ELSE IF k[2] \in r.warned THEN "WARN" ELSE "FAIL"]]

UnendedToo(r) == TRUE                                                      \* mutant
SqliteCounted(r) == r.status \notin {"RUNNING", "PENDING", "STARTED"}
SqliteQuality(s, t, w) ==
    LET etl == Having(t.etl, On(t.etl, w), SqliteCounted)
        qc == {k \in On(t.qc, w) : k[2] = Contract}
        steps == {k \in On(t.step, w) : t.step[k].ds # None}
        scored == {x \in On(s.snapshots, w) : s.snapshots[x].scored}
        at(f, ks, k) == {x \in ks : <<f[x].day, f[x].ds>> = k}
        keys(f, ks) == {<<f[x].day, f[x].ds>> : x \in ks}
        wfs(k, P(_)) == Cardinality({t.step[x].wf : x \in Having(t.step, at(t.step, steps, k), P)})
    IN  [k \in keys(t.etl, etl) \cup keys(t.qc, qc) \cup keys(t.step, steps)
               \cup keys(s.mlready, On(s.mlready, w)) \cup keys(s.snapshots, scored) |->
            LET e == at(t.etl, etl, k)
                q == at(t.qc, qc, k)
            IN  [day |-> k[1], ds |-> k[2],
                 fam |-> FirstOf(AnyOf({t.qc[x].fam : x \in q}),
                                 AnyOf({t.step[x].fam : x \in at(t.step, steps, k)})),
                 etl |-> Cardinality(e), etlOk |-> Cardinality(Having(t.etl, e, IsSuccess)),
                 qc |-> Cardinality(q),
                 qcOk |-> Cardinality({x \in q : t.qc[x].status = "PASS"}),
                 wf |-> wfs(k, LAMBDA r : TRUE),
                 wfOk |-> wfs(k, LAMBDA r : r.phase = "SUCCEEDED")]]

\* The others select what the statements select.
SqliteStep(s, t, w) == FactStep(s, t, w)
SqliteAsset(s, t, w) == FactAsset(s, t, w)
SqliteRule(s, t, w) == DwsRule(s, t, w)
SqliteOps(s, t, w) == DwsOps(s, t, w)
SqliteDash(s, t, w) == AdsQuality(s, t, w)
SqliteOpsDash(s, t, w) == AdsOps(s, t, w)
SqliteInfDay(s, t, w) == DwsInference(s, t, w)
SqliteInfDash(s, t, w) == AdsInference(s, t, w)

SqliteCompute(name, s, t, w) ==
    CASE name = "dim" -> SqliteDim(s, t, w)
      [] name = "etl" -> SqliteEtl(s, t, w)
      [] name = "qc" -> SqliteQc(s, t, w)
      [] name = "step" -> SqliteStep(s, t, w)
      [] name = "asset" -> SqliteAsset(s, t, w)
      [] name = "quality" -> SqliteQuality(s, t, w)
      [] name = "rule" -> SqliteRule(s, t, w)
      [] name = "ops" -> SqliteOps(s, t, w)
      [] name = "dash" -> SqliteDash(s, t, w)
      [] name = "opsdash" -> SqliteOpsDash(s, t, w)
      [] name = "infday" -> SqliteInfDay(s, t, w)
      [] name = "infdash" -> SqliteInfDash(s, t, w)

\* A build of all layers, from empty tables, on each of the two databases.
NoTables == [n \in TableNames |-> Empty]
SqliteBuild(s, w) ==
    FoldLeft(LAMBDA t, st : [t EXCEPT ![st[2]] = SqliteCompute(st[2], s, t, w) @@ @], NoTables, Sequence)
PostgresBuild(s, w) ==
    FoldLeft(LAMBDA t, st : [t EXCEPT ![st[2]] = Upsert(st[2], @, Compute(st[2], s, t, w))],
             NoTables, Sequence)

(***************************************************************************)
(* What the two have in common                                             *)
(***************************************************************************)
\* Sources on which they should agree: every run is recorded once, and what starts on a
\* day is recorded on that day.
Plain(s) ==
    /\ \A i, j \in DOMAIN s.perf : s.perf[i].run = s.perf[j].run => i = j
    /\ \A i \in DOMAIN s.perf : s.perf[i].started = s.perf[i].created
    /\ \A i \in DOMAIN s.qc : s.qc[i].started # NoDay

\* On such sources a fresh build shows the same dashboards on either database, but for the
\* family, the rule it leads to, and the rows of datasets that were only scored: what a
\* test sees of an alert on SQLite is what PostgreSQL shows (builder.py:
\* "与 ...build_dws_dataset_quality_daily.sql 同款口径", the same definition).
Same(d) == [x \in DOMAIN d \ {"fam", "top"} |-> d[x]]
SimplifiedAgrees ==
    (tbl = NoTables /\ Plain(src)) =>
        \A o \in UNION {Orders[b] : b \in Builders} :
            LET lite == SqliteBuild(src, o[1])
                full == PostgresBuild(src, o[1])
            IN  /\ \A k \in DOMAIN full.dash : k \in DOMAIN lite.dash /\ Same(lite.dash[k]) = Same(full.dash[k])
                /\ \A k \in DOMAIN lite.dash \ DOMAIN full.dash : lite.dash[k].alert = "OK"
                /\ lite.opsdash = full.opsdash /\ lite.infdash = full.infdash
=============================================================================
