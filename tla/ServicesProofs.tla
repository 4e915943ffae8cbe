--------------------------- MODULE ServicesProofs ---------------------------
(***************************************************************************)
(* Proofs about four services that stand alone: the Prometheus exporter,   *)
(* the cron scan of the registry, the shard planner, and the quality gate  *)
(* with the ML-ready export behind it.                                     *)
(***************************************************************************)
EXTENDS Exporter, RegistryScan, ShardPlanner, QualityGate, FiniteSetTheorems, TLAPS

(* The exporter: UpMeansFresh for every list of families, any number of    *)
(* writes and any number of outages.                                       *)
(*                                                                         *)
(* The property speaks of the time between two scrapes; the invariant says *)
(* what holds of the families a scrape has behind it while it is under way *)
(* (Queried), and why the cached list of tables never hides one of them    *)
(* that had to be asked for (CacheKnows).                                  *)

ExporterTypes ==
  /\ value \in [Names -> Nat] /\ gauge \in [Names -> Nat]
  /\ since \in [Names -> SUBSET Nat]
  /\ pos \in 0 .. Len(Families) + 1

\* Tables do not go away, and a cache that serves knows those a scrape cannot miss.
CacheKnows ==
  /\ known \subseteq Existing /\ expected \subseteq Existing
  /\ cached = "fresh" => expected \subseteq known

\* What a family holds now it has had since the scrape began.
SinceIsCurrent == \A f \in Names : value[f] \in since[f]

\* The gauges of the families that a good scrape has behind it are fresh.
Queried ==
  allGood => \A i \in 1 .. pos - 1 : Families[i] \in expected => gauge[Families[i]] \in since[Families[i]]

UpInv == ExporterTypes /\ CacheKnows /\ SinceIsCurrent /\ Queried /\ UpMeansFresh

-----------------------------------------------------------------------------

\* One query: what it asks for is fresh afterwards, or the scrape is not good (collector.go).
LEMMA QueryKeepsUpInv == ASSUME UpInv, Query PROVE UpInv'
<1> USE ExporterAssumption
<1> DEFINE f == Families[pos]
           present == IF Serves THEN known ELSE Existing
<1>1. /\ pos \in 1 .. Len(Families) /\ pos' = pos + 1 /\ f \in Names
      /\ UNCHANGED <<value, up, since, expected>>
  BY DEF Query, UpInv, ExporterTypes, Names, ToSet
<1>2. CASE ~answers /\ (~Serves \/ f \in known)
  <2>1. allGood' = FALSE /\ UNCHANGED <<known, cached, gauge>>
    BY <1>1, <1>2 DEF Query, Counts
  <2>2. ExporterTypes'
    BY <1>1, <2>1 DEF UpInv, ExporterTypes
  <2>3. CacheKnows' /\ SinceIsCurrent'
    BY <1>1, <2>1 DEF UpInv, CacheKnows, Existing, SinceIsCurrent
  <2>4. Queried' /\ UpMeansFresh'
    BY <1>1, <2>1 DEF UpInv, Queried, UpMeansFresh
  <2> QED  BY <2>2, <2>3, <2>4 DEF UpInv
<1>3. CASE ~(~answers /\ (~Serves \/ f \in known))
  <2>1. /\ known' = present /\ cached' = IF Serves THEN cached ELSE "fresh"
        /\ gauge' = IF f \in present THEN [gauge EXCEPT ![f] = value[f]]
                    ELSE IF f = "datasets" THEN [gauge EXCEPT ![f] = 0] ELSE gauge
        /\ UNCHANGED allGood
    BY <1>3 DEF Query
  <2>2. present \subseteq Existing /\ expected \subseteq present
    BY DEF UpInv, CacheKnows, Serves
  <2>3. CacheKnows'
    BY <1>1, <2>1, <2>2 DEF UpInv, CacheKnows, Existing
  <2>4. ExporterTypes'
    BY <1>1, <2>1 DEF UpInv, ExporterTypes
  <2>5. ASSUME NEW i \in 1 .. pos, allGood, Families[i] \in expected
        PROVE  gauge'[Families[i]] \in since[Families[i]]
    <3>1. Families[i] \in Names
      BY <1>1, <2>5 DEF Names, ToSet
    <3>2. CASE Families[i] = f
      BY <1>1, <2>1, <2>2, <2>5, <3>1, <3>2 DEF UpInv, ExporterTypes, SinceIsCurrent
    <3>3. CASE Families[i] # f
      <4>1. i \in 1 .. pos - 1
        BY <1>1, <3>3, <2>5
      <4>2. gauge'[Families[i]] = gauge[Families[i]]
        BY <2>1, <3>1, <3>3 DEF UpInv, ExporterTypes
      <4> QED  BY <4>1, <4>2, <2>5 DEF UpInv, Queried
    <3> QED  BY <3>2, <3>3
  <2>6. Queried'
    BY <1>1, <2>1, <2>5 DEF Queried
  <2> QED  BY <1>1, <2>3, <2>4, <2>6 DEF UpInv, SinceIsCurrent, UpMeansFresh
<1> QED  BY <1>2, <1>3

\* The scrape ends: every family is behind it (Run).
LEMMA ScrapeEndKeepsUpInv == ASSUME UpInv, ScrapeEnd PROVE UpInv'
<1> USE ExporterAssumption
<1>1. /\ pos = Len(Families) + 1 /\ pos' = 0 /\ up' = allGood
      /\ UNCHANGED <<value, since, expected, known, cached, allGood, gauge>>
  BY DEF ScrapeEnd
<1>2. \A f \in Names : \E i \in 1 .. pos - 1 : f = Families[i]
  BY <1>1 DEF Names, ToSet
<1>3. expected \subseteq Names
  BY DEF UpInv, CacheKnows, Existing
<1>4. UpMeansFresh'
  BY <1>1, <1>2, <1>3 DEF UpInv, Queried, UpMeansFresh
<1> QED  BY <1>1, <1>4 DEF UpInv, ExporterTypes, CacheKnows, Existing, SinceIsCurrent, Queried

\* A write makes a table, or changes it; what the gauges show stays within what it has held.
LEMMA WriteKeepsUpInv == ASSUME UpInv, NEW f \in Names, Write(f) PROVE UpInv'
<1> USE ExporterAssumption
<1>1. /\ value' = [value EXCEPT ![f] = @ + 1]
      /\ since' = [since EXCEPT ![f] = @ \cup {value'[f]}]
      /\ UNCHANGED <<known, cached, pos, allGood, gauge, up, expected>>
  BY DEF Write, scrapeVars
<1>2. ExporterTypes'
  BY <1>1 DEF UpInv, ExporterTypes
<1>3. \A g \in Names : since[g] \subseteq since'[g]
  BY <1>1 DEF UpInv, ExporterTypes
<1>4. SinceIsCurrent'
  BY <1>1 DEF UpInv, ExporterTypes, SinceIsCurrent
<1>5. Existing \subseteq Existing'
  BY <1>1 DEF UpInv, ExporterTypes, Existing
<1>6. \A g \in expected : g \in Names
  BY DEF UpInv, CacheKnows, Existing
<1> QED  BY <1>1, <1>2, <1>3, <1>4, <1>5, <1>6 DEF UpInv, CacheKnows, Queried, UpMeansFresh

\* The invariant holds in every behaviour of the exporter and its database.
THEOREM UpInvariant == ExporterSpec => []UpInv
<1> USE ExporterAssumption
<1>1. ExporterInit => UpInv
  <2>1. SUFFICES ASSUME ExporterInit PROVE UpInv
    OBVIOUS
  <2>2. ExporterTypes
    <3>1. Len(Families) \in Nat
      OBVIOUS
    <3>2. \A f \in Names : since[f] \in SUBSET Nat
      BY <2>1 DEF ExporterInit
    <3> QED  BY <2>1, <3>1, <3>2 DEF ExporterInit, ExporterTypes
  <2>3. Queried /\ UpMeansFresh
    BY <2>1 DEF ExporterInit, Queried, UpMeansFresh
  <2> QED  BY <2>1, <2>2, <2>3 DEF ExporterInit, UpInv, CacheKnows, SinceIsCurrent
<1>2. UpInv /\ [ExporterNext]_exporterVars => UpInv'
  <2>1. SUFFICES ASSUME UpInv, [ExporterNext]_exporterVars PROVE UpInv'
    OBVIOUS
  <2>2. CASE ScrapeStart
    <3>1. /\ pos' = 1 /\ allGood' = TRUE
          /\ expected' = IF cached = "fresh" THEN known ELSE Existing
          /\ since' = [f \in Names |-> {value[f]}]
          /\ UNCHANGED <<value, known, cached, gauge, up>>
      BY <2>2 DEF ScrapeStart
    <3> QED  BY <2>1, <3>1 DEF UpInv, ExporterTypes, CacheKnows, Existing, SinceIsCurrent, Queried, UpMeansFresh
  <2>3. CASE Query  BY <2>1, <2>3, QueryKeepsUpInv
  <2>4. CASE ScrapeEnd  BY <2>1, <2>4, ScrapeEndKeepsUpInv
  <2>5. CASE Minute
    <3>1. cached' = "old" /\ UNCHANGED <<value, pos, allGood, gauge, up, since, expected, known>>
      BY <2>5 DEF Minute
    <3> QED  BY <2>1, <3>1 DEF UpInv, ExporterTypes, CacheKnows, Existing, SinceIsCurrent, Queried, UpMeansFresh
  <2>6. ASSUME NEW f \in Names, Write(f) PROVE UpInv'
    BY <2>1, <2>6, WriteKeepsUpInv
  <2>7. CASE Connect \/ DbFlips \/ UNCHANGED exporterVars
    <3>1. UNCHANGED <<value, known, cached, pos, allGood, gauge, up, since, expected>>
      BY <2>7 DEF Connect, DbFlips, scrapeVars, exporterVars
    <3> QED  BY <2>1, <3>1 DEF UpInv, ExporterTypes, CacheKnows, Existing, SinceIsCurrent, Queried, UpMeansFresh
  <2> QED  BY <2>1, <2>2, <2>3, <2>4, <2>5, <2>6, <2>7 DEF ExporterNext, Exports
<1> QED  BY <1>1, <1>2, PTL DEF ExporterSpec

\* Between two scrapes, up = 1 vouches for every gauge (scrape: ok = false).
THEOREM UpVouches == ExporterSpec => []UpMeansFresh
BY UpInvariant, PTL DEF UpInv

-----------------------------------------------------------------------------
(* The scan: SkippedWasEarned for every list of directories, every set of  *)
(* recordings, every policy and all limits, and any number of uploads and  *)
(* requests.                                                               *)
(*                                                                         *)
(* The registry alone does not say why a run is successful, so the         *)
(* invariant follows a verdict from the validation that finds it, through  *)
(* the bundle a validator carries between its transactions, into the runs  *)
(* of the registry and from there into the summary of a scan.              *)

Statuses == {"PASS", "WARN", "FAIL"}
Carrying == {"dataset", "run", "write"}

\* What a validator carries is a verdict, and a good one has been found.
BundleEarned(p) ==
  scanAt[p] \in Carrying =>
    /\ bundle[p].report \in Statuses
    /\ bundle[p].gate \in Statuses \cup {"SKIP"}
    /\ bundle[p].report # "FAIL" /\ bundle[p].gate # "FAIL" => <<bundle[p].id, bundle[p].version>> \in passed

RunsEarned ==
  \A r \in recorded : r.status \in {"PASS", "WARN"} => <<r.id, r.version>> \in passed

Functions == scanAt \in [Validators -> {"idle", "peek", "load"} \cup Carrying] /\ bundle = [p \in Validators |-> bundle[p]]

ScanInv ==
  /\ Functions
  /\ \A p \in Validators : BundleEarned(p)
  /\ RunsEarned
  /\ SkippedWasEarned

-----------------------------------------------------------------------------

\* The worst of any statuses is a status (ValidationReport.overall_status, evaluate_gate).
LEMMA WorstIsAStatus == ASSUME NEW S PROVE Worst(S) \in Statuses
BY DEF Worst, Statuses

\* The gate can make a status worse and nothing else (record_validation_run).
LEMMA CombinedIsGoodOnlyIfBothAre ==
  ASSUME NEW judged \in Statuses, NEW gated \in Statuses \cup {"SKIP"}
  PROVE  /\ Combined(judged, gated) \in Statuses
         /\ Combined(judged, gated) # "FAIL" => judged # "FAIL" /\ gated # "FAIL"
BY DEF Combined, Statuses

\* A validation's verdict is added to passed in the step that finds it (run_validation).
LEMMA LoadKeepsScanInv ==
  ASSUME ScanInv, NEW p \in Validators, Load(p)
  PROVE  ScanInv'
<1> DEFINE id == Head(left[p])
           c == content[id]
<1>1. scanAt[p] = "load" /\ UNCHANGED recorded
  BY DEF Load
<1>2. CASE ~Loadable(c)
  <2>1. /\ scanAt' = [scanAt EXCEPT ![p] = "idle"] /\ bundle' = [bundle EXCEPT ![p] = NoBundle]
        /\ summary' \in {summary, {}} /\ UNCHANGED passed
    BY <1>2 DEF Load, Gone, ScanGoto
  <2> QED  BY <1>1, <2>1 DEF ScanInv, Functions, BundleEarned, RunsEarned, SkippedWasEarned, Carrying
<1>3. CASE Loadable(c)
  <2> DEFINE b == [run |-> bundle[p].run, id |-> id, version |-> c.version,
                   report |-> ReportStatus(c), gate |-> GateStatus(bundle[p].policy, c)]
  <2>1. /\ scanAt' = [scanAt EXCEPT ![p] = "dataset"] /\ bundle' = [bundle EXCEPT ![p] = b]
        /\ passed' = IF Good(c, bundle[p].policy) THEN passed \cup {<<id, c.version>>} ELSE passed
        /\ UNCHANGED summary
    BY <1>3 DEF Load, ScanGoto
  <2>2. b.report \in Statuses /\ b.gate \in Statuses \cup {"SKIP"}
    BY WorstIsAStatus DEF ReportStatus, GateStatus
  <2>3. b.report # "FAIL" /\ b.gate # "FAIL" => <<b.id, b.version>> \in passed'
    BY <2>1 DEF Good
  <2>4. passed \subseteq passed'
    BY <2>1
  <2>5. bundle'[p] = b /\ \A q \in Validators \ {p} : bundle'[q] = bundle[q] /\ scanAt'[q] = scanAt[q]
    BY <2>1 DEF ScanInv, Functions
  <2>6. Functions'
    <3> HIDE DEF b
    <3> QED  BY <2>1 DEF ScanInv, Functions, Carrying
  <2>7. ASSUME NEW q \in Validators PROVE BundleEarned(q)'
    <3>1. CASE q = p
      <4> HIDE DEF b
      <4> QED  BY <3>1, <2>2, <2>3, <2>5 DEF BundleEarned
    <3>2. CASE q # p
      BY <3>2, <2>4, <2>5 DEF ScanInv, BundleEarned
    <3> QED  BY <3>1, <3>2
  <2> QED  BY <1>1, <2>1, <2>4, <2>6, <2>7 DEF ScanInv, RunsEarned, SkippedWasEarned
<1> QED  BY <1>2, <1>3

\* A run enters the registry with a verdict that was found (record_validation_run), also
\* when it replaces another one.
LEMMA RegisterRunKeepsScanInv ==
  ASSUME ScanInv, NEW p \in Validators, RegisterRun(p)
  PROVE  ScanInv'
<1> DEFINE b == bundle[p]
           status == Combined(b.report, b.gate)
<1>1. /\ scanAt[p] = "run" /\ scanAt' = [scanAt EXCEPT ![p] = "write"]
      /\ recorded' = {r \in recorded : r.run # b.run}
                       \cup {[run |-> b.run, id |-> b.id, version |-> b.version, status |-> status]}
      /\ UNCHANGED <<bundle, summary, passed>>
  BY DEF RegisterRun, RecordValidationRun, CreateRunRow, ScanGoto
<1>2. status # "FAIL" => <<b.id, b.version>> \in passed
  BY <1>1, CombinedIsGoodOnlyIfBothAre DEF ScanInv, BundleEarned, Carrying
<1>3. RunsEarned'
  <2> HIDE DEF status
  <2>1. SUFFICES ASSUME NEW r \in recorded', r.status \in {"PASS", "WARN"} PROVE <<r.id, r.version>> \in passed
    BY <1>1 DEF RunsEarned
  <2>2. CASE r \in recorded
    BY <2>1, <2>2 DEF ScanInv, RunsEarned
  <2>3. CASE r = [run |-> b.run, id |-> b.id, version |-> b.version, status |-> status]
    BY <2>1, <2>3, <1>2
  <2> QED  BY <1>1, <2>2, <2>3
<1> QED  BY <1>1, <1>3 DEF ScanInv, Functions, BundleEarned, SkippedWasEarned, Carrying

\* What a validation itself reports is never SKIPPED (scan_datasets).
LEMMA WriteAgainKeepsScanInv ==
  ASSUME ScanInv, NEW p \in Validators, WriteAgain(p)
  PROVE  ScanInv'
<1> DEFINE status == Combined(bundle[p].report, bundle[p].gate)
<1>1. /\ scanAt[p] = "write" /\ scanAt' = [scanAt EXCEPT ![p] = IF p = "cron" THEN "peek" ELSE "idle"]
      /\ bundle' = [bundle EXCEPT ![p] = NoBundle]
      /\ summary' \in {summary, summary \cup {[id |-> bundle[p].id, version |-> bundle[p].version,
                                               status |-> status]}}
      /\ UNCHANGED <<recorded, passed>>
  BY DEF WriteAgain, ScanGoto
<1>2. status # "SKIPPED"
  BY <1>1, CombinedIsGoodOnlyIfBothAre DEF ScanInv, BundleEarned, Carrying, Statuses
<1>3. SkippedWasEarned'
  <2> HIDE DEF status
  <2> QED  BY <1>1, <1>2 DEF ScanInv, SkippedWasEarned
<1>4. Functions' /\ \A q \in Validators : BundleEarned(q)'
  BY <1>1 DEF ScanInv, Functions, BundleEarned, Carrying
<1> QED  BY <1>1, <1>3, <1>4 DEF ScanInv, RunsEarned

\* A scan skips what has a successful run (has_successful_run).
LEMMA PeekKeepsScanInv == ASSUME ScanInv, Peek PROVE ScanInv'
<1> DEFINE id == Head(left["cron"])
           version == content[id].version
<1>1. scanAt["cron"] = "peek" /\ UNCHANGED <<recorded, passed>>
  BY DEF Peek
<1>2. CASE HasSuccessfulRun(id, version)
  <2>1. summary' = summary \cup {[id |-> id, version |-> version, status |-> "SKIPPED"]} /\ UNCHANGED <<scanAt, bundle>>
    BY <1>2 DEF Peek
  <2>2. <<id, version>> \in passed
    BY <1>2 DEF HasSuccessfulRun, ScanInv, RunsEarned
  <2> HIDE DEF id, version
  <2> QED  BY <1>1, <2>1, <2>2 DEF ScanInv, Functions, BundleEarned, RunsEarned, SkippedWasEarned
<1>3. CASE ~HasSuccessfulRun(id, version)
  <2>1. PICK b : scanAt' = [scanAt EXCEPT !["cron"] = "load"] /\ bundle' = [bundle EXCEPT !["cron"] = b] /\ UNCHANGED summary
    BY <1>3 DEF Peek, ScanGoto
  <2> QED  BY <1>1, <2>1 DEF ScanInv, Functions, BundleEarned, RunsEarned, SkippedWasEarned, Carrying
<1> QED  BY <1>2, <1>3

\* A request scans one directory.
LEMMA RequestKeepsScanInv == ASSUME ScanInv, NEW k \in DOMAIN Dirs, Request(k) PROVE ScanInv'
<1>1. PICK b : scanAt' = [scanAt EXCEPT !["client"] = "load"] /\ bundle' = [bundle EXCEPT !["client"] = b]
               /\ UNCHANGED <<summary, recorded, passed>>
  BY DEF Request, ScanGoto
<1> QED  BY <1>1 DEF ScanInv, Functions, BundleEarned, RunsEarned, SkippedWasEarned, Carrying

\* The invariant holds in every behaviour of scans, requests, uploads and failures.
THEOREM ScanInvariant == ScanSpec => []ScanInv
<1>1. ScanInit => ScanInv
  BY DEF ScanInit, ScanInv, Functions, BundleEarned, RunsEarned, SkippedWasEarned, Carrying
<1>2. ScanInv /\ [ScanNext]_scanVars => ScanInv'
  <2>1. SUFFICES ASSUME ScanInv, [ScanNext]_scanVars PROVE ScanInv'
    OBVIOUS
  <2>2. ASSUME NEW p \in Validators, Validate(p) PROVE ScanInv'
    <3>1. CASE Load(p)  BY <2>1, <3>1, LoadKeepsScanInv
    <3>2. CASE RegisterDataset(p)
      BY <2>1, <3>2 DEF RegisterDataset, ScanGoto, ScanInv, Functions, BundleEarned, RunsEarned, SkippedWasEarned, Carrying
    <3>3. CASE RegisterRun(p)  BY <2>1, <3>3, RegisterRunKeepsScanInv
    <3>4. CASE WriteAgain(p)  BY <2>1, <3>4, WriteAgainKeepsScanInv
    <3> QED  BY <2>2, <3>1, <3>2, <3>3, <3>4 DEF Validate
  <2>3. CASE ScanStarts
    BY <2>1, <2>3 DEF ScanStarts, ScanGoto, ScanInv, Functions, BundleEarned, RunsEarned, SkippedWasEarned, Carrying
  <2>4. CASE Peek  BY <2>1, <2>4, PeekKeepsScanInv
  <2>5. CASE ScanEnds
    BY <2>1, <2>5 DEF ScanEnds, ScanGoto, ScanInv, Functions, BundleEarned, RunsEarned, SkippedWasEarned, Carrying
  <2>6. ASSUME NEW p \in Validators, Raises(p) PROVE ScanInv'
    <3>1. /\ scanAt' = [scanAt EXCEPT ![p] = "idle"] /\ bundle' = [bundle EXCEPT ![p] = NoBundle]
          /\ summary' \in {summary, {}} /\ UNCHANGED <<recorded, passed>>
      BY <2>6 DEF Raises, Gone, ScanGoto
    <3> QED  BY <2>1, <3>1 DEF ScanInv, Functions, BundleEarned, RunsEarned, SkippedWasEarned, Carrying
  <2>7. ASSUME NEW k \in DOMAIN Dirs, Request(k) PROVE ScanInv'
    BY <2>1, <2>7, RequestKeepsScanInv
  <2>8. CASE NextSecond \/ (\E k \in DOMAIN Dirs : Upload(k)) \/ UNCHANGED scanVars
    <3>1. UNCHANGED <<scanAt, bundle, recorded, passed, summary>>
      BY <2>8 DEF NextSecond, Upload, scanVars
    <3> QED  BY <2>1, <3>1 DEF ScanInv, Functions, BundleEarned, RunsEarned, SkippedWasEarned
  <2> QED
    BY <2>1, <2>2, <2>3, <2>4, <2>5, <2>6, <2>7, <2>8 DEF ScanNext, Scan, Validators
<1> QED  BY <1>1, <1>2, PTL DEF ScanSpec

\* What a scan leaves out, a validation has found good (scan_datasets with --only-new).
THEOREM SkipsAreEarned == ScanSpec => []SkippedWasEarned
BY ScanInvariant, PTL DEF ScanInv

-----------------------------------------------------------------------------
(* The planner: any number of datasets of any size, any target and any cap. *)

\* While the loop runs, the open shards are 1 .. n, and each was opened for a
\* dataset of its own: there are no more of them than datasets placed.
Placed == Datasets \ Unplaced
Opened ==
  pc = "packing" =>
    /\ n <= cap
    /\ n <= Cardinality(Placed)
    /\ place \in [Datasets -> 0 .. n]

PlannerInv == TypeOK /\ Opened /\ NoTwoMergeable

-----------------------------------------------------------------------------
\* The datasets that have a shard can be counted.
LEMMA PlacedFinite == IsFiniteSet(Placed) /\ Cardinality(Placed) \in Nat
<1>1. IsFiniteSet(Datasets)
  BY PlannerAssumption, FS_Interval DEF Datasets
<1>2. Placed \in SUBSET Datasets
  BY DEF Placed
<1> QED
  BY <1>1, <1>2, FS_Subset, FS_CardinalityType

\* One dataset more is placed, and there was room for it.
LEMMA PlaceOne ==
  ASSUME TypeOK, NEW d \in Unplaced, NEW i \in 1 .. n + 1,
         place' = [place EXCEPT ![d] = i]
  PROVE  /\ Cardinality(Placed') = Cardinality(Placed) + 1
         /\ Cardinality(Placed) + 1 <= N
<1> USE PlannerAssumption DEF TypeOK, Datasets
<1>1. IsFiniteSet(Datasets) /\ Cardinality(Datasets) = N
  BY FS_Interval
<1>2. Placed' = Placed \union {d} /\ d \notin Placed
  BY DEF Placed, Unplaced
<1>3. IsFiniteSet(Placed) /\ Cardinality(Placed) \in Nat
  BY <1>1, FS_Subset, FS_CardinalityType DEF Placed
<1>4. Cardinality(Placed \union {d}) = Cardinality(Placed) + 1
  BY <1>2, <1>3, FS_AddElement
<1>5. Cardinality(Placed \union {d}) <= N
  BY <1>1, FS_Subset DEF Placed, Unplaced
<1> QED
  BY <1>2, <1>4, <1>5

\* It holds of an empty plan.
LEMMA PlannerInitInv == Init => PlannerInv
<1> SUFFICES ASSUME Init PROVE PlannerInv
  OBVIOUS
<1> USE PlannerAssumption DEF Init
<1>1. TypeOK
  BY DEF TypeOK, Datasets, Slots
<1>2. Placed = {}
  BY DEF Placed, Unplaced
<1>3. Opened
  BY <1>2, FS_EmptySet DEF Opened
<1>4. NoTwoMergeable
  <2>1. Shards = {}
    BY DEF Shards, Slots
  <2> QED
    BY <2>1 DEF NoTwoMergeable
<1> QED
  BY <1>1, <1>3, <1>4 DEF PlannerInv

\* A dataset goes into an open shard: sizes only grow.
LEMMA StepOpen ==
  ASSUME PlannerInv, NEW d \in Unplaced, NEW i \in Shards, pc = "packing",
         Put(d, i), UNCHANGED <<input, n, pc>>
  PROVE  PlannerInv'
<1> USE PlannerAssumption DEF PlannerInv, input
<1>1. TypeOK'
  BY SMTT(30) DEF TypeOK, Put, Unplaced, Shards, Slots
<1>2. Opened'
  <2>1. i \in 1 .. n + 1
    BY DEF Shards, Slots, TypeOK
  <2>2. place' = [place EXCEPT ![d] = i]
    BY DEF Put
  <2>3. Cardinality(Placed') = Cardinality(Placed) + 1
    BY <2>1, <2>2, PlaceOne
  <2>4. place' \in [Datasets -> 0 .. n]
    <3>1. place \in [Datasets -> 0 .. n]
      BY DEF Opened
    <3>2. i \in 0 .. n
      BY DEF Shards, Slots, TypeOK
    <3> QED
      BY <2>2, <3>1, <3>2
  <2> QED
    BY <2>3, <2>4, PlacedFinite DEF Opened, TypeOK
<1>3. NoTwoMergeable'
  <2>1. \A k \in Slots : total[k] \in Nat /\ total'[k] >= total[k]
    BY DEF TypeOK, Put, Unplaced
  <2>2. \A k \in Slots : total'[k] \in Nat
    BY <1>1 DEF TypeOK
  <2>3. target \in Nat /\ target' = target /\ Shards' = Shards
    BY DEF TypeOK, Shards, Slots
  <2> QED
    BY <2>1, <2>2, <2>3 DEF NoTwoMergeable, Shards
<1> QED
  BY <1>1, <1>2, <1>3

\* A dataset that fits nowhere opens a shard: it could not be merged with any.
LEMMA StepNew ==
  ASSUME PlannerInv, NEW d \in Unplaced, pc = "packing", FitsNowhere(d), ~Full,
         Put(d, n + 1), n' = n + 1, UNCHANGED <<input, pc>>
  PROVE  PlannerInv'
<1> USE PlannerAssumption DEF PlannerInv, input
<1>1. /\ Cardinality(Placed') = Cardinality(Placed) + 1
      /\ Cardinality(Placed) + 1 <= N
  <2>1. n + 1 \in 1 .. n + 1
    BY DEF TypeOK
  <2>2. place' = [place EXCEPT ![d] = n + 1]
    BY DEF Put
  <2> QED
    BY <2>1, <2>2, PlaceOne
<1>2. Cardinality(Placed) \in Nat
  BY PlacedFinite
<1>3. n + 1 \in Slots /\ n + 1 <= cap
  BY <1>1, <1>2 DEF Opened, Full, Slots, TypeOK
<1>4. place' \in [Datasets -> 0 .. n + 1] /\ total' \in [Slots -> Nat]
  BY <1>3 DEF TypeOK, Put, Unplaced, Opened
<1>5. TypeOK' /\ Opened'
  <2>1. TypeOK'
    BY <1>3, <1>4 DEF TypeOK, Slots
  <2>2. Opened'
    BY <1>1, <1>2, <1>3, <1>4 DEF Opened, TypeOK
  <2> QED
    BY <2>1, <2>2
<1>6. total[n + 1] \in Nat /\ total' = [total EXCEPT ![n + 1] = total[n + 1] + size[d]]
  BY <1>3 DEF TypeOK, Put
<1>7. size[d] \in Nat /\ target \in Nat /\ n \in Nat /\ total \in [Slots -> Nat]
  BY DEF TypeOK, Unplaced
<1>8. NoTwoMergeable'
  <2> SUFFICES ASSUME NEW i \in Shards', NEW j \in Shards', i # j, N > 0
               PROVE  total'[i] + total'[j] > target
    BY DEF NoTwoMergeable
  <2>1. \A k \in Shards : total[k] + size[d] > target
    BY <1>7 DEF FitsNowhere, Fits, Shards
  <2>2. CASE i # n + 1 /\ j # n + 1
    BY <2>2, <1>6, <1>7 DEF Shards, NoTwoMergeable, Slots
  <2>3. CASE i = n + 1
    BY <2>1, <2>3, <1>6, <1>7 DEF Shards, Slots
  <2>4. CASE j = n + 1
    BY <2>1, <2>4, <1>6, <1>7 DEF Shards, Slots
  <2> QED
    BY <2>2, <2>3, <2>4
<1> QED
  BY <1>5, <1>8

\* Placing a dataset keeps it.
LEMMA PlannerStepInv == PlannerInv /\ [Next]_vars => PlannerInv'
<1> SUFFICES ASSUME PlannerInv, [Next]_vars PROVE PlannerInv'
  OBVIOUS
<1>1. CASE PlaceFirst
  <2>1. PICK d \in NextDataset : \E i \in FirstFit(d) : Put(d, i)
    BY <1>1 DEF PlaceFirst
  <2>2. PICK i \in FirstFit(d) : Put(d, i)
    BY <2>1
  <2> QED
    BY <1>1, <2>2, StepOpen DEF PlaceFirst, NextDataset, FirstFit
<1>2. CASE PlaceOverflow
  <2>1. PICK d \in NextDataset : \E i \in Smallest : Put(d, i)
    BY <1>2 DEF PlaceOverflow
  <2>2. PICK i \in Smallest : Put(d, i)
    BY <2>1
  <2> QED
    BY <1>2, <2>2, StepOpen DEF PlaceOverflow, NextDataset, Smallest
<1>3. CASE PlaceNew
  <2>1. PICK d \in NextDataset : FitsNowhere(d) /\ ~Full /\ Put(d, n + 1)
    BY <1>3 DEF PlaceNew
  <2> QED
    BY <1>3, <2>1, StepNew DEF PlaceNew, NextDataset
<1>4. CASE Raise
  BY <1>4 DEF Raise, PlannerInv, TypeOK, Opened, NoTwoMergeable, input, Shards,
              Datasets, Slots
<1>5. CASE Finish
  <2> USE <1>5, PlannerAssumption
          DEF Finish, PlannerInv, TypeOK, NoTwoMergeable, input, Shards, Datasets, Slots
  <2>1. CASE n # 0
    BY <2>1 DEF Opened
  <2>2. CASE n = 0
    <3>1. Datasets = {}
      BY <2>2 DEF Unplaced
    <3> QED
      BY <2>2, <3>1 DEF Opened
  <2> QED
    BY <2>1, <2>2
<1>6. CASE UNCHANGED vars
  BY <1>6 DEF vars, input, PlannerInv, TypeOK, Opened, NoTwoMergeable, Placed,
              Unplaced, Shards, Datasets, Slots
<1> QED
  BY <1>1, <1>2, <1>3, <1>4, <1>5, <1>6 DEF Next

\* The invariant holds in every plan, at every step of the planner.
THEOREM PlannerInvariant == Spec => []PlannerInv
  BY PlannerInitInv, PlannerStepInv, PTL DEF Spec

\* Types, and max_shards as a hard limit.
THEOREM PlannerTypeCorrect == Spec => []TypeOK
  BY PlannerInvariant, PTL DEF PlannerInv

\* First fit wastes no shard: no two of them would fit into one.
THEOREM NoneMergeable == Spec => []NoTwoMergeable
  BY PlannerInvariant, PTL DEF PlannerInv

-----------------------------------------------------------------------------
(* What overflows is spread.                                               *)

\* The members of the other shards stay, and the shard has one more.
LEMMA PutMembers ==
  ASSUME TypeOK, NEW d \in Unplaced, NEW k, place' = [place EXCEPT ![d] = k]
  PROVE  /\ Members(k)' = Members(k) \union {d}
         /\ \A i \in Slots \ {k} : Members(i)' = Members(i)
  BY DEF Members, Unplaced, TypeOK, Slots

\* First fit stays below the target, so it disturbs no shard above it.
LEMMA SpreadFirst ==
  ASSUME PlannerInv, OverflowIsSpread, NEW d \in Unplaced, NEW k \in Shards, Fits(k, d),
         Put(d, k), UNCHANGED <<input, n>>
  PROVE  OverflowIsSpread'
<1> USE DEF PlannerInv, TypeOK, input
<1>1. /\ target \in Nat /\ size[d] \in Nat /\ Shards \subseteq Slots /\ Shards' = Shards
      /\ total \in [Slots -> Nat] /\ total' = [total EXCEPT ![k] = total[k] + size[d]]
  BY PlannerAssumption DEF Shards, Put, Unplaced
<1>2. \A i \in Slots \ {k} : Members(i)' = Members(i)
  BY PutMembers DEF Put
<1>3. \A i \in Shards : total'[i] > target => i # k /\ total[i] > target
  BY <1>1 DEF Fits
<1>4. OverTargetOnlyIfForced'
  BY <1>1, <1>2, <1>3 DEF OverflowIsSpread, OverTargetOnlyIfForced
<1>5. Balanced'
  <2> SUFFICES ASSUME NEW i \in Shards, NEW j \in Shards, total'[i] > target,
                      Cardinality(Members(i)') > 1
               PROVE  \E e \in Members(i)' : total'[i] <= total'[j] + size[e]
    BY <1>1 DEF Balanced
  <2>1. i # k /\ total[i] > target /\ Members(i)' = Members(i)
    BY <1>1, <1>2, <1>3
  <2>2. PICK e \in Members(i) : total[i] <= total[j] + size[e]
    BY <2>1 DEF OverflowIsSpread, Balanced
  <2>3. total'[i] = total[i] /\ total'[j] >= total[j] /\ size[e] \in Nat
    BY <1>1, <2>1 DEF Members
  <2>4. total'[i] <= total'[j] + size[e]
    BY <1>1, <2>2, <2>3
  <2> QED
    BY <2>1, <2>4
<1> QED
  BY <1>4, <1>5 DEF OverflowIsSpread

\* A new shard holds one dataset, and while one may be opened no other shard
\* above the target holds more.
LEMMA SpreadNew ==
  ASSUME PlannerInv, OverflowIsSpread, NEW d \in Unplaced, NEW k \in Nat, k = n + 1, pc = "packing", ~Full,
         Put(d, k), n' = n + 1, UNCHANGED input
  PROVE  OverflowIsSpread'
<1> USE DEF PlannerInv, TypeOK, input
<1>1. /\ n \in Nat /\ cap \in Nat /\ n < cap /\ target' = target /\ size' = size /\ cap' = cap
      /\ Shards' \subseteq Shards \union {k} /\ Shards' \subseteq Slots
      /\ \A i \in Slots \ {k} : total'[i] = total[i]
  BY PlannerAssumption DEF Shards, Put, Full, Slots
<1>2. /\ \A i \in Slots \ {k} : Members(i)' = Members(i)
      /\ Members(k)' = Members(k) \union {d}
  BY PutMembers DEF Put
<1>3. Members(k) = {}
  BY <1>1 DEF Opened, Members
<1>4. Cardinality(Members(k)') = 1
  <2>1. Members(k)' = {d}
    BY <1>2, <1>3
  <2> QED
    BY <2>1, FS_Singleton
<1>5. \A i \in Shards' : total'[i] > target => Cardinality(Members(i)') = 1
  <2> SUFFICES ASSUME NEW i \in Shards', total'[i] > target, i # k
               PROVE  Cardinality(Members(i)') = 1
    BY <1>4
  <2>1. i \in Shards /\ total[i] > target /\ Members(i)' = Members(i)
    BY <1>1, <1>2
  <2> QED
    BY <1>1, <2>1 DEF OverflowIsSpread, OverTargetOnlyIfForced
<1> QED
  BY <1>1, <1>5 DEF OverflowIsSpread, OverTargetOnlyIfForced, Balanced

\* Once no shard may be opened, the smallest takes the dataset: it ends at most
\* one dataset above any other.
LEMMA SpreadOverflow ==
  ASSUME PlannerInv, OverflowIsSpread, pc = "packing", Full, NEW d \in Unplaced,
         NEW k \in Smallest, Put(d, k), UNCHANGED <<input, n>>
  PROVE  OverflowIsSpread'
<1> USE DEF PlannerInv, TypeOK, input
<1>1. /\ target \in Nat /\ size[d] \in Nat /\ Shards \subseteq Slots /\ Shards' = Shards
      /\ k \in Shards /\ total \in [Slots -> Nat]
      /\ total' = [total EXCEPT ![k] = total[k] + size[d]]
  BY PlannerAssumption DEF Shards, Put, Unplaced, Smallest
<1>2. n' = cap'
  BY PlannerAssumption DEF Opened, Full
<1>3. /\ Members(k)' = Members(k) \union {d}
      /\ \A i \in Slots \ {k} : Members(i)' = Members(i)
  BY PutMembers DEF Put
<1>4. Balanced'
  <2> SUFFICES ASSUME NEW i \in Shards, NEW j \in Shards, total'[i] > target,
                      Cardinality(Members(i)') > 1
               PROVE  \E e \in Members(i)' : total'[i] <= total'[j] + size[e]
    BY <1>1 DEF Balanced
  <2>1. CASE i = k
    <3>1. total[k] <= total[j] /\ total'[j] >= total[j]
      BY <1>1 DEF Smallest
    <3>2. total'[k] <= total'[j] + size[d]
      BY <1>1, <3>1
    <3> QED
      BY <1>3, <2>1, <3>2
  <2>2. CASE i # k
    <3>1. total'[i] = total[i] /\ total'[j] >= total[j] /\ Members(i)' = Members(i)
      BY <1>1, <1>3, <2>2
    <3>2. PICK e \in Members(i) : total[i] <= total[j] + size[e]
      BY <1>1, <3>1 DEF OverflowIsSpread, Balanced
    <3>3. size[e] \in Nat /\ total[i] \in Nat /\ total[j] \in Nat /\ total'[j] \in Nat
      BY <1>1 DEF Members
    <3>4. total'[i] <= total'[j] + size[e]
      BY <3>1, <3>2, <3>3
    <3> QED
      BY <3>1, <3>4
  <2> QED
    BY <2>1, <2>2
<1> QED
  BY <1>2, <1>4 DEF OverflowIsSpread, OverTargetOnlyIfForced

\* Placing a dataset keeps the overflow spread.
LEMMA StepSpread == PlannerInv /\ OverflowIsSpread /\ [Next]_vars => OverflowIsSpread'
<1> SUFFICES ASSUME PlannerInv, OverflowIsSpread, [Next]_vars PROVE OverflowIsSpread'
  OBVIOUS
<1>1. CASE PlaceFirst
  <2>1. PICK d \in NextDataset : \E i \in FirstFit(d) : Put(d, i)
    BY <1>1 DEF PlaceFirst
  <2>2. PICK i \in FirstFit(d) : Put(d, i)
    BY <2>1
  <2> QED
    BY <1>1, <2>2, SpreadFirst DEF PlaceFirst, NextDataset, FirstFit
<1>2. CASE PlaceOverflow
  <2>1. PICK d \in NextDataset : Full /\ \E i \in Smallest : Put(d, i)
    BY <1>2 DEF PlaceOverflow
  <2>2. PICK i \in Smallest : Put(d, i)
    BY <2>1
  <2> QED
    BY <1>2, <2>1, <2>2, SpreadOverflow DEF PlaceOverflow, NextDataset
<1>3. CASE PlaceNew
  <2>1. PICK d \in NextDataset : ~Full /\ Put(d, n + 1)
    BY <1>3 DEF PlaceNew
  <2> QED
    BY <1>3, <2>1, SpreadNew DEF PlaceNew, NextDataset, PlannerInv, TypeOK
<1>4. CASE Raise \/ UNCHANGED vars
  BY <1>4 DEF Raise, vars, input, OverflowIsSpread, OverTargetOnlyIfForced, Balanced,
              Shards, Members
<1>5. CASE Finish
  <2>1. CASE n # 0
    BY <1>5, <2>1 DEF Finish, input, OverflowIsSpread, OverTargetOnlyIfForced, Balanced,
              Shards, Members
  <2>2. CASE n = 0
    <3>1. Datasets = {}
      BY <1>5, <2>2 DEF Finish, Unplaced, PlannerInv, Opened, TypeOK
    <3>2. Shards' = {}
      BY <3>1 DEF Shards, Slots, Datasets
    <3> QED
      BY <3>2 DEF OverflowIsSpread, OverTargetOnlyIfForced, Balanced
  <2> QED
    BY <2>1, <2>2
<1> QED
  BY <1>1, <1>2, <1>3, <1>4, <1>5 DEF Next

\* The target is exceeded only where the cap leaves no choice, and then the shards
\* differ by no more than one dataset.
THEOREM Spread == Spec => []OverflowIsSpread
<1>1. Init => OverflowIsSpread
  BY DEF Init, OverflowIsSpread, OverTargetOnlyIfForced, Balanced, Shards, Slots
<1> QED
  BY <1>1, StepSpread, PlannerInvariant, PTL DEF Spec

-----------------------------------------------------------------------------
(* The gate: RejectedStaysOut for any datasets, files and episodes, while  *)
(* contract runs write reports, the lake changes, reads fail and processes *)
(* die.                                                                    *)
(*                                                                         *)
(* The property speaks of the end of an export; the invariant says what it *)
(* knows before (RejectedIsKnown) and of the splits it has behind it       *)
(* (WrittenIsKept).                                                        *)

GateTypeOK ==
  /\ report = [d \in QcDatasets |-> report[d]]
  /\ exported = [s \in MlSplits |-> exported[s]]
  /\ taken = [f \in {"ratio", "features", "scored", "low", "status"} |-> taken[f]]
  /\ taken.status = [d \in QcDatasets |-> taken.status[d]]
  /\ exAt \in {"idle", "scores", "reports", "manifest"} \cup MlSplits
  /\ low \subseteq Episodes

\* What counts as rejected is rejected now,
StillRejected == rejected \subseteq RejectedBy(report, low)

\* and the export knows of it if it has read the scores, the report of that dataset.
Knows(r) ==
  /\ r[2] = "score" /\ EpisodeOf[r[1]] \in taken.scored => r[1] \in taken.low
  /\ r[2] = "contract" => taken.status[EpisodeOf[r[1]]] \in {"none", "FAIL"}
RejectedIsKnown == \A r \in rejected : Knows(r)

\* The splits an export has written hold what it kept.
Written(s) ==
  \/ exAt = "manifest"
  \/ s = "train" /\ exAt \in {"val", "test"}
  \/ s = "val" /\ exAt = "test"
WrittenIsKept == \A s \in MlSplits : Written(s) => exported[s] \subseteq Kept(taken)

GateInv == GateTypeOK /\ StillRejected /\ RejectedIsKnown /\ WrittenIsKept

\* It holds before any run.
LEMMA GateInitInv == GateInit => GateInv
<1> SUFFICES ASSUME GateInit PROVE GateInv
  OBVIOUS
<1>1. GateTypeOK
  BY DEF GateInit, GateTypeOK, NothingTaken, Began
<1>2. StillRejected /\ RejectedIsKnown /\ WrittenIsKept
  BY DEF GateInit, StillRejected, RejectedIsKnown, WrittenIsKept, Written, MlSplits
<1> QED  BY <1>1, <1>2 DEF GateInv

\* A contract run changes nothing an export has behind it: at most its report changes, and
\* what is rejected with it.
LEMMA ReportStep ==
  ASSUME GateInv, UNCHANGED exVars, GateTypeOK', rejected' \subseteq rejected,
         rejected' \subseteq RejectedBy(report', low')
  PROVE  GateInv'
<1>1. StillRejected' /\ RejectedIsKnown' /\ WrittenIsKept'
  BY DEF GateInv, exVars, StillRejected, RejectedIsKnown, Knows, WrittenIsKept, Written, Kept
<1> QED  BY <1>1 DEF GateInv

\* A dataset whose scores an export reads, or cannot read: what is rejected by them is low
\* as it reads them.
LEMMA ScoresStep ==
  ASSUME GateInv, NEW d \in QcDatasets, ReadScores(d)
  PROVE  GateInv'
<1>1. GateTypeOK /\ StillRejected /\ RejectedIsKnown /\ WrittenIsKept
  BY DEF GateInv
<1>2. /\ exAt' \in {"scores", "reports"} /\ UNCHANGED <<report, low, exported, rejected>>
      /\ \/ taken' = [taken EXCEPT !.scored = @ \cup {d}, !.low = @ \cup EpisodesIn(d, low)]
         \/ taken' = taken
  BY DEF ReadScores, ReadNext, lakeVars
<1>3. GateTypeOK' /\ StillRejected'
  BY <1>1, <1>2 DEF GateTypeOK, StillRejected, RejectedBy
<1>4. /\ taken'.status = taken.status /\ taken.low \subseteq taken'.low
      /\ taken'.scored \subseteq taken.scored \cup {d}
      /\ d \in taken.scored \/ taken'.scored = taken.scored \/ EpisodesIn(d, low) \subseteq taken'.low
      /\ taken' = taken \/ EpisodesIn(d, low) \subseteq taken'.low
  BY <1>1, <1>2 DEF GateTypeOK
<1>5. ASSUME NEW r \in rejected' PROVE Knows(r)'
  <2>1. Knows(r) /\ (r[2] = "score" => r[1] \in low)
    BY <1>1, <1>2 DEF RejectedIsKnown, StillRejected, RejectedBy
  <2> QED  BY <1>2, <1>4, <2>1 DEF Knows, EpisodesIn, GateTypeOK
<1>6. RejectedIsKnown'
  BY <1>5 DEF RejectedIsKnown
<1>7. WrittenIsKept'
  BY <1>2 DEF WrittenIsKept, Written
<1> QED  BY <1>3, <1>6, <1>7 DEF GateInv

\* The report of a dataset that an export reads, or cannot read: it says FAIL as long as
\* episodes are rejected by it.
LEMMA ReportRead ==
  ASSUME GateInv, NEW d \in QcDatasets, ReadReport(d)
  PROVE  GateInv'
<1>1. GateTypeOK /\ StillRejected /\ RejectedIsKnown /\ WrittenIsKept
  BY DEF GateInv
<1>2. /\ exAt' \in {"reports", "train"} /\ UNCHANGED <<report, low, exported, rejected>>
      /\ taken' = [taken EXCEPT !.status[d] = report[d]] \/ taken' = taken
  BY DEF ReadReport, ReadNext, lakeVars
<1>3. GateTypeOK' /\ StillRejected'
  BY <1>1, <1>2 DEF GateTypeOK, StillRejected, RejectedBy, MlSplits
<1>4. /\ taken'.scored = taken.scored /\ taken'.low = taken.low
      /\ \A c \in QcDatasets : \/ taken'.status[c] = taken.status[c]
                              \/ taken'.status[c] = report[c]
  BY <1>1, <1>2 DEF GateTypeOK
<1>5. ASSUME NEW r \in rejected' PROVE Knows(r)'
  <2>1. /\ Knows(r)
        /\ r[2] = "contract" => report[EpisodeOf[r[1]]] = "FAIL" /\ EpisodeOf[r[1]] \in QcDatasets
    BY <1>1, <1>2, GateAssumption DEF RejectedIsKnown, StillRejected, RejectedBy
  <2> QED  BY <1>4, <2>1 DEF Knows
<1>6. RejectedIsKnown'
  BY <1>5 DEF RejectedIsKnown
<1>7. WrittenIsKept'
  BY <1>2 DEF WrittenIsKept, Written
<1> QED  BY <1>3, <1>6, <1>7 DEF GateInv

\* Every step of a contract run, an export and the lake keeps it.
LEMMA GateStepInv == ASSUME GateInv, [GateNext]_gateVars PROVE GateInv'
<1>1. GateTypeOK /\ StillRejected /\ RejectedIsKnown /\ WrittenIsKept
  BY DEF GateInv
<1>2. ASSUME UNCHANGED <<report, low, rejected, exVars>> PROVE GateInv'
  <2>1. GateTypeOK' /\ rejected' \subseteq RejectedBy(report', low')
    BY <1>1, <1>2 DEF exVars, GateTypeOK, StillRejected, RejectedBy
  <2> QED  BY <1>2, <2>1, ReportStep
<1>3. ASSUME NEW d \in QcDatasets, QcStart(d) PROVE GateInv'
  BY <1>2, <1>3 DEF QcStart, lakeVars
<1>4. ASSUME NEW f, ProbeParquet(f) PROVE GateInv'
  BY <1>2, <1>4 DEF ProbeParquet, lakeVars
<1>5. ASSUME NEW f, Download(f) \/ Probe(f) \/ Unlink(f) PROVE GateInv'
  <2>1. CASE Download(f)
    BY <1>2, <2>1 DEF Download, lakeVars
  <2>2. CASE Probe(f)
    BY <1>2, <2>2 DEF Probe, lakeVars
  <2>3. CASE Unlink(f)
    BY <1>2, <2>3 DEF Unlink, lakeVars
  <2> QED  BY <1>5, <2>1, <2>2, <2>3
<1>6. CASE Detect \/ NextKind \/ QcCut
  <2>1. CASE Detect
    BY <1>2, <2>1 DEF Detect, lakeVars
  <2>2. CASE NextKind
    BY <1>2, <2>2 DEF NextKind, lakeVars
  <2>3. CASE QcCut
    BY <1>2, <2>3 DEF QcCut, lakeVars
  <2> QED  BY <1>6, <2>1, <2>2, <2>3
<1>7. CASE QcReport
  <2>1. /\ report' = [report EXCEPT ![qcOf] = Verdict(qcOf)]
        /\ rejected' = rejected \cap RejectedBy(report', low) /\ UNCHANGED <<low, exVars>>
    BY <1>7 DEF QcReport, lakeVars
  <2>2. GateTypeOK'
    BY <1>1, <2>1 DEF GateTypeOK, exVars
  <2> QED  BY <2>1, <2>2, ReportStep
<1>8. CASE Change
  <2>1. CASE UNCHANGED <<low, rejected>>
    BY <1>2, <1>8, <2>1 DEF Change
  <2>2. CASE \E e \in Episodes : low' = (low \ {e}) \cup ({e} \ low)
    <3>1. rejected' = rejected \cap RejectedBy(report, low') \/ UNCHANGED <<low, rejected>>
      BY <1>8 DEF Change
    <3>2. UNCHANGED <<report, exVars>>
      BY <1>8 DEF Change
    <3>3. GateTypeOK'
      BY <1>1, <2>2, <3>2 DEF GateTypeOK, exVars
    <3> QED  BY <2>1, <3>1, <3>2, <3>3, ReportStep
  <2> QED  BY <1>8, <2>1, <2>2 DEF Change
<1>9. CASE ExCut \/ ExFinish
  <2>1. exAt' = "idle" /\ taken' = NothingTaken /\ rejected' = {} /\ UNCHANGED <<report, low, exported>>
    BY <1>9 DEF ExCut, ExFinish, lakeVars
  <2>2. GateTypeOK'
    BY <1>1, <2>1 DEF GateTypeOK, NothingTaken, Began
  <2>3. StillRejected' /\ RejectedIsKnown' /\ WrittenIsKept'
    BY <2>1 DEF StillRejected, RejectedIsKnown, WrittenIsKept, Written, MlSplits
  <2> QED  BY <2>2, <2>3 DEF GateInv
<1>10. ASSUME NEW ratio \in Ratios, ExStart(ratio) PROVE GateInv'
  <2>1. /\ exAt' = "scores" /\ rejected' = RejectedBy(report, low) /\ UNCHANGED <<report, low, exported>>
        /\ \E found : taken' = Began(ratio, found)
    BY <1>10 DEF ExStart, lakeVars
  <2>2. GateTypeOK' /\ taken'.scored = {} /\ taken'.status = [d \in QcDatasets |-> "none"]
    BY <1>1, <2>1 DEF GateTypeOK, Began
  <2>3. StillRejected'
    BY <2>1 DEF StillRejected, RejectedBy
  <2>4. ASSUME NEW r \in rejected', r[2] = "contract" PROVE EpisodeOf[r[1]] \in QcDatasets
    BY <2>1, <2>4, GateAssumption DEF RejectedBy
  <2>5. RejectedIsKnown'
    BY <2>2, <2>4 DEF RejectedIsKnown, Knows
  <2>6. WrittenIsKept'
    BY <2>1 DEF WrittenIsKept, Written, MlSplits
  <2> QED  BY <2>2, <2>3, <2>5, <2>6 DEF GateInv
<1>11. ASSUME NEW d \in QcDatasets, ReadScores(d) PROVE GateInv'
  BY <1>11, ScoresStep
<1>12. ASSUME NEW d \in QcDatasets, ReadReport(d) PROVE GateInv'
  BY <1>12, ReportRead
<1>13. CASE WriteSplit
  <2>1. PICK s \in MlSplits :
          /\ s = exAt /\ exported' = [exported EXCEPT ![s] = SplitOf(taken, s)]
          /\ UNCHANGED <<report, low, taken, rejected>>
    BY <1>13 DEF WriteSplit, lakeVars
  <2>2. \/ exAt = "train" /\ exAt' = "val"
        \/ exAt = "val" /\ exAt' = "test"
        \/ exAt = "test" /\ exAt' = "manifest"
    BY <1>13 DEF WriteSplit, MlSplits
  <2>3. exported'[s] = SplitOf(taken, s) /\ \A t \in MlSplits : t # s => exported'[t] = exported[t]
    BY <1>1, <2>1 DEF GateTypeOK
  <2>4. GateTypeOK' /\ StillRejected'
    BY <1>1, <2>1, <2>2 DEF GateTypeOK, StillRejected, RejectedBy, MlSplits
  <2>6. RejectedIsKnown'
    BY <1>1, <2>1 DEF RejectedIsKnown, Knows
  <2>7. exported'[s] \subseteq Kept(taken) /\ Kept(taken)' = Kept(taken)
    BY <2>1, <2>3 DEF SplitOf, Kept
  <2>8. WrittenIsKept'
    BY <1>1, <2>1, <2>2, <2>3, <2>7 DEF WrittenIsKept, Written, MlSplits
  <2> QED  BY <2>4, <2>6, <2>8 DEF GateInv
<1>14. CASE UNCHANGED gateVars
  BY <1>2, <1>14 DEF gateVars, lakeVars
<1> QED
  BY <1>3, <1>4, <1>5, <1>6, <1>7, <1>8, <1>9, <1>10, <1>11, <1>12, <1>13, <1>14 DEF GateNext

\* The invariant holds in every behaviour of contract runs, exports and the lake around them,
\* whichever reads fail.
THEOREM GateInvariant == GateSpec => []GateInv
BY GateInitInv, GateStepInv, PTL DEF GateSpec

\* What counted as rejected when an export began, and has since, is in none of the splits it
\* writes, but where the export could read no scores at all, or not the report of that
\* dataset (export_ml_ready).
THEOREM Clean == GateSpec => []RejectedStaysOut
<1>1. ASSUME GateInv PROVE RejectedStaysOut
  <2>1. ASSUME exAt = "manifest", NEW s \in MlSplits, NEW r \in rejected, r[1] \in exported[s]
        PROVE  \/ r[2] = "score" /\ taken.scored = {}
               \/ r[2] = "contract" /\ taken.status[EpisodeOf[r[1]]] = "none"
    <3>1. r[2] \in {"score", "contract"} /\ Knows(r) /\ r[1] \in Kept(taken)
      BY <1>1, <2>1 DEF GateInv, StillRejected, RejectedBy, RejectedIsKnown, WrittenIsKept, Written
    <3> QED  BY <3>1 DEF Knows, Kept
  <2> QED  BY <2>1 DEF RejectedStaysOut
<1> QED  BY GateInvariant, <1>1, PTL
=============================================================================
