---------------------------- MODULE EtlPipeline ----------------------------
(***************************************************************************)
(* From raw to ods, dwd and ads (etl/runner.py, etl/features.py,           *)
(* etl/ads.py): etl_run for one dataset, etl_scan over all datasets it     *)
(* discovers, build_features and build_ads, on the object store.           *)
(*                                                                         *)
(* A process is either a scan, which runs every phase for its datasets one *)
(* after the other and then builds the shared ads/quality slice, or the    *)
(* branch of a workflow for one dataset, whose normalize step and features *)
(* step are separate invocations.  Processes crash and are started again;  *)
(* the raw data of a dataset may be replaced meanwhile.  Two processes     *)
(* never work on the same dataset.                                         *)
(*                                                                         *)
(* The normalize phase is what NormalizeRun makes of it for its readers:   *)
(* files that lie unpublished until a manifest vouches for them.           *)
(***************************************************************************)
EXTENDS Naturals, Sequences, FiniteSets, SequencesExt

CONSTANTS
  Scans, Branches,  \* the processes
  Order,            \* the datasets of each process, as discovered
  ForceFlags,       \* values of --force
  AdsFlags,         \* values of --build-ads
  MaxGen,           \* bound: generations of the raw data
  MaxFaults         \* bound: failures and crashes

Procs == Scans \union Branches
Datasets == UNION {ToSet(Order[p]) : p \in Procs}

ASSUME PipelineAssumption ==
  /\ Scans \cap Branches = {}
  /\ \A p \in Procs : Order[p] \in Seq(ToSet(Order[p])) /\ IsInjective(Order[p])
  /\ \A p \in Branches : Len(Order[p]) = 1
  /\ \A p, q \in Procs : p # q => ToSet(Order[p]) \cap ToSet(Order[q]) = {}
  /\ ForceFlags \subseteq BOOLEAN /\ AdsFlags \subseteq BOOLEAN
  /\ MaxGen \in Nat \ {0} /\ MaxFaults \in Nat

VARIABLES
  raw,      \* generation of each dataset's raw data
  ods, dwd, \* what lies below ods/<dataset> and dwd/<dataset>
  ads,      \* what lies below ads/quality
  version,  \* dataset_versions.status
  row,      \* etl_jobs.status: the last row of each process
  pc,       \* where each process is,
  args,     \* its --force and --build-ads,
  queue,    \* the datasets it has not done, the current one first,
  gen,      \* the generation it has read,
  src,      \* the features build_ads has read, and from which to read
  tally,    \* the counters of etl_scan
  passed,   \* the steps of a branch that have succeeded
  forced,   \* datasets that a --force run has taken up
  faults

lake == <<ods, dwd, ads>>
meta == <<version, row>>
proc == <<pc, args, queue, gen, src, tally, passed>>
vars == <<raw, lake, meta, proc, forced, faults>>

Gens == 0 .. MaxGen   \* 0: not there

\* A layer: the file its readers open, its other files, and its manifest,
\* each with the generation of the raw data it stems from.
Layer == [main: Gens, rest: Gens, manifest: Gens]
Empty == [main |-> 0, rest |-> 0, manifest |-> 0]

Features == [Datasets -> Gens]
NoFeatures == [d \in Datasets |-> 0]
NoSource == [todo |-> {}, read |-> NoFeatures]
NoTally == [good |-> 0, failed |-> 0, skipped |-> 0]
Ads == [files: Features, manifest: Features]

NormPc == {"normalize", "norm_upload", "norm_manifest"}
FeatPc == {"features", "feat_upload", "feat_manifest"}
AdsPc == {"ads_read", "ads_manifest"}
RunPc == {"start", "run_ok"} \union NormPc \union FeatPc
Pc == {"idle", "next", "ads_list", "close"} \union RunPc \union AdsPc
Status == {"none", "RUNNING", "OK", "WARN", "FAIL"}

TypeOK ==
  /\ raw \in [Datasets -> 1 .. MaxGen]
  /\ ods \in [Datasets -> Layer] /\ dwd \in [Datasets -> Layer]
  /\ ads \in Ads
  /\ version \in
       [Datasets -> {"none", "discovered", "normalized", "featurized"}]
  /\ row \in [Procs -> Status]
  /\ pc \in [Procs -> Pc]
  /\ args \in [Procs -> [force: BOOLEAN, ads: BOOLEAN]]
  /\ queue \in [Procs -> Seq(Datasets)]
  /\ gen \in [Procs -> Gens]
  /\ src \in [Procs -> [todo: SUBSET Datasets, read: Features]]
  /\ tally \in [Procs -> [good: Nat, failed: Nat, skipped: Nat]]
  /\ passed \in [Branches -> SUBSET {"normalize", "features"}]
  /\ forced \subseteq Datasets
  /\ faults \in 0 .. MaxFaults
  /\ \A p \in Procs : pc[p] \in RunPc => queue[p] # <<>>

Init ==
  /\ raw = [d \in Datasets |-> 1]
  /\ ods = [d \in Datasets |-> Empty] /\ dwd = [d \in Datasets |-> Empty]
  /\ ads = [files |-> NoFeatures, manifest |-> NoFeatures]
  /\ version = [d \in Datasets |-> "none"]
  /\ row = [p \in Procs |-> "none"]
  /\ pc = [p \in Procs |-> "idle"]
  /\ args = [p \in Procs |-> [force |-> FALSE, ads |-> FALSE]]
  /\ queue = [p \in Procs |-> <<>>]
  /\ gen = [p \in Procs |-> 0]
  /\ src = [p \in Procs |-> NoSource]
  /\ tally = [p \in Procs |-> NoTally]
  /\ passed = [p \in Branches |-> {}]
  /\ forced = {} /\ faults = 0

-----------------------------------------------------------------------------
(* Helpers.                                                                *)

Goto(p, l) == pc' = [pc EXCEPT ![p] = l]
Current(p) == Head(queue[p])

SetVersion(p, s) == version' = [version EXCEPT ![Current(p)] = s]
SetRow(p, s) == row' = [row EXCEPT ![p] = s]

\* _existing_layers, as etl_scan asks for them.
OdsPublished(d) == ods[d].manifest # 0                              \* mutant
BothPublished(d) == ods[d].manifest # 0 /\ dwd[d].manifest # 0

\* The step of its workflow that a branch runs next.
Phase(p) == IF "normalize" \notin passed[p] THEN "normalize" ELSE "features"

\* A run is over: a scan goes on to its next dataset, a step ends.
RunEnds(p, c, status) ==
  /\ gen' = [gen EXCEPT ![p] = 0]
  /\ IF p \in Scans
     THEN /\ queue' = [queue EXCEPT ![p] = Tail(@)]
          /\ tally' = [tally EXCEPT ![p][c] = @ + 1]
          /\ Goto(p, "next") /\ UNCHANGED row
     ELSE /\ queue' = [queue EXCEPT ![p] = <<>>]
          /\ SetRow(p, status)
          /\ Goto(p, "idle") /\ UNCHANGED tally

-----------------------------------------------------------------------------
(* etl_scan.                                                               *)

\* _discover_raw_datasets: what has a bundle below raw/, in the order of the listing.
Discovered(p) == Order[p]

ScanStart(p) ==
  /\ p \in Scans /\ pc[p] = "idle"
  /\ \E f \in ForceFlags, a \in AdsFlags :
       args' = [args EXCEPT ![p] = [force |-> f, ads |-> a]]
  /\ queue' = [queue EXCEPT ![p] = Discovered(p)]
  /\ SetRow(p, "RUNNING")
  /\ Goto(p, "next")
  /\ UNCHANGED <<raw, lake, version, gen, src, tally, passed, forced, faults>>

SkipDataset(p) ==
  /\ pc[p] = "next" /\ queue[p] # <<>>
  /\ ~args[p].force /\ BothPublished(Current(p))
  /\ queue' = [queue EXCEPT ![p] = Tail(@)]
  /\ tally' = [tally EXCEPT ![p].skipped = @ + 1]
  /\ UNCHANGED <<raw, lake, meta, pc, args, gen, src, passed, forced, faults>>

TakeDataset(p) ==
  /\ pc[p] = "next" /\ queue[p] # <<>>
  /\ args[p].force \/ ~BothPublished(Current(p))
  /\ Goto(p, "start")
  /\ UNCHANGED <<raw, lake, meta, args, queue, gen, src, tally, passed,
                 forced, faults>>

LoopEnd(p) ==
  /\ pc[p] = "next" /\ queue[p] = <<>>
  /\ Goto(p, IF args[p].ads THEN "ads_list" ELSE "close")
  /\ UNCHANGED <<raw, lake, meta, args, queue, gen, src, tally, passed,
                 forced, faults>>

ScanStatus(t) == CASE t.failed = 0 -> "OK"
                   [] t.failed > 0 /\ t.good = 0 -> "FAIL"
                   [] OTHER -> "WARN"

Close(p) ==
  /\ pc[p] = "close"
  /\ SetRow(p, ScanStatus(tally[p]))
  /\ tally' = [tally EXCEPT ![p] = NoTally]
  /\ src' = [src EXCEPT ![p] = NoSource]
  /\ Goto(p, "idle")
  /\ UNCHANGED <<raw, lake, version, args, queue, gen, passed, forced, faults>>

-----------------------------------------------------------------------------
(* The steps of a workflow branch.                                         *)

\* The controller starts a step whose predecessor has succeeded, again if it
\* has failed.
StartStep(p) ==
  /\ p \in Branches /\ pc[p] = "idle" /\ passed[p] # {"normalize", "features"}
  /\ queue' = [queue EXCEPT ![p] = Order[p]]
  /\ SetRow(p, "RUNNING")
  /\ Goto(p, "start")
  /\ UNCHANGED <<raw, lake, version, args, gen, src, tally, passed, forced,
                 faults>>

\* A workflow that is over, because it has succeeded or because a step of it
\* has not, is submitted again.
Resubmit(p) ==
  /\ p \in Branches /\ pc[p] = "idle" /\ passed[p] # {}
  /\ passed[p] = {"normalize", "features"} \/ row[p] \notin {"OK", "WARN"}
  /\ passed' = [passed EXCEPT ![p] = {}]
  /\ UNCHANGED <<raw, lake, meta, pc, args, queue, gen, src, tally, forced,
                 faults>>

-----------------------------------------------------------------------------
(* etl_run.                                                                *)

StartRun(p) ==
  /\ pc[p] = "start"
  /\ SetVersion(p, "discovered")
  /\ forced' = IF args[p].force THEN forced \union {Current(p)} ELSE forced
  /\ Goto(p, IF p \in Scans THEN "normalize" ELSE Phase(p))
  /\ UNCHANGED <<raw, lake, row, args, queue, gen, src, tally, passed, faults>>

AfterNormalize(p) == Goto(p, IF p \in Scans THEN "features" ELSE "run_ok")

\* normalize_dataset finds a manifest.
NormSkip(p) ==
  /\ pc[p] = "normalize" /\ ~args[p].force /\ ods[Current(p)].manifest # 0
  /\ AfterNormalize(p)
  /\ UNCHANGED <<raw, lake, meta, args, queue, gen, src, tally, passed,
                 forced, faults>>

\* _try_resume vouches for the files an earlier run has left; the version is
\* not touched.
Resumable(p) == LET o == ods[Current(p)] IN
  ~args[p].force /\ o.manifest = 0 /\ o.main # 0 /\ o.rest # 0
NormResume(p) ==
  /\ pc[p] = "normalize" /\ Resumable(p)
  /\ ods' = [ods EXCEPT ![Current(p)].manifest = ods[Current(p)].main]
  /\ AfterNormalize(p)
  /\ UNCHANGED <<raw, dwd, ads, meta, args, queue, gen, src, tally, passed,
                 forced, faults>>

NormFresh(p) ==
  /\ pc[p] = "normalize" /\ ~Resumable(p)
  /\ args[p].force \/ ods[Current(p)].manifest = 0
  /\ gen' = [gen EXCEPT ![p] = raw[Current(p)]]
  /\ Goto(p, "norm_upload")
  /\ UNCHANGED <<raw, lake, meta, args, queue, src, tally, passed,
                 forced, faults>>

\* upload_dir finishes its objects in any order.  An object that holds the
\* same generation already is the same object.
NormUpload(p) ==
  /\ pc[p] = "norm_upload"
  /\ \E part \in {"main", "rest"} :
       /\ ods[Current(p)][part] # gen[p]
       /\ ods' = [ods EXCEPT ![Current(p)][part] = gen[p]]
  /\ UNCHANGED <<raw, dwd, ads, meta, proc, forced, faults>>

\* The assets and the version are registered before the manifest.
NormRegister(p) ==
  /\ pc[p] = "norm_upload"
  /\ \A part \in {"main", "rest"} : ods[Current(p)][part] = gen[p]
  /\ SetVersion(p, "normalized")
  /\ Goto(p, "norm_manifest")
  /\ UNCHANGED <<raw, lake, row, args, queue, gen, src, tally, passed,
                 forced, faults>>

NormManifest(p) ==
  /\ pc[p] = "norm_manifest"
  /\ ods' = [ods EXCEPT ![Current(p)].manifest = gen[p]]
  /\ AfterNormalize(p)
  /\ UNCHANGED <<raw, dwd, ads, meta, args, queue, gen, src, tally, passed,
                 forced, faults>>

\* The features stem from the generation of the pose table they are computed from.
FeaturesOf(d) == ods[d].main

\* build_features reads pose.parquet, whether or not a manifest vouches for it.
FeatLoad(p) ==
  /\ pc[p] = "features"
  /\ gen' = [gen EXCEPT ![p] = FeaturesOf(Current(p))]
  /\ Goto(p, "feat_upload")
  /\ UNCHANGED <<raw, lake, meta, args, queue, src, tally, passed, forced,
                 faults>>

FeatUpload(p) ==
  /\ pc[p] = "feat_upload"
  /\ \E part \in {"main", "rest"} :
       /\ dwd[Current(p)][part] # gen[p]
       /\ dwd' = [dwd EXCEPT ![Current(p)][part] = gen[p]]
  /\ UNCHANGED <<raw, ods, ads, meta, proc, forced, faults>>

FeatRegisterEarly(p) ==                                             \* mutant
  /\ pc[p] = "feat_upload"
  /\ dwd[Current(p)].main = gen[p]
  /\ SetVersion(p, "featurized")
  /\ Goto(p, "feat_manifest")
  /\ UNCHANGED <<raw, lake, row, args, queue, gen, src, tally, passed,
                 forced, faults>>
FeatRegister(p) ==
  /\ pc[p] = "feat_upload"
  /\ \A part \in {"main", "rest"} : dwd[Current(p)][part] = gen[p]
  /\ SetVersion(p, "featurized")
  /\ Goto(p, "feat_manifest")
  /\ UNCHANGED <<raw, lake, row, args, queue, gen, src, tally, passed,
                 forced, faults>>

FeatManifest(p) ==
  /\ pc[p] = "feat_manifest"
  /\ dwd' = [dwd EXCEPT ![Current(p)].manifest = gen[p]]
  /\ Goto(p, "run_ok")
  /\ UNCHANGED <<raw, ods, ads, meta, args, queue, gen, src, tally, passed,
                 forced, faults>>

\* The features step warns when too few presses were found; that counts as
\* good.
RunOk(p) ==
  /\ pc[p] = "run_ok"
  /\ \E s \in {"OK", "WARN"} :
       /\ s = "WARN" => p \in Branches /\ Phase(p) = "features"
       /\ RunEnds(p, "good", s)
  /\ passed' = IF p \in Branches
               THEN [passed EXCEPT ![p] = @ \union {Phase(p)}] ELSE passed
  /\ UNCHANGED <<raw, lake, version, args, src, forced, faults>>

\* An exception in a phase: what has been uploaded stays.
RunFail(p) ==
  /\ pc[p] \in RunPc /\ faults < MaxFaults
  /\ faults' = faults + 1
  /\ RunEnds(p, "failed", "FAIL")
  /\ UNCHANGED <<raw, lake, version, args, src, passed, forced>>

-----------------------------------------------------------------------------
(* build_ads, at the end of a scan.                                        *)

\* Every episode_feature.parquet below dwd/ is a source, published or not.
AdsList(p) ==
  /\ pc[p] = "ads_list"
  /\ src' = [src EXCEPT ![p] = [todo |-> {d \in Datasets : dwd[d].main # 0},
                               read |-> NoFeatures]]
  /\ Goto(p, "ads_read")
  /\ UNCHANGED <<raw, lake, meta, args, queue, gen, tally, passed, forced,
                 faults>>

\* The scores of a dataset stem from the episode features that are read.
ScoresOf(d) == dwd[d].main

AdsRead(p) ==
  /\ pc[p] = "ads_read"
  /\ \E d \in src[p].todo :
       src' = [src EXCEPT ![p].todo = @ \ {d}, ![p].read[d] = ScoresOf(d)]
  /\ UNCHANGED <<raw, lake, meta, pc, args, queue, gen, tally, passed,
                 forced, faults>>

AdsUploadEarly(p) ==                                                \* mutant
  /\ pc[p] = "ads_read"
  /\ ads' = [ads EXCEPT !.files = src[p].read]
  /\ Goto(p, "ads_manifest")
  /\ UNCHANGED <<raw, ods, dwd, meta, args, queue, gen, src, tally, passed,
                 forced, faults>>
AdsUpload(p) ==
  /\ pc[p] = "ads_read" /\ src[p].todo = {}
  /\ ads' = [ads EXCEPT !.files = src[p].read]
  /\ Goto(p, "ads_manifest")
  /\ UNCHANGED <<raw, ods, dwd, meta, args, queue, gen, src, tally, passed,
                 forced, faults>>

AdsManifest(p) ==
  /\ pc[p] = "ads_manifest"
  /\ ads' = [ads EXCEPT !.manifest = src[p].read]
  /\ Goto(p, "close")
  /\ UNCHANGED <<raw, ods, dwd, meta, args, queue, gen, src, tally, passed,
                 forced, faults>>

AdsFail(p) ==
  /\ pc[p] \in {"ads_list"} \union AdsPc /\ faults < MaxFaults
  /\ faults' = faults + 1
  /\ tally' = [tally EXCEPT ![p].failed = @ + 1]
  /\ Goto(p, "close")
  /\ UNCHANGED <<raw, lake, meta, args, queue, gen, src, passed, forced>>

-----------------------------------------------------------------------------
(* Faults and the environment.                                             *)

Crash(p) ==
  /\ pc[p] # "idle" /\ faults < MaxFaults
  /\ faults' = faults + 1
  /\ Goto(p, "idle")
  /\ queue' = [queue EXCEPT ![p] = <<>>]
  /\ gen' = [gen EXCEPT ![p] = 0]
  /\ src' = [src EXCEPT ![p] = NoSource]
  /\ tally' = [tally EXCEPT ![p] = NoTally]
  /\ UNCHANGED <<raw, lake, meta, args, passed, forced>>

RawChange(d) ==
  /\ raw[d] < MaxGen
  /\ raw' = [raw EXCEPT ![d] = @ + 1]
  /\ UNCHANGED <<lake, meta, proc, forced, faults>>

Scan(p) == SkipDataset(p) \/ TakeDataset(p) \/ LoopEnd(p) \/ Close(p)
Normalize(p) == \/ NormSkip(p) \/ NormResume(p) \/ NormFresh(p)
                \/ NormUpload(p) \/ NormRegister(p) \/ NormManifest(p)
BuildFeatures(p) == \/ FeatLoad(p) \/ FeatUpload(p)
                    \/ FeatRegister(p) \/ FeatManifest(p)
BuildAds(p) == AdsList(p) \/ AdsRead(p) \/ AdsUpload(p) \/ AdsManifest(p)
Step(p) == \/ Scan(p) \/ StartRun(p) \/ Normalize(p) \/ BuildFeatures(p)
           \/ RunOk(p) \/ BuildAds(p)

Next == \/ \E p \in Procs : \/ ScanStart(p) \/ StartStep(p) \/ Resubmit(p)
                            \/ Step(p) \/ RunFail(p) \/ AdsFail(p) \/ Crash(p)
        \/ \E d \in Datasets : RawChange(d)

Spec == Init /\ [][Next]_vars

\* A live process goes on; the scan is started again (it is what the
\* documentation tells an operator to repeat), and the workflow controller
\* starts and retries the steps of a branch.
FairSpec == /\ Spec
            /\ \A p \in Procs : WF_vars(Step(p))
            /\ \A p \in Scans : WF_vars(ScanStart(p))
            /\ \A p \in Branches : WF_vars(StartStep(p))

-----------------------------------------------------------------------------
(* Properties.                                                             *)

InLake(d) == ods[d].manifest # 0 /\ dwd[d].manifest # 0

\* What a manifest vouches for downstream: as long as nobody forced a rewrite,
\* a published dwd layer is whole and was computed from the very ods slice
\* that is published, though runs died half way while the raw data changed.
DwdVouches ==
  \A d \in Datasets \ forced : dwd[d].manifest # 0 =>
    /\ dwd[d].main = dwd[d].manifest /\ dwd[d].rest = dwd[d].manifest
    /\ ods[d].main = dwd[d].manifest /\ ods[d].manifest = dwd[d].manifest

\* A scan whose row says OK has left every dataset it discovered published in
\* both layers, the skipped ones included, and marked as such; a step of a
\* branch that succeeded has published its layer.
GreenIsPublished ==
  /\ \A p \in Scans : row[p] = "OK" => \A d \in ToSet(Order[p]) :
       /\ InLake(d)
       /\ d \notin forced => version[d] = "featurized"
  /\ \A p \in Branches : \A d \in ToSet(Order[p]) :
       /\ "normalize" \in passed[p] => ods[d].manifest # 0
       /\ "features" \in passed[p] => dwd[d].manifest # 0

\* The quality slice of the only scan covers, in their final state, all the
\* datasets of a scan that ended well.
AdsCoverScan ==
  \A p \in Scans : row[p] = "OK" /\ args[p].ads /\ Scans = {p} =>
    \A d \in ToSet(Order[p]) \ forced : ads.manifest[d] = dwd[d].main

\* As long as scans and steps are started again, every dataset is published.
EventuallyPublished == \A d \in Datasets : <>[]InLake(d)
=============================================================================
