---------------------------- MODULE QualityGate ----------------------------
(***************************************************************************)
(* Quality contracts and the ML-ready export behind them: `qc contract     *)
(* run` and `ml-ready export` on the object store.                         *)
(*                                                                         *)
(* A contract run lists a dataset, probes a sample of its files (parquet   *)
(* in place and one by one; HDF5 and video by several threads, each after  *)
(* a download into one directory of the process), judges the probes by     *)
(* the rules of the dataset's family and writes a report.  An export reads *)
(* features, scores and reports, drops what was rejected, and writes three *)
(* splits and their manifest.                                              *)
(***************************************************************************)
EXTENDS Integers, Sequences, FiniteSets, SequencesExt

CONSTANTS
  QcDatasets, FamilyOf,   \* the datasets and their families
  FilesOf,                \* dataset -> its files [key, kind, base] in the order of the keys;
                          \* base is the last part of the key
  SampleLimit,            \* how many files of a kind are probed
  Threads,                \* ROBOT_DH_QC_PROBE_CONCURRENCY
  Episodes, EpisodeOf,    \* episodes, and the dataset each belongs to
  Ratios, BucketOf,       \* values of --split; the split that the hash of an episode's key
                          \* falls into under each
  Losses,                 \* the reads that may fail: "download", "features", "scores", "report"
  MaxQcLosses, MaxChanges, MaxQcCuts   \* bounds: failed reads, changes of the lake, ends of processes

ASSUME GateAssumption ==
  /\ SampleLimit \in Nat \ {0} /\ Threads \in Nat \ {0}
  /\ MaxQcLosses \in Nat /\ MaxChanges \in Nat /\ MaxQcCuts \in Nat
  /\ BucketOf \in [Ratios -> [Episodes -> {"train", "val", "test"}]] /\ EpisodeOf \in [Episodes -> QcDatasets]

VARIABLES
  damaged,     \* files (keys) that cannot be opened
  features, low,  \* episodes with features in dwd, and those whose score is below the threshold
  qcAt, qcOf,  \* the contract run: idle, start, parquet, hdf5, video, report, rewrite; its dataset
  footers,     \* whether it reads footers only
  probing,     \* file -> wait, got (downloaded), read, done
  tmp,         \* name in the directory of the downloads -> key of what lies there, or "none"
  probes,      \* file -> [key, readable] as the probe reported it
  report,      \* dataset -> the status in its contract_report.json, or "none"
  exAt, toRead,   \* the export: idle, scores, reports, train, val, test, manifest; datasets whose
                  \* scores, reports it still has to read
  taken,       \* its --split and what it read: [ratio, features, scored, low, status]
  exported,    \* split -> the episodes in its file
  mlManifest,  \* the manifest: {} or {[train, val, test]}
  rejected,    \* <<episode, why>>: rejected when the export began, and ever since for that reason
  qcLosses, changes, qcCuts

lakeVars == <<damaged, features, low, changes>>
qcVars == <<qcAt, qcOf, footers, probing, tmp, probes>>
exVars == <<exAt, toRead, taken, exported, mlManifest>>
gateVars == <<lakeVars, qcVars, report, exVars, rejected, qcLosses, qcCuts>>

MlSplits == {"train", "val", "test"}
Keys == UNION {{f.key : f \in ToSet(FilesOf[d])} : d \in QcDatasets}
Bases == UNION {{f.base : f \in ToSet(FilesOf[d])} : d \in QcDatasets}
AnyDataset == CHOOSE d \in QcDatasets : TRUE   \* of no contract run
NoProbe == [key |-> "none", readable |-> FALSE]

-----------------------------------------------------------------------------
(* The contract.                                                           *)

\* detect_lerobot_v2: such a dataset is profiled from footers alone; an error of the store
\* while it is looked for means it is not one.
IsLerobot(d) == FamilyOf[d] = "lerobot"

\* The first files of a kind; of a LeRobot dataset only parquet, and at most 8.
Sample(d, kind) ==
  LET all == SelectSeq(FilesOf[d], LAMBDA f : f.kind = kind)
      limit == IF footers THEN IF kind = "parquet" THEN 8 ELSE 0 ELSE SampleLimit
  IN  ToSet(SubSeq(all, 1, IF Len(all) < limit THEN Len(all) ELSE limit))
Sampled(d) == UNION {Sample(d, kind) : kind \in {"parquet", "hdf5", "video"}}

Opens(k) == k \notin damaged
Readable(d, kind) == {f \in Sample(d, kind) : probes[f.key].readable}

\* The share of readable files reaches the limit, in percent; without a file it does.
Rate(d, kind, limit) == 100 * Cardinality(Readable(d, kind)) >= limit * Cardinality(Sample(d, kind))

\* What each contract has to object to: its rules of severity fail and warn that are broken.
\* An HDF5 file that opens has demos, and a parquet file rows and columns of episodes, as
\* the data of these families do.
Robomimic(d) == IF ~Rate(d, "hdf5", 95) \/ Readable(d, "hdf5") = {} THEN {"FAIL"} ELSE {}
Droid(d) ==
  {x \in {"FAIL"} : Readable(d, "parquet") = {}}
    \cup {x \in {"WARN"} : ~Rate(d, "parquet", 95) \/ ~Rate(d, "video", 95)}
Bridge(d) ==
  {x \in {"FAIL"} : Readable(d, "parquet") = {}} \cup {x \in {"WARN"} : ~Rate(d, "parquet", 95)}
\* A probe that could not look at its file counts as an empty file.
Universal(d) ==
  {x \in {"FAIL"} : FilesOf[d] = <<>>}
    \cup {x \in {"WARN"} : \/ ~Rate(d, "parquet", 95) \/ ~Rate(d, "hdf5", 95) \/ ~Rate(d, "video", 90)
                           \/ \E f \in Sampled(d) : probes[f.key] = NoProbe}

\* get_contract_runner: a family without a contract of its own gets the universal one.
Objections(d) ==
  CASE FamilyOf[d] = "robomimic" -> Robomimic(d) [] FamilyOf[d] \in {"droid", "lerobot"} -> Droid(d)
    [] FamilyOf[d] = "bridge" -> Bridge(d) [] OTHER -> Universal(d)

\* aggregate_status
Verdict(d) ==
  IF "FAIL" \in Objections(d) THEN "FAIL" ELSE IF "WARN" \in Objections(d) THEN "WARN" ELSE "PASS"

-----------------------------------------------------------------------------
(* A contract run.                                                         *)

QcKinds == <<"parquet", "hdf5", "video", "report">>

QcStart(d) ==
  /\ qcAt = "idle"
  /\ qcAt' = "start" /\ qcOf' = d
  /\ UNCHANGED <<lakeVars, footers, probing, tmp, probes, report, exVars, rejected, qcLosses, qcCuts>>

\* A read that fails because the store does not answer.
Lost(what) == what \in Losses /\ qcLosses < MaxQcLosses

\* profile_dataset: which way, and which files.
Detect ==
  /\ qcAt = "start"
  /\ \/ footers' = IsLerobot(qcOf) /\ UNCHANGED qcLosses
     \/ Lost("download") /\ qcLosses' = qcLosses + 1 /\ footers' = FALSE
  /\ qcAt' = "parquet" /\ UNCHANGED qcOf
  /\ probing' = [k \in Keys |-> IF \E f \in Sampled(qcOf)' : f.key = k THEN "wait" ELSE "done"]
  /\ UNCHANGED <<lakeVars, tmp, probes, report, exVars, rejected, qcCuts>>

\* The footer of a parquet file, read in place; the file is downloaded when that fails.
\* One file after the other, or, of a LeRobot dataset, all at a time.
ProbeParquet(f) ==
  /\ qcAt = "parquet" /\ probing[f.key] = "wait"
  /\ footers \/ \A g \in Sample(qcOf, "parquet") : probing[g.key] = "wait" =>
        SelectInSeq(FilesOf[qcOf], LAMBDA h : h = f) <= SelectInSeq(FilesOf[qcOf], LAMBDA h : h = g)
  /\ probing' = [probing EXCEPT ![f.key] = "done"]
  /\ \/ /\ probes' = [probes EXCEPT ![f.key] = [key |-> f.key, readable |-> Opens(f.key)]]
        /\ UNCHANGED qcLosses
     \/ Lost("download") /\ qcLosses' = qcLosses + 1 /\ UNCHANGED probes
  /\ UNCHANGED <<lakeVars, qcAt, qcOf, footers, tmp, report, exVars, rejected, qcCuts>>

\* A thread takes the next file and downloads it under the last part of its key; the name
\* is replaced when the download is complete.
Download(f) ==
  /\ qcAt = f.kind /\ f.kind # "parquet" /\ probing[f.key] = "wait"
  /\ Cardinality({g \in Sample(qcOf, f.kind) : probing[g.key] \in {"got", "read"}}) < Threads
  /\ \/ /\ probing' = [probing EXCEPT ![f.key] = "got"]
        /\ tmp' = [tmp EXCEPT ![f.base] = f.key]
        /\ UNCHANGED <<probes, qcLosses>>
     \/ /\ Lost("download")
        /\ qcLosses' = qcLosses + 1
        /\ probing' = [probing EXCEPT ![f.key] = "done"]
        /\ UNCHANGED <<probes, tmp>>
  /\ UNCHANGED <<lakeVars, qcAt, qcOf, footers, report, exVars, rejected, qcCuts>>

\* probe_hdf5, probe_video: what lies under the name now; a name that is gone is an
\* exception, and the file counts as unreadable.
Probe(f) ==
  /\ qcAt = f.kind /\ probing[f.key] = "got"
  /\ LET there == tmp[f.base]
     IN  probes' = [probes EXCEPT ![f.key] =
           [key |-> there, readable |-> there # "none" /\ Opens(there)]]
  /\ probing' = [probing EXCEPT ![f.key] = IF tmp[f.base] = "none" THEN "done" ELSE "read"]
  /\ UNCHANGED <<lakeVars, qcAt, qcOf, footers, tmp, report, exVars, rejected, qcLosses, qcCuts>>

\* The download is removed, whosoever it is by now.
Unlink(f) ==
  /\ qcAt = f.kind /\ probing[f.key] = "read"
  /\ tmp' = [tmp EXCEPT ![f.base] = "none"]
  /\ probing' = [probing EXCEPT ![f.key] = "done"]
  /\ UNCHANGED <<lakeVars, qcAt, qcOf, footers, probes, report, exVars, rejected, qcLosses, qcCuts>>

\* All probes of a kind are in, each at the place of its file.
NextKind ==
  /\ qcAt \in {"parquet", "hdf5", "video"}
  /\ \A f \in Sample(qcOf, qcAt) : probing[f.key] = "done"
  /\ qcAt' = QcKinds[SelectInSeq(QcKinds, LAMBDA k : k = qcAt) + 1]
  /\ UNCHANGED <<lakeVars, qcOf, footers, probing, tmp, probes, report, exVars, rejected, qcLosses, qcCuts>>

\* What is rejected while it stays so: low scores, and episodes of a dataset that failed.
RejectedBy(reports, lows) ==
  (lows \X {"score"}) \cup ({e \in Episodes : reports[EpisodeOf[e]] = "FAIL"} \X {"contract"})

\* The report, which is written once more to name its own address.
QcReport ==
  /\ qcAt \in {"report", "rewrite"}
  /\ report' = [report EXCEPT ![qcOf] = Verdict(qcOf)]
  /\ rejected' = rejected \cap RejectedBy(report', low)
  /\ qcAt' = IF qcAt = "report" THEN "rewrite" ELSE "idle"
  /\ IF qcAt = "report" THEN UNCHANGED <<qcOf, footers, probing, probes, tmp>>
     ELSE /\ probing' = [k \in Keys |-> "done"] /\ probes' = [k \in Keys |-> NoProbe]
          /\ tmp' = [b \in Bases |-> "none"] /\ qcOf' = AnyDataset /\ footers' = FALSE
  /\ UNCHANGED <<lakeVars, exVars, qcLosses, qcCuts>>

-----------------------------------------------------------------------------
(* The export.                                                             *)

\* What an export knows once it has its features.
Began(ratio, found) ==
  [ratio |-> ratio, features |-> found, scored |-> {}, low |-> {}, status |-> [d \in QcDatasets |-> "none"]]
NothingTaken == Began("none", {})
EpisodesIn(d, es) == {e \in es : EpisodeOf[e] = d}

\* Features that cannot be read are left out with a warning; without any it raises.
ExStart(ratio) ==
  /\ exAt = "idle"
  /\ \E d \in QcDatasets, lost \in BOOLEAN :
       LET found == IF lost THEN features \ EpisodesIn(d, Episodes) ELSE features
       IN  /\ lost => Lost("features")
           /\ found # {}
           /\ qcLosses' = IF lost THEN qcLosses + 1 ELSE qcLosses
           /\ taken' = Began(ratio, found)
  /\ exAt' = "scores" /\ toRead' = QcDatasets
  /\ rejected' = RejectedBy(report, low)
  /\ UNCHANGED <<lakeVars, qcVars, report, exported, mlManifest, qcCuts>>

\* The next of the two lists of files, with its next step when it is through.
ReadNext(d, next) ==
  /\ d \in toRead
  /\ toRead' = IF toRead # {d} THEN toRead \ {d} ELSE IF next = "reports" THEN QcDatasets ELSE {}
  /\ exAt' = IF toRead = {d} THEN next ELSE exAt

\* The scores of a dataset; those that cannot be read are left out with a warning.
ReadScores(d) ==
  /\ exAt = "scores" /\ ReadNext(d, "reports")
  /\ \/ /\ taken' = [taken EXCEPT !.scored = @ \cup {d}, !.low = @ \cup EpisodesIn(d, low)]
        /\ UNCHANGED qcLosses
     \/ Lost("scores") /\ qcLosses' = qcLosses + 1 /\ UNCHANGED taken
  /\ UNCHANGED <<lakeVars, qcVars, report, exported, mlManifest, rejected, qcCuts>>

\* The report of a dataset; one that cannot be read is left out with a warning.
ReadReport(d) ==
  /\ exAt = "reports" /\ ReadNext(d, "train")
  /\ \/ taken' = [taken EXCEPT !.status[d] = report[d]] /\ UNCHANGED qcLosses
     \/ Lost("report") /\ qcLosses' = qcLosses + 1 /\ UNCHANGED taken
  /\ UNCHANGED <<lakeVars, qcVars, report, exported, mlManifest, rejected, qcCuts>>

\* quality_score.fillna(100)                                            mutant
UnscoredPass(t) == {e \in t.features : e \notin t.low /\ t.status[EpisodeOf[e]] # "FAIL"}
\* apply_quality_filter: where there are scores, an episode without one has -1; where there
\* are none, every episode has 100.  A dataset without a report has not failed.
Kept(t) ==
  {e \in t.features : /\ t.scored # {} => EpisodeOf[e] \in t.scored /\ e \notin t.low
                      /\ t.status[EpisodeOf[e]] # "FAIL"}

\* build_split
SplitOf(t, s) == {e \in Kept(t) : BucketOf[t.ratio][e] = s}

WriteSplit ==
  /\ exAt \in MlSplits
  /\ exported' = [exported EXCEPT ![exAt] = SplitOf(taken, exAt)]
  /\ exAt' = CASE exAt = "train" -> "val" [] exAt = "val" -> "test" [] exAt = "test" -> "manifest"
  /\ UNCHANGED <<lakeVars, qcVars, report, toRead, taken, mlManifest, rejected, qcLosses, qcCuts>>

\* Schema, filter, lineage and card, and last the manifest; then the row in PostgreSQL.
ExFinish ==
  /\ exAt = "manifest"
  /\ mlManifest' = {[s \in MlSplits |-> Cardinality(SplitOf(taken, s))]}
  /\ exAt' = "idle" /\ taken' = NothingTaken /\ rejected' = {}
  /\ UNCHANGED <<lakeVars, qcVars, report, toRead, exported, qcLosses, qcCuts>>

-----------------------------------------------------------------------------
(* The environment.                                                        *)

QcCut ==
  /\ qcAt # "idle" /\ qcCuts < MaxQcCuts
  /\ qcCuts' = qcCuts + 1
  /\ qcAt' = "idle" /\ probing' = [k \in Keys |-> "done"] /\ probes' = [k \in Keys |-> NoProbe]
  /\ tmp' = [b \in Bases |-> "none"] /\ qcOf' = AnyDataset /\ footers' = FALSE
  /\ UNCHANGED <<lakeVars, report, exVars, rejected, qcLosses>>

ExCut ==
  /\ exAt # "idle" /\ qcCuts < MaxQcCuts
  /\ qcCuts' = qcCuts + 1
  /\ exAt' = "idle" /\ toRead' = {} /\ taken' = NothingTaken /\ rejected' = {}
  /\ UNCHANGED <<lakeVars, qcVars, report, exported, mlManifest, qcLosses>>

\* Files are replaced, features and scores are built again.
Change ==
  /\ changes < MaxChanges
  /\ changes' = changes + 1
  /\ \/ /\ \E k \in Keys : damaged' = (damaged \ {k}) \cup ({k} \ damaged)
        /\ UNCHANGED <<features, low, rejected>>
     \/ /\ \E e \in Episodes : features' = (features \ {e}) \cup ({e} \ features)
        /\ UNCHANGED <<damaged, low, rejected>>
     \/ /\ \E e \in Episodes : low' = (low \ {e}) \cup ({e} \ low)
        /\ rejected' = rejected \cap RejectedBy(report, low')
        /\ UNCHANGED <<damaged, features>>
  /\ UNCHANGED <<qcVars, report, exVars, qcLosses, qcCuts>>

GateInit ==
  /\ damaged = {} /\ features = Episodes /\ low = {}
  /\ qcAt = "idle" /\ qcOf = AnyDataset /\ footers = FALSE
  /\ probing = [k \in Keys |-> "done"] /\ probes = [k \in Keys |-> NoProbe]
  /\ tmp = [b \in Bases |-> "none"] /\ report = [d \in QcDatasets |-> "none"]
  /\ exAt = "idle" /\ toRead = {} /\ taken = NothingTaken
  /\ exported = [s \in MlSplits |-> {}] /\ mlManifest = {} /\ rejected = {}
  /\ qcLosses = 0 /\ changes = 0 /\ qcCuts = 0

GateNext ==
  \/ \E d \in QcDatasets : QcStart(d) \/ ReadScores(d) \/ ReadReport(d)
  \/ \E f \in Sampled(qcOf) : ProbeParquet(f) \/ Download(f) \/ Probe(f) \/ Unlink(f)
  \/ Detect \/ NextKind \/ QcReport \/ QcCut \/ ExCut \/ Change
  \/ (\E ratio \in Ratios : ExStart(ratio)) \/ WriteSplit \/ ExFinish

GateSpec == GateInit /\ [][GateNext]_gateVars

-----------------------------------------------------------------------------
(* Properties.                                                             *)

\* Whatever the threads do to each other, what is reported of a file was read from that
\* file (profile_dataset, _run_parallel_probes: the results are in the order of the files).
ProbesAreTheirFiles ==
  \A f \in Sampled(qcOf) : probes[f.key].key \in {"none", f.key}

\* What was rejected, by its score or by the contract of its dataset, all the time from the
\* export's beginning gets past it only unread: a low score when the export could read no
\* scores at all, a failed contract when it could not read that report.  So it is against
\* every order of contract runs, exports, changes and ends of processes, and scores lost
\* beside others that were read reject their dataset (quality_filter.json:
\* "quality_score >= threshold", "qc_status != FAIL"; export_ml_ready only warns of a read
\* that fails).
RejectedStaysOut ==
  exAt = "manifest" =>
    \A s \in MlSplits, r \in rejected : r[1] \in exported[s] =>
      \/ r[2] = "score" /\ taken.scored = {}
      \/ r[2] = "contract" /\ taken.status[EpisodeOf[r[1]]] = "none"
=============================================================================
