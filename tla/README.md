# robot-data-harness: TLA+ models, checks and proofs

robot-data-harness moves robot datasets through a lake (`raw -> ods -> dwd -> ads`
on an S3 bucket or a local directory), keeps a PostgreSQL warehouse of what it
did, and runs batches of model inference over the result. It is a set of Python
processes, started by Argo, by cron and by hand, that meet in three places: the
objects of the lake, the rows of the warehouse, and directories of one host.
There are no locks between them, other than those of single SQL statements. What
can go wrong is therefore mostly a matter of order: who wrote what before dying,
who looks at it next, and what that reader takes for finished.

This directory models those parts in TLA+, checks them on small instances with
TLC and proves the central facts for every instance with TLAPS.

Contents: [the system](#1-the-system), [the modules](#2-the-modules),
[the runs](#3-what-is-checked), [fairness](#4-fairness), [the proofs](#5-what-is-proved),
[disagreements between code and documents](#6-where-the-code-and-its-documents-disagree),
[what is left out](#7-what-is-not-modelled-and-why), [the plan](#8-plan),
[how to run it](#9-running-it).

Paths below are relative to `src/robot_dh/` of the repository unless they begin
with `workers/`, `argo/`, `go/`, `warehouse/` or `docs/`.

## 1. The system

### 1.1 Components modelled

**normalize, raw -> ods** (`etl/normalize.py`, `progress/checkpoint.py`,
`lake/manifest.py`, `lake/store.py`). One call of `normalize_dataset` handles one
slice `ods/<dataset>/<version>/`.
- State: the three parquet files, `_manifest.json`, `_checkpoint.json`; rows of
  `etl_jobs`, `lake_assets`, `dataset_versions`.
- Operations: skip when a readable manifest exists; resume when the three files
  exist (publish them without computing anything); otherwise compute, upload,
  register, publish, close.
- Interaction: readers of the slice (features, scan, audit) trust the manifest
  only; a retry trusts what an earlier run left behind.
- Hard: crash between any two writes, the order of an upload (sorted on a local
  store, arbitrary in the thread pool of S3), raw data replaced between a lost run
  and its retry, a second run beside the first.
- Correct when: a readable manifest lies beside whole files, from then on nothing
  changes unless `--force`, its checksums are those of the files, no row and no
  checkpoint that says OK is ahead of the lake, and the slice is published in the end.

**etl_run, etl_scan, features, ads** (`etl/runner.py`, `etl/features.py`,
`etl/ads.py`). `etl_run` chains the phases for a dataset, `etl_scan` does so for all
it discovers and then builds the shared `ads/quality` slice; an Argo workflow calls
the phases as separate steps with retries.
- State: the layers `ods`, `dwd`, `ads`, the version status, one row per run.
- Interaction: features read the ods files without asking for their manifest; ads
  read every dwd file they find; the scan skips datasets whose two manifests exist.
- Hard: a crash or failure between two layers, raw data replaced meanwhile, a
  workflow retried or submitted again beside a scan.
- Correct when: a published dwd layer was computed from the very ods slice that is
  published; a row that says OK means what a reader takes it for; only `--force`
  rewrites; the quality slice covers what a green scan ended with.

**Shard runner and merge** (`sharding/shard_runner.py`, `sharding/merge.py`,
`argo/templates/robot-dh-scale-etl-workflowtemplate.yaml`). A plan's shards are run by
one workflow step each; a step runs its datasets in a thread pool.
- State: futures, results collected so far, `shard_summary.json`, `etl_shards` row,
  exit status, the merged summary.
- Hard: `--fail-fast` cancels while other threads go on; an exception leaves no
  summary and a RUNNING row; a row write may be lost with a warning; the merge adds up
  the summaries it finds and can read, and passes over the others.
- Correct when: what a summary calls succeeded is published, a green merge that adds up
  to the plan means that the whole plan is, no thread works on after its step.

**Shard planner** (`sharding/planner.py`; `partition/planner.py` has the same loop).
Pure: first-fit decreasing under a cap. Correct when no two shards could be one, the
cap holds, and overflow is spread.

**GPU worker and its queue** (`workers/autodl_inference_worker/worker.py`,
`inference/job.py`, `inference/outputs.py`, `inference/failures.py`, `api/main.py`,
`ai_tasks/state.py`). Workers claim QUEUED rows with a conditional UPDATE, write three
artifacts, finalize the row, insert rows of samples.
- State: `inference_jobs`, `inference_outputs`, `inference_failures`, objects below each
  output URI, per worker the claimed job.
- Hard: two claims of one row, a worker dying anywhere, the row finalized before its
  details, a loop that ends on a lost race.
- Correct when: a job has one runner, statuses move along `VALID_TRANSITIONS` (which no
  code enforces), a finished row is backed by artifacts that say the same, every queued job
  is claimed and every claimed one finished or its worker dead.

**Perf records** (`perf/writer.py`, `perf/pending.py`, `warehouse/service.py`). A record
the drifted warehouse cannot take becomes a file; `perf reingest-pending` drains the files.
- State: rows of `etl_perf_runs`, the pending directory, the archive, an S3 mirror of both,
  the counters of a reingest.
- Hard: kill or lost answer between insert and archive, two reingests over one
  directory, a half written file, schema that changes while it all runs.
- Correct when: nothing is lost to drift, a file disappears only once its row is there, exit
  status 0 means stored, nothing is stored twice in undisturbed operation, and the
  backlog drains.

**Lake store** (`lake/store.py`). Uploads appear in the modules that make them. Downloads:
`download_dir` brings the raw data of a dataset into a directory that, with `--resume`,
survives the process and is shared by all that load the same URI.
- Hard: the comparison with what is there looks at sizes; the `.part` files of two processes
  have one name; objects change between the listing and the transfer.
- Correct when: whoever finished has every object it listed and, unless another loader was at work beside it, none
  older than it was then.

**Batch inference, model registry, distillation** (`inference/runner.py`, `inference/batch.py`,
`models/registry.py`, `ai_tasks/store.py`, `distill/builder.py`). `infer run` writes four files
and then its rows; `infer retry` reads the failed samples of an earlier run; `distill build`
reads predictions and report.
- State: the files of each output URI, the job row, events and dead letters, the registry in
  PostgreSQL or, during an outage, in a JSON file.
- Hard: batches that finish out of order, retries, fail-fast, runs that share an output URI, a
  reader between two writes of a run.
- Correct when: a prediction stands beside its sample, in whatever order and with whatever gaps a backend answers;
  the files below the manifest of a run that had its URI to itself are of that run, and distilled data name the job
  their predictions come from. Nothing keeps runs apart that share a URI at one time: their files mix.

**Metadata tables and their writers** (`warehouse/service.py`, `warehouse/robot_platform.py`,
`argo/sync.py`, `argo/logs_index.py` and every program that records something). Each write is a
session of its own: SELECT, INSERT or UPDATE, commit; soft writers warn and go on.
- Hard: two sessions on one key; a synchronisation that carries an old view of the workflow; a
  schema or a server that is not there.
- Correct when: a key has one row, what a writer was told is stored is there, and after an
  undisturbed synchronisation the tables say what the workflow says.

**Metrics warehouse** (`warehouse_metrics/builder.py`, `warehouse/sql/dml/`). A build recomputes 12 tables of five
layers over a window of days, each from those below, each by one INSERT .. ON CONFLICT in a transaction. On SQLite,
which the tests use, Python functions of their own do the same.
- Hard: a statement that is refused or fails below one that is rebuilt, two builds at once, sources that change
  meanwhile, columns that a conflict does not update, keys that no longer occur, two programs for one table.
- Correct when: after a green, undisturbed build the dashboards say what the sources say, and
  the daily build repairs everything in the end.

**SLA checks, quality summary, backfill** (`quality_ops/`). They read the dashboards and the
sources beside them, record verdicts, and turn failures into plans whose tasks are commands.
- Hard: tables of different ages in one verdict; one plan run twice, timed out or killed.
- Correct when: a PASS is earned, and nothing is left RUNNING by a run that ended.

**Validation, gate, registry, scan** (`scan.py`, `pipeline.py`, `gate/`, `validators/`,
`registry/service.py`). A validation grades a recording and registers it in two transactions;
an hourly scan does so for what has no successful run yet.
- Hard: run ids of one second that replace each other, data exchanged between the look and the
  load, an exception that ends the scan.
- Correct when: what is skipped had passed, and every good dataset gets its successful run.

**Quality contracts and ML-ready export** (`qc/`, `ml_ready/`). A contract run probes a sample of
a dataset's files, in threads, and writes a report; an export leaves out what reports and scores
reject and splits the rest.
- Hard: threads that share a directory of downloads, files named by their basename, reports
  that are missing, old or cannot be read.
- Correct when: a probe describes the file it names, and what is rejected gets past an export only where the export
  could not read the rejection.

**Heartbeats** (`progress/heartbeat.py`, `progress/stale.py`). Long tasks beat into a log and a
table; a check grades the latest beat of each step.
- Correct when: a silent task is reported, one that beats is not.

**Exporter** (`go/robot-dh-exporter`). One goroutine queries the database family by family and
sets the gauges that Prometheus reads.
- Hard: queries that fail while the gauges keep their values, tables that come later, a database
  that goes away.
- Correct when: `up = 1` vouches for every gauge, and the gauges catch up after an outage.

### 1.2 Components not modelled

| component | why |
|---|---|
| profiler (`perf/profiler.py`) | counts bytes and seconds of one process |
| runtime events (`runtime/`) | append-only; nothing reads them back to decide |
| lake audit and schema (`lake/audit.py`, `lake/schema.py`) | read-only |
| local runtime, infra doctor, reports | environment checks, plots and pages |
| deployment (`docker/`, `k8s/`, `postgres/`, `scripts/`) | not the program's logic; the schedules of the CronJobs are the ground of section 4 |

`PROJECT.json` lists every component with its files, its status and what of it is left out,
and under `hazards` each place in the code where something hard to test can happen, with the
properties that cover it or the reason why none does.

### 1.3 How the parts interact

```
   etl_scan / Argo step / run_shard thread        POST /inference/jobs      infer run / retry
                 |                                        |                        |
             etl_run                               inference_jobs (QUEUED)         |
       normalize -> features -> ads                        |  claim                |
        |     |       |         |                     GPU worker ------------> lake artifacts
     ods/  rows     dwd/     ads/quality                   |  finalize             |
        \     \      |         /  \                 inference_outputs / _failures  distill
         manifest = published     ml-ready export <- qc reports
                 |
        emit_perf_records --drift--> pending files --reingest--> etl_perf_runs
                                                                     |
    metadata rows (jobs, workflows, contracts, ...) ------> warehouse build -> dashboards
         ^               ^                                           |          |    \
     programs       argo sync                                    sla check   exporter  backfill
```

The composition in the models follows these arrows. NormalizeRun is the detailed model of
one slice, and implements OdsSlice, what a slice looks like to its readers. EtlPipeline
takes each layer at the level of that promise (files, then a manifest that vouches for
them) and composes it with features, ads, the scan and the workflow. ShardRunner takes
`etl_run` at the level of its result: a status, and whether the layers are in the lake.
QualityOps extends WarehouseBuild: checks and plans work on the very tables the builds
produce. WorkflowMetadata extends MetadataStore with the programs that write through it.
RegistryScan extends ValidationRules with the processes that apply the rules. PerfPending and
InferenceWorker meet the rest only through the warehouse.

## 2. The modules

Every module abstracts *data* and keeps *control*. A file's content is the generation of
the raw data it was computed from (so that "computed from the same input" is an equality);
a set of predictions is how many of them failed. Every write that another process or a
later run can see is a step of its own; what happens in one process's memory in between is
part of the step that follows.

A definition marked `\* mutant` is not part of a model. It is the following definition
with a plausible bug in it, and `PROJECT.json` names the property that this bug violates:
every property is known to be able to fail.

### OdsSlice

The abstract specification: a slice is unpublished; one step publishes some content; then
it never changes. NormalizeRun implements it for runs that come one at a time
without `--force` (`WriteOnce`, with `published <- Content`, the files if a readable manifest is
there).

### NormalizeRun (`etl/normalize.py`)

| action | code |
|---|---|
| `Check` | manifest check and SKIPPED, `normalize_dataset` entry |
| `StartJob` | `record_etl_job_start`, choice of the resume path |
| `TryResume`, `ResumeManifest`, `ResumeCkpt`, `ResumeJob` | `_try_resume` |
| `BeginFresh`, `Load` | new checkpoint; materialize, load, stage the three tables |
| `PutFile` | `S3LakeStore.upload_dir`: atomic puts in any order |
| `BeginCopy`, `EndCopy` | `LocalLakeStore.upload_dir`: truncate, fill, in sorted order |
| `UploadDone` | checkpoint says UPLOADED |
| `RecordAsset`, `RecordVersion` | `record_lake_asset` per file, `upsert_dataset_version` |
| `FreshManifest` | `write_manifest`; torn first on a local store |
| `FinishCkpt`, `FinishJob`, `Exit` | checkpoint OK, row OK, profiler and heartbeat close |
| `Fail` | the `except` of the fresh run: row FAIL, files stay |
| `Crash` | pod killed, or an exception in the resume path (no handler) |
| `Rediscover` | `etl_run` sets the version back to `discovered` before it calls any phase (`etl/runner.py:190`); the CLI commands that call `normalize_dataset` themselves do not, so it is an action of its own |
| `RawChange` | upstream replaces the raw data |

`Atomic` selects the store. `Exclusive` says that runs do not overlap (the CronJob's
`concurrencyPolicy: Forbid`); overlapping local runs would mix bytes of one
file and are excluded by an assumption. `PgLossy` lets the soft warehouse drop any write.

### EtlPipeline (`etl/runner.py`, `etl/features.py`, `etl/ads.py`, the devscale workflow)

A process is a scan (`ScanStart`, then per dataset `SkipDataset` or `TakeDataset` and
`etl_run` with all phases, `AdsList`/`AdsRead`/`AdsUpload`/`AdsManifest`, `Close` with
`ScanStatus`) or a workflow branch (`StartStep` for the normalize step and then the
features step, each `StartRun` .. `RunOk`; `Resubmit` after the workflow is over).
`Norm*` and `Feat*` are the phases; `RunFail` and `AdsFail` their exceptions; `Crash` the
loss of a process; `RawChange` as above. Each layer is a record of the generation of its
main file, of its other files and of its manifest. The phases keep the order of the code:
version set to `discovered` by every run, also one that will skip; upload; registration;
manifest. `forced` is a history variable: the datasets a `--force` run has taken up. Job
rows of the inner phases, lineage events and the loss of warehouse writes (which
NormalizeRun covers) are left out.

### ShardRunner (`sharding/shard_runner.py`, `sharding/merge.py`, `cli.py`)

The main thread of a step is `Begin`, `Collect`, `Cancel`, `Drain`, `WriteSummary`,
`FinishRow` (`Skip` for a step without a shard, `RaiseOut` for an exception out of the pool). Both
row writes are soft: each may be lost (`warned` is the warning in the log about the closing one), and on
a drifted schema each may raise (`BeginRaises`, `FinishRaises`);
`StartTask` and `FinishTask` are the pool's threads, which run on during `Cancel` and `Drain`.
Without a pool (one worker or one dataset) the main thread starts the next dataset itself.
`Merge` runs when all steps exited 0, or by hand at any time, and adds up any subset of the summaries that
are there: one that cannot be read costs a warning only. `Crash` takes the
threads along and a retry starts from nothing. The sum of the `total`s is written as the number of datasets of the
shards merged, which it is, and OK and WARN of `etl_run`, which are counted alike, are one outcome.

### ShardPlanner (`sharding/planner.py`)

One step per iteration of `_pack_into_shards`: `PlaceFirst`, `PlaceNew`, `PlaceOverflow`,
`Raise` (a cap of 0), `Finish` (at least one shard, also for an empty plan). The sort is the
choice of the next dataset by `Before`, which is stable as `sorted` is.

### InferenceWorker (`workers/autodl_inference_worker/worker.py`)

`Submit` is the HTTP endpoint. A claim is `Select`, `Update` (which waits while another
transaction holds the row's lock and then sees what that left) and `Commit`. `run_claimed_job`
is `Predict`, `WritePredictions`, `WriteFailures`, `WriteReport`, `Finalize`,
`RecordOutputs`, `RecordFailures`. `LoopExit` is the end of `run_worker`: limit reached or
nothing found. A lost race also ends the loop (`Update`). `Die` loses a worker
anywhere: an open transaction is rolled back, a committed claim stays.

### PerfPending (`perf/writer.py`, `perf/pending.py`)

An emitter goes through its records: stored, dropped by the soft service, deferred into
a file (opened, written, mirrored), or raised. `DirectoryGone` is the reingest that removes the emptied directory
between the `mkdir` and the `write_text` of an emitter, which then raises. A reingest is `List`, then per file `Read`,
`InsertPending`, `Move` or `MoveFails`, `ArchiveObject`; `Abort` on any SQL error, `Finish` at
the end. `AnswerLost` is a connection that breaks after the commit; `KillEmitter`,
`KillReingest` kill processes; `ChangeDb` migrates, drifts or stops the database.

### RunInference (`inference/runner.py`, `inference/batch.py`, `distill/builder.py`)

`InfStart` looks the model up and records the job, whoever else is at work below the same URI; `InfBuild` makes
samples and batches. `InfCall` is one call of the backend for the samples of a batch that still lack a good answer
(`Asked`). It answers in any order, and not for all of them (`Replies`); `ById` is the dictionary that collects the
answers by `sample_id`. Then the call is repeated, or the batch has its place (`Place`) while others are in flight, or
some sample is not in the dictionary: a KeyError that ends the run. `InfCollect` joins the batches, or fills up
with SKIPPED after a fail-fast; `InfOpen` and `InfWrite` make each file visible half and whole, in the order `Ending`
(on a local store two writers of one file may leave a mixture, `Mixed`); `InfRecord` and `InfFinal` are the
rows, the last event and the dead letter. `InfCut` loses the process or lets a write raise (both leave the same behind).
`Register` and `DbFlips` move the registry between the database and its JSON file. `DistillRead` and `DistillBuild` are
the two reads of `build_distill`, at any time. A file is the number of the run that wrote it. `shared` and the field
`alone` of a build are history variables: who had company at an output URI.

### MetadataStore and WorkflowMetadata (`warehouse/`, `argo/`)

MetadataStore: one `Record...` or `Upsert...` operator per method of the two services, each a
description of the write (table, key, columns set and given); `Look` is its SELECT, `Commit` its
INSERT or UPDATE with what the session has read, the unique constraint, and the answer in soft
mode. WorkflowMetadata gives each program its sequence of writes (`NormalizeWrites` .. `PartitionWrites`),
the workflow as Argo moves it (`TaskStarts`, `Ends`, `WorkEnds`, `WorkflowRetry`), and `Fetch` with
`SyncWrites` or `IndexWrites` for `argo sync` and `argo logs index`, from the pod of the workflow's
last tasks and from an operator.

### WarehouseBuild, WarehouseSqlite and QualityOps (`warehouse_metrics/`, `warehouse/sql/dml/`, `quality_ops/`)

WarehouseBuild is the production path: each of the twelve statements of `warehouse/sql/dml` is an operator of the
sources, the tables below and the window (`DimDataset` .. `AdsInference`) with the rows it selects, and `Merged` what
its `DO UPDATE SET` makes of a row that is there; a fact keeps the day, the dataset and the type of workflow it was
inserted with. `fact_etl_run` selects by `created_at`, dates by `started_at` and has nothing that removes duplicates, so
that two records of one run in a window (`Clash`) make PostgreSQL refuse the statement (`Refused`).
`StartBuild`, then per table `ReadStep` and `CommitStep`, or `AbortStep` (refused) or `FailStep`, `FinishBuild`;
`KillBuild`; `Write` is the rest of the system. `current` is a history variable: the windows a green build of all layers
ran over with nothing beside it. WarehouseSqlite has the functions that the builder uses on SQLite (`Sqlite...`), to be
compared with the statements. QualityOps extends WarehouseBuild: `SlaCheck` (`OutputPresent` with its fallback on fragments
of names, `Fragments`), `PlanBackfill` (`PlanCrashes` when the keys cannot be sorted), and per process of `backfill
run` `StartRun`, `BeginTask`, `EndTask`, `TimeOut`, `FinishRun`, `KillRun`.

### RegistryScan and ValidationRules (`scan.py`, `pipeline.py`, `registry/service.py`, `validators/`, `gate/`)

ValidationRules: `Loadable`, one operator per validator, `ReportStatus`, `GateStatus`, over a
recording abstracted to the quantities that are compared. RegistryScan: the scan (`ScanStarts`,
`Peek`, `ScanEnds`) and a client (`Request`) run `Load`, `RegisterDataset`, `RegisterRun`, `WriteAgain`;
`Raises` is any failure on the way; `Upload` exchanges the data, `NextSecond` moves the clock that
run ids are made of. `passed` is a history variable: what a validation has found good.

### QualityGate (`qc/`, `ml_ready/`)

A contract run is `QcStart`, then kind by kind `ProbeParquet`, or `Download`, `Probe`, `Unlink` per
thread, `NextKind`, and `QcReport` with the rules of the family (`Objections`) and `Verdict`. An export is
`ExStart` with its `--split`, `ReadScores` and `ReadReport` per dataset, `WriteSplit` per split, `ExFinish`. Each of its
reads may fail, which costs a warning; `Kept` is the filter that is applied to what was read. `QcCut`, `ExCut` end the
processes; `Change` is the lake changing under both. `rejected` is a history variable: what has been rejected, and for
which reason, since the export began.

### InputCache, Heartbeat, Exporter

InputCache (`lake/store.py`): per loader `LoaderStarts`, `LoaderLists`, per object `Compare`, `Request`, some time later `Land` (what was requested,
into the `.part` file), `Rename`, `CleanPart`, then `LoaderEnds`; `GetFails`, `LoaderDies`, `SourceChanges`. `crowded` is a
history variable: the loaders that had another one beside them.
Heartbeat (`progress/`): `Enter`, `UpdatePhase`, `MaybeEmit`, `Exit` with `Emit` inside; `HbDies`, `Tick`; the check
is the operators `LatestBeat`, `Graded`, `Overall`, `CheckExit`.
Exporter (`go/robot-dh-exporter`): `Connect`, `ScrapeStart`, `Query` per family (`Serves`: through the cached list of
tables), `ScrapeEnd`, `Minute` (the cache gets old); `Write`, `DbFlips`.

## 3. What is checked

Twelve runs: eight pass, and between them every action of every module fires; the four of
section 6 each end in a counterexample. Deadlock checking is off where processes really stop
(all jobs done, all runs used up).

Services that share no state are checked in one run: MCServices and MCServicesLive
extend their modules side by side, and a variable `service`, chosen in the initial state, says whose
behaviour this is; the others keep still. This checks each service exactly as a run of its own
would, on the sum of their states, not the product. MCWarehouse does the same with `part`: in one the
builds interleave step by step, in the other the checks and plans of QualityOps work on whole builds. `SimplifiedAgrees`
compares the two databases on the sources of every state in which no build has written a table yet.

| run | instance | distinct states | what it shows |
|---|---|---|---|
| `normalize_s3` | S3, 2 overlapping workers, 3 runs, 2 faults, `--force` and `--no-resume` allowed | 313,696 | `PublishedComplete`, `SliceIsTold`: however two runs of one slice interleave and die, a readable manifest lies beside three whole files, a full one has registered rows, and nothing says OK or normalized before that |
| `normalize_local` | local store, runs one at a time, 3 runs of which 2 may be lost, 2 generations of raw data, writes of the warehouse may be lost | 31,309 | `ManifestVouches`; `OneGeneration` (the sorted order of the upload makes a resume safe against mixtures); `WriteOnce`, the refinement of OdsSlice; `EventuallyPublished` |
| `worker` | 2 workers that may be started again at any time, 2 jobs of 3 samples, `--max-jobs 2`, 2 deaths | 52,842 | `ClaimExclusive`, `RowsAreBacked`, `FinishedIsReported`, `StatusMoves`, `LiveWorkersServe` |
| `shard_merge` | 2 shards (2 datasets and 1), a third step without a shard, 2 threads, 1 crash, row writes lost or raising, merge at any time of any summaries that can be read | 240,208 | `StepsAccount` (summary, row, exit status, threads), `GreenMergeIsComplete`, `StepsEnd` |
| `pipeline` | a scan with one dataset and a workflow branch with another, 2 generations, 1 fault, `--force` or not | 414,064 | `DwdVouches`, `GreenIsPublished`, `AdsCoverScan`, `EventuallyPublished` |
| `warehouse` | 2 builders (daily build of all layers; dws and ads by hand), 2 days, 5 histories of the sources, 1 fault; 2 more histories with 2 policies, 2 requests, 1 plan, 2 backfill runs | 404,149 | `DashboardTellsTruth`, `BuildsConverge`; `SimplifiedAgrees` (SQLite shows what PostgreSQL does); `PassIsEarned`, `NothingLeftRunning` |
| `services` | inference: 3 runs on one output URI, batches of 2, 3 samples or 1, 1 retry; metadata: 2 clients, 1 retry and 1 sync of the workflow; heartbeats: 2 tasks of one step; cache: 2 loaders, 3 objects; contracts: 2 datasets of 2 files, 2 threads, 2 episodes, 2 values of `--split`, 1 failed read of any kind; planner: all lists of 4 sizes up to 4 | 1,358,400 | `FilesAreOfTheRun`, `AnswersItsSample`, `DistilledNamesSource`; `TablesHold`, `SyncIsTrue`; `CheckIsRight`; `CacheIsCurrent`; `RejectedStaysOut`; `NoTwoMergeable`, `OverflowIsSpread` |
| `services_live` | perf: 1 emitter with 2 records, 2 reingests, the database ok, drifted or without tables, 1 change, 1 fault; scan: 2 directories, 3 recordings, 2 seconds, 1 upload, 1 request, 1 failure; exporter: 3 families, 3 writes, 2 flips of the database | 372,492 | `RecordsAccounted`, `KeptUntilStored`, `Drains`; `SkippedWasEarned`, `ScanReachesAll`; `UpMeansFresh`, `ExporterCatchesUp` |

### Why these bounds

- *Generations 2.* The properties compare generations for equality only; a third can only
  repeat what the second shows. `normalize_s3` keeps the raw data fixed: two overlapping runs over
  changing data mix generations on S3 and the code promises nothing about that.
- *Runs 3, faults 2.* One lost run leaves a partial upload, a second one leaves another on top
  of it or dies in its resume, the third must cope. A fault may strike at any step.
- *Two workers, reingests, threads, loaders, clients, builders, backfill runs.* The races are between
  one who has read and one who has written since; a third adds no new kind of overlap. The
  proofs of section 5 do not have this bound.
- *Three samples.* The smallest number where "at most half failed" differs from "none", "one"
  and "not all": the verdict flips between 1 and 2.
- *Sizes up to 4, targets 4 and 5, caps around 2 and 3.* Sizes at, below and above the target,
  pairs that fill a shard exactly, caps that are and are not reached, the empty targets and caps.
- *Shards of 2 and 1, one attempt.* With 2 threads, `--fail-fast` has something to cancel before a thread takes
  it and something to wait for; the smaller shard takes the path without a pool. That an attempt meets what
  another one left behind is covered by the proofs, which do not bound the attempts.
- *Two days, histories of the sources.* One day on which something happens and one it spills over
  to. Each history is the shortest that shows a hazard of the aggregation: a dataset of a shard that
  fails and fails again in the retries, which PostgreSQL refuses; a run dated one day and ingested the next; a contract
  that fails and then passes; steps whose workflow row comes late; a job that ends on the day after it started. The
  writes come at any time between the steps of the builds.
- *Three runs of inference, one output URI, batches of 2.* One may retry another, write beside it or over it,
  and a third may come upon what two have mixed. A batch of two can be answered in either order and in part, and a third
  sample makes a second batch that is not full.
- *Two seconds.* Run ids that collide and run ids that differ.
- *`FewFaults`* bounds the faults of the `services` together: one around the inference runs, one
  around the tables, two around the contracts and exports; two loaders at a time do without. `FewRuns` splits the runs of
  inference into two services. In one, a run and a retry of it meet every order of answers, gap and outage; in the
  other, a run that has the output URI to itself is followed by two that may overlap, with a death and a distillation.
  `FewExports` stops after the first export, and lets one with the other `--split` do without faults.

### Premises worth knowing

`ManifestVouches`, `OneGeneration` and `WriteOnce` are stated for runs that do not overlap and
are not forced: with `--force` the code rewrites files below an old manifest that it does not
remove first, and a reader in between, or after a crash there, sees a mixture. `OkIsPublished`, a part
of `SliceIsTold`, leaves out forced runs on a local store, where rewriting the manifest truncates it first.
`DwdVouches` and `AdsCoverScan` leave out datasets anybody forced for the same reason.
`AdsCoverScan` is stated for a single scan, because concurrent `build_ads` runs overwrite
one another. `GreenMergeIsComplete` is about a merge whose total is the size of the plan. Exit status 0 alone does not
mean that anything is complete: a summary that cannot be read is passed over (`sharding/merge.py:38`), and the template has
steps 0, 1, 2 while `max_shards` is a parameter. `found_shards` = `expected_shards` does not either, since the SKIPPED summary
of a step beyond the plan counts as found. In `StepsAccount` a row may lack its verdict if the log warned
that the write was lost, and the sums of a summary are stated without `--fail-fast`, with which cancelled
datasets are counted nowhere. `FinishedIsReported` is stated for jobs with an output URI of their own.
`RecordsAccounted` promises a single row per record only for undisturbed operation: nothing makes the
insert idempotent, so a kill between insert and archive, or overlapping reingests, does store a record twice;
and it excludes what the soft service dropped for other reasons: by design it logs and goes on.
`FilesAreOfTheRun` is about runs that had their output URI to themselves, among whatever others used it before and after,
and allows a file of a later run that is still under way or was cut; the files of runs that wrote there at the same time
mix, as nothing in the code prevents it. `DistilledNamesSource` leaves out the same runs, builds that had a
writer beside them, and predictions of a run that was cut before its report. `CacheIsCurrent` is stated where two
generations of an object differ in size, which is all the code compares, and its freshness for a loader that had no
other beside it: an early request may land late. That every listed object is there holds for all.
`RejectedStaysOut` lets a rejection pass that the export could not read: a failed contract whose report could not be
read, a low score when no scores at all could be. `DashboardTellsTruth` speaks of windows that a green build of
all layers ran over undisturbed, and of a dataset's runs only where the build sees each of them once (`Settled`): a run
dated on one of its days but recorded outside of the window is not selected. `PassIsEarned` rests on the same. What
`SimplifiedAgrees` compares are sources on which the two should agree (`Plain`: one record per run, recorded on the day
it started, contract runs with a start); family, top rule and the rows of datasets that were only scored differ. `TablesHold` allows
a column to hold what another program wrote to it. `ScanReachesAll` leaves out datasets
behind a directory that cannot be loaded, at which every scan ends, and `ExporterCatchesUp` an exporter
that found no database when it started.

## 4. Fairness

Weak fairness, with one exception.

- Steps of a live process or thread: the operating system and the database run them (`Step` in
  NormalizeRun, EtlPipeline and InferenceWorker, `Main`, `StartTask`, `FinishTask` of a shard, `Emit` and
  `Handle` of the perf records, `BuildStep`). A dead process takes none.
- Restarts from outside: `Check` in NormalizeRun (Argo's retry or the next scan orders a slice
  again while runs are left), `ScanStart` (the scan is what the documentation tells operators
  to repeat), `StartStep` (the controller starts and retries steps), `List` (`reingest-pending` is
  repeated as long as files are pending).
- `Start` of a GPU worker is *not* fair: `run_worker.sh` is a plain `exec`, and the loop ends when it finds nothing
  and never polls. `LiveWorkersServe` is therefore about workers that are alive: a claimed job is finished unless its
  worker dies, and a job that is queued while some worker is about to look or works on another is claimed, as long as nobody dies
  and `--max-jobs` is not below the number of jobs. A first version of that statement spoke of any live worker and TLC refuted it: one
  that has selected a job and lost it to a winner that is gone leaves too.
- `Scan` of the validation: `k8s/scan-cronjob.yaml` runs it every hour, one at a time
  (`concurrencyPolicy: Forbid`).
- `Exports` and `Minute` of the exporter: its goroutine, its ticker and the clock.
- Strong fairness of `StartBuild` for builds of all layers only: `BuildsConverge` is about the daily
  `warehouse build` that the CronWorkflow of the deployment starts, and a build by hand that happens
  to run at that time must not take its turn for ever. Partial builds by hand (dws and ads) are not fair.
- Not fair: faults, kills, `RawChange`, `ChangeDb`, `DbFlips`, `Write`, `Upload`, `Request`, `Submit`,
  `Resubmit`, `Merge`, and everything in the modules that have safety properties only.

`Drains` and `NoRecordBlocks` assume in their formula that the schema is right from some
point on, since nothing in the program repairs it, and `ExporterCatchesUp` that the database answers
in the end.

## 5. What is proved

With TLAPS, for every value of the constants that satisfies the module's one assumption (types of the
constants, and what the deployment gives: no two processes on one dataset, one dataset per branch, a pod
among the clients, and the like): any sets of workers, jobs, shards, records, directories, tables and clients, any
number of runs, faults, generations and datasets, any sizes, targets and caps. Eight modules hold proofs. Each
part has the shape `Init => IInv`, one lemma per action or per conjunct for
`IInv /\ [Next]_vars => IInv'`, and a short step from `IInv` to the property. Every safety property and every
action property of the runs is among the results. Hypotheses that a theorem has beyond those assumptions are named below with
their reasons.

**NormalizeRunProofs.** `TypeCorrect`, `Invariant`, `Complete` (`PublishedComplete`), `Readable`
(`PublishedReadable`), `Vouches` (`ManifestVouches`), `Told` (`SliceIsTold`), `OneSource` (`OneGeneration`),
`Implementation` (`WriteOnce`: the code implements OdsSlice when runs do not overlap and are not forced). None of the
safety properties is inductive, because none says what a run in progress knows. `IInv` adds it:
- `Staged`: whoever is between staging and publishing holds a real generation;
- `ObjectsStay` (object store): objects are never truncated and never vanish, so what a run
  has put, or found, is there when it writes the manifest, whoever else is at work. This is
  what makes overlapping runs harmless to completeness;
- `Alone`: with exclusive runs at most one process is under way;
- `CalmRun`: that process works on an unpublished slice until it publishes it; the files it is done
  with hold exactly what it staged; on the resume path the two files it opened are whole;
- `RowsFirst`: with a warehouse that keeps its writes, a run has its rows behind it when it turns to the
  version and the manifest, and no later run takes one away;
- `FilesFirst`: a run has put all files, on either store, before the version is called normalized, and none vanishes;
- `OkStays`: whoever has written the manifest, the row or the checkpoint finds the manifest readable from then on;
- `CopyOrder` (local store): the file that is copied last is there only beside the other two of the same run, and
  a run recomputes only while it is missing. A resume can therefore never publish a mixture of generations.

Each conjunct has a lemma with one step per action. For `Implementation`, a step that
changes `Content` must be the one that makes a manifest readable, because every step that
writes files belongs to a run that `CalmRun` places before publication.

**InferenceWorkerProofs.** `WorkerTypeCorrect`, `Exclusive` (`ClaimExclusive`), `Reported`
(`FinishedIsReported`), `Backed` (`RowsAreBacked`), `Transitions` (`StatusMoves`), for any number of workers, deaths
and restarts. The invariant: from the UPDATE that matched to the last insert a job has one holder
(`HolderAlone`), and the holder knows the status of its row (`HolderKnows`: QUEUED until the
commit, RUNNING until finalized, then final). The two need each other: a second UPDATE
matches only a row that is QUEUED and unlocked, which `HolderKnows` excludes for a job that is
held, and a status can only have been changed by the holder, which is `HolderAlone`.
`HolderWrote` carries the artifacts from the step that writes them to the one that finalizes, `RecorderKnows`
the count of failures from there to the rows of the samples.

**PerfPendingProofs.** `PerfTypeCorrect`, `NothingLost` (`NothingLostToDrift`), `Kept` (`KeptUntilStored`),
`Accounted` (`RecordsAccounted`), for any emitters, reingests and kills. Two facts that no property states
carry the first two: a record that no emitter has gone past has no file yet (`Ahead`), so that opening a file for
writing never truncates a whole one; and a reingest that moves a file, or its mirror, has the row behind it
(`Behind`), also when another reingest moves the same file. That exit status 0 means stored is an argument
about a listing that is worked off (`Listing`): what has left it and did not fail has its row, and the count of the
archived is at most the cardinality of what has left it and lies in the archive. That undisturbed
operation stores once needs to know which files may have a row already (`Undisturbed`): only the one that the only
reingest is about to move.

**ShardRunnerProofs.** `ShardTypeCorrect`, `GreenMerge` (`GreenMergeIsComplete`), `Account` (`StepsAccount`), for any plan,
number of threads and attempts. The invariant follows a result: from the thread that ends (`Published`: a task
that is good has left its layers in the lake) to the main thread that counts it (`CountedAt`: only ended
tasks are counted, each once, and no thread works on after the pool) and through the end of the loop into summary,
row and exit status (`ControlAt`, `ToldAt`: a summary covers its shard unless `--fail-fast` met a failure). A merge whose
total is that of the plan has read the summary of every shard with a dataset (`FullTotal`), and being green, each without a failure.
The sums of a summary are cardinalities of disjoint sets.

**EtlPipelineProofs.** `PipelineTypeCorrect`, `DwdIsVouchedFor` (`DwdVouches`), `GreenPublishes` (`GreenIsPublished`), `AdsCover`
(`AdsCoverScan`), for any scans and branches. As no two processes work on one dataset, the invariant is
one of a process and its own datasets (`ProcInv`), and one lemma (`OthersStay`) shows that a step leaves those
of all others alone. For the process itself: `LayersAt` is what manifests vouch for; `RunAt` what
a run knows of the dataset it is at, above all that without `--force` a scan that uploads does so under no manifest,
and that features which are uploaded stem from the present ods file, so that a branch which
repeats its features step over a published layer finds nothing to change; `ScanAt` that each dataset of a
scan is still queued, in the lake or counted as failed; `AdsAt` carries the sources of the quality slice
from the reads to its manifest; `BranchAt` what passed steps have left.

**ServicesProofs.** Four services that share no state.
- Exporter, `UpVouches` (`UpMeansFresh`), for any list of families. The property speaks of the time between two
  scrapes; `Queried` says it of the families that a good scrape has behind it while it is under way, and
  `CacheKnows` why the cached list of tables never hides a family that had to be asked for.
- Validation, `SkipsAreEarned` (`SkippedWasEarned`), for any directories, recordings, policies and failures. The
  registry alone does not say why a run is successful, so the invariant follows a verdict from the validation that
  finds it through the bundle carried between two transactions (`BundleEarned`) into the runs (`RunsEarned`).
- Shard planner, `PlannerTypeCorrect` (which includes that the cap is hard), `NoneMergeable` (`NoTwoMergeable`) and
  `Spread` (`OverflowIsSpread`), for any number of datasets. A shard is opened only for a dataset
  that fits nowhere, and totals only grow. That shard numbers stay within the
  number of datasets needs a count (`Opened`: each open shard was opened for a dataset of its own),
  which rests on the library's facts about cardinalities.
- Gate, `Clean` (`RejectedStaysOut`), for any datasets, files, episodes, threads, ratios, contract runs and exports, and
  whichever reads fail. What has been rejected since the export began is rejected still (`StillRejected`); the export
  knows of it, or could not read it, or has yet to read it where it stands (`RejectedIsKnown`); and the splits that it
  has behind it hold what it kept (`WrittenIsKept`).

**OperationsProofs.** `NoneLeftRunning` (`NothingLeftRunning`): unless a process was killed, each RUNNING task is in the
hands of a run that goes on (`RunningIsInHand`). It is proved for `QaSpec`, in which the builds and all other writers
change the warehouse in any way at any time; plans are made of what is found there. `HbCheck` (`CheckIsRight`), for
any tasks, steps, phases, intervals and limits: the last beat of a task that can write is in the log with its phase
(`LastIsLogged`), no line is from the future (`LogIsPast`), and every key has a latest beat
(`KeysHaveLatest`), so that the choice of the check has a value.

The warehouse: `WhTruth` (`DashboardTellsTruth`) and `PassesAreEarned` (`PassIsEarned`), both about the statements for
PostgreSQL, for any layers, windows, policies and processes, and builds that overlap, fail, are refused or die.
- The argument. Per table, `Right` says what it must hold of the sources on a day for the dashboards to come out right; it is
  less than equality with what a fresh build would compute, since a rebuilt table keeps rows whose keys no longer occur and
  a fact keeps the day it was inserted with. One lemma per table, joined in one about all of them, says that what a
  statement selects is right for the days of its window if what it reads is. Then all tables are right on the days of a window
  in `current` (`CurrentRight`); the tables that a build of all layers, alone and without a failed step, has behind it
  are right for its window (`BehindRight`); and a write still in hand, of this build or of one that
  covers other days, keeps that so (`StagedRight`). Neither holds without `AllRooted`: on every day, current or not, a row is
  of a row of the sources that has its day, so that a row selected under a key that is there already is of the same day
  and dataset and cannot spoil another day.
- The invariant `WhInv` was checked with TLC on the instance of `warehouse` before it was proved.
- Hypotheses on the sources, `SourcesSound` and `RowsStay`: the tables are finite; and records of runs are only added,
  contract runs keep their day and dataset, steps their day once they have one. Nothing in `src/` deletes or moves such
  rows. Which statuses the rows hold, whether a run is recorded often or once, and which minima a policy has, is not assumed.
- `PassesAreEarned` adds the checks: an SLA check reads the dashboards of the day and the contract runs and workflows beside
  them, and each part of a PASS goes back to one of them.

**JobProofs.** What runs in a pod, or is typed at a prompt.
- Lists. What FlattenSeq computes for every list of lists (`Flattening`) and the positions of its result
  (`FlatHas`) are by induction. The library's induction is a theorem about operators, which no prover here can
  instantiate, but its well-founded orders speak of sets: a non-empty set of numbers has a
  least one (`HasLeast`), which gives induction for a *set* of numbers (`Induction`). These are lemmas about lists, not
  results about the program; everything below that speaks of concatenated batches, of listings and of
  sequences of writes rests on them.
- InputCache, `Current` (`CacheIsCurrent`), for any objects and loaders, with a request and its landing apart. What is
  requested, in a `.part` file or in the cache is never newer than the source but where the key is gone (`SourceIsNewest`);
  two loaders at work make each other crowded (`Alone`); whatever has landed stays there (`LandedIsThere`), and for a
  loader that was not crowded it stays at least as new as it was listed, whoever comes later (`LandedIsCurrent`).
  Hypothesis `SizesDiffer`: two generations of an object differ in size, all that `download_dir` compares.
- RunInference, `FilesOfTheRun` (`FilesAreOfTheRun`), `SourceNamed` (`DistilledNamesSource`), for any runs and output URIs,
  with no limit on who writes where at the same time. A run that has had no company has all other
  users of its URI before it or after it (`Apart`). It has some of the files behind it at each of its steps, unless a later
  one has replaced them (`WrittenFiles`); as runs write in one order, the files of calm times are, in that order, of ever
  earlier runs (`Descending`), which is what makes the manifest a promise (`ManifestWhole`). `OpenIsTorn` says what a file
  is while it is being written. `EndedIsWhole` says it for rows and events, `BuildIsCalm` and
  `DistilledIsSettled` follow the two reads of a distillation that had no writer beside it.
- RunInference, `OwnAnswers` (`AnswersItsSample`), for any number of samples, size of batches, workers and retries,
  any order in which batches end, and any order and gaps in which a backend answers. The dictionary of a batch has
  under an id only answers to a sample of that id (`OwnDict`; `RepliesAreOwn` and `DictStaysOwn` keep it so), so that a call that
  has an answer for each sample puts them in the order of the batch (`CallAnswers`). While batches are in flight every
  slot is empty or holds the answers of its own batch (`PredictsInSlots`, `InOwnSlot`), and a slot that was filled up has
  no gap before it (`NoGap`); joined, they are aligned with the samples because all but the last batch are full.
- Metadata, `ProgramsAreStored` (`TablesHold` of any programs whose sessions interleave, each client with one program) and
  `WorkflowIsStored` (`TablesHold` of the workflow, where, as several programs of a client follow one another, it says that
  each key has one row). A session writes what differs from the row it found, so `SeenIsCurrent` says what may have
  become of that row since: a column is as it was found, or another client has stored its own value in it. From there
  `ClaimsHold` follows a stored value until a write to the same column.
- `argo sync`, `TablesTellTruth` (`SyncIsTrue`), for any clients, retries, outages and deaths. A client that still knows
  what it has fetched is the only one that writes (`FetchedAlone`); the writes that it has behind it stand
  (`SyncedSoFar`); and what was agreed stands until somebody else writes or the workflow moves (`AgreedStands`).
  The listing shows the agreed phases because a key has one row.

**Model-checked only.**
- Liveness under fairness and everything with ENABLED: `EventuallyPublished`, `LiveWorkersServe`, `StepsEnd`, `BuildsConverge`,
  `Drains`, `ScanReachesAll`, `ExporterCatchesUp`.
- `SimplifiedAgrees`: two programs compared on given sources, which TLC computes.
- The type invariants (`TypeOK`) are the other way round: proved where there is one, and not checked by a run besides.

## 6. Where the code and its documents disagree

Four runs state what a document or docstring says, and TLC finds the code doing otherwise.

- `normalize_resume`, `ResumeIsSafe`. `_try_resume` says that it publishes when the outputs are complete
  *and the checkpoint is satisfied* (`etl/normalize.py:416`). It never looks at what the checkpoint
  says of the upload, and opens two of the three files. On a local store, a crash while
  the last file, `video_meta.parquet`, is being copied leaves a truncated file that the next run publishes.
- `worker_crash`, `CrashKeepsQueued`. `docs/autodl_gpu_worker.md:15` says that an unfinished job of a crashed
  worker is still QUEUED and is taken over. The claim commits RUNNING, and nothing ever moves
  such a row back.
- `perf_blocked`, `NoRecordBlocks`. The docstring of `reingest_pending_perf_records` says that a single failed
  write does not block the records after it. The strict service turns every SQL error into
  the exception that ends the reingest, so one refused record blocks the rest, now and at every
  later attempt.
- `qc_shared_names`, `ProbesAreTheirFiles`. `_materialize_local` (`qc/profile.py:95`) names the local copy of an
  object by its basename, in one directory that all probing threads share and in which each probe removes
  its copy. The robomimic datasets hold one basename several times (`can/mg/demo_v15.hdf5`,
  `can/mh/demo_v15.hdf5`), so a probe reads the file of another one, or finds none.

Seen while modelling, without a run of their own. The models do what the code does.

*ETL.* The comment before the checkpoint is loaded says that `--force` clears manifest and checkpoint, which nothing
does (`etl/normalize.py:642`). The module comment of the shard runner says that `--fail-fast` returns at once, while the
pool is waited for (`sharding/shard_runner.py:3`). `download_dir` says it compares size and mtime and
compares size (`lake/store.py:304`, `:418`). `docs/v1_8_backfill_sla.md:18` and `quality_ops/backfill.py:407` build
`robot-dh etl run` commands without the `--dataset` and `--lake-root` that the command line requires (`cli.py:230`).

*Perf records.* A reingest that archives the last pending file removes the directory; an emitter that is
between `mkdir` and `write_text` then raises, and the step it measured fails.

*Inference.* Two runs may share an output URI, and their files mix; a backend that leaves a sample unanswered
ends the run with a KeyError, its row RUNNING. `docs/autodl_gpu_worker.md:48` says that the worker polls. The docstring of `_predict_with_retry` speaks of
retryable errors; every sample that is not OK is asked again. `infer retry` over a job without failures, and a
backend that is not available, raise past the code that would close the row, which stays CREATED or RUNNING.
`failed_samples.parquet` has no text and no references, so a retry asks other prompts than the run did
(`cli.py:738`, `inference/batch.py:130`). A model registered in the JSON file during an outage is not found once
PostgreSQL is back.

*Metadata.* A sync after `argo logs index` takes `archive_log_uri` away again; after `argo retry` a column that
has become empty keeps its old value, as None never overwrites; the end of a workflow is recorded by nothing
inside it (`README.dev.md:1595` and `README.md:207` read as if it were). The metrics column of a run loses keys when two sessions overlap.
`partition run-normalize` leaves its row RUNNING, and planning again resets what was OK to PLANNED.
Rows of `benchmark_cases` come without the row of their run. The soft mode of the service raises on a drifted schema.

*Metrics, SLA, backfill.* A dataset that fails in a shard is recorded with the job id, run id
and phase of the shard (`sharding/shard_runner.py:53`), which a retry of the shard uses again, and `etl_perf_runs` has a number
as its only key, so that a perf record replayed after a crash is stored twice as well. PostgreSQL refuses
the statement of `fact_etl_run` in every build over a window with two such rows ("cannot affect row a second time"), though
`build_fact_etl_run.sql:2` calls itself an idempotent UPSERT; the statements after it go on over the old rows. The facts date a row by its start and select it by its creation, so that a run that starts on
one day and is recorded on the next reaches the dashboard of its day only through a build over both days. A step that was
recorded before its workflow keeps a workflow type of NULL. `top_failed_rule` stays empty on PostgreSQL, as the daily quality
row has a family of NULL and the rule row another one. `sla.py` leaves out contract runs without a start, which the
facts date by their creation. A build upserts and never deletes, so a key that no longer occurs (a job that moved from the day it
started on to the day it ended on) keeps its row (`build_dws_inference_job_daily.sql:58`), where
`docs/inference_data_plane_schema.md:168` says that building a day again overwrites it idempotently. A workflow that has a succeeded and a failed step counts in both columns.
`backfill plan --phase normalize` raises a TypeError, where some of its keys have a family and others have none, which
`docs/v1_8_backfill_sla.md:103` does not say. The comment in
`sla_policies.yaml` says that either match includes a dataset; both are required. `sla check` without `--date`
checks yesterday and prints "today".

*Quality.* `--file-timeout-sec` and its neighbours set environment variables that nobody reads (`README.dev.md:20`). The export
takes a report that it cannot read for none, and where it can read no scores at all every episode has 100; with some
scores an episode without one is dropped. The WARN of `xy_cluster` for a missing silhouette is
practically out of reach.

*Progress.* `progress_logger.py:3` has the beats tell a watcher that a task is alive, but they come from the loop of the task and not
from a thread: a task inside one long transfer is called stale. So is, in time, one that has finished. The branch of
`stale.py` for PostgreSQL is never taken.

*Validation.* The first transaction sets `last_status` without the gate's verdict, and a crash before the second leaves
`last_run_id` pointing at nothing. The first exception ends a scan, without a summary. Run ids are made of
seconds, and a second run of that second replaces the first. Two directories may have one dataset id. A run that was good without
a gate lets a scan with a gate skip the dataset.

*Exporter.* `main.go:55` logs that the exporter runs with `up=0` until the database is reachable; if the first attempt
fails it never tries again. `main.go:8` says that a missing table sets `up` to 0; it stays 1.

## 7. What is not modelled, and why

Section 1.2 lists the components. Within the modelled ones:

- The contents of files, beyond which generation they stem from and whether they are whole:
  numerical features, press detection, scores, decoding of formats.
- Two local runs copying over one file at the same time (bytes interleave).
- S3 listings that are stale, partial object puts (the service has neither).
- The cache of `lake/store.py` inside NormalizeRun: `Load` reads the current raw data there, while InputCache
  shows what the download brings. Data replaced by data of equal size is not seen by the code, and excluded by a
  premise of `CacheIsCurrent`.
- `--dry-run` of the reingest and the copy of a perf record in a work directory, which no other
  process reads; the race between listing and `stat` of the pending directory.
- Heartbeats inside the models of the phases: the only reader is the check that Heartbeat models. Profiler,
  logs, runtime events: no decision reads them.
- The HTTP client of the OpenAI-compatible backend beyond whether an answer comes, with which status, and in
  which order.
- Of the 1246 lines of `warehouse/models.py`, types and indexes: the columns that decide, their keys and their unique constraints
  are in MetadataStore, WarehouseBuild and PerfPending.
- The DDL of the warehouse, `--dry-run` of a build, and the check for missing tables before it.
- Of WarehouseBuild, sums of bytes, seconds and costs, which no verdict reads; of QualityOps, the wording of reports.
- The loaders and adapters of raw formats (`data/`, `lake/hf_adapters.py`) beyond whether a recording can be loaded and
  the quantities the validators compare.
- The endpoints of the HTTP API that only read, and the commands of `cli.py` that only print.
- Isolation anomalies below READ COMMITTED: PostgreSQL's default is assumed, as the code does.

## 8. Plan

Done: OdsSlice, NormalizeRun, InferenceWorker, ShardPlanner, ShardRunner, PerfPending, EtlPipeline, RegistryScan,
Exporter, RunInference, MetadataStore, WorkflowMetadata, QualityGate, InputCache, Heartbeat, WarehouseBuild and
QualityOps, with proofs; ValidationRules and WarehouseSqlite, model-checked.

Proofs next:

1. ValidationRules: that the verdict of the report is monotone in those of the validators.
2. The refinement of a *JobLifecycle* by InferenceWorker and RunInference, once it is stated (below).
3. WarehouseBuild for runs whose records lie on two days: which weaker statement about the dashboards remains.

Models next: an abstract *JobLifecycle* (queued, running, final) that InferenceWorker and RunInference both implement, and a *Layer*
that generalises OdsSlice to dwd, implemented by EtlPipeline per dataset; readers of a slice under `--force`; a
workflow with fewer steps than shards; the mirror of pending files after the loss of a pod.

## 9. Running it

```
tlc -config normalize_s3.cfg MCNormalizeRun      # and likewise for each line of "runs" in PROJECT.json
tlapm NormalizeRunProofs.tla                     # and likewise for each module named *Proofs
```

`PROJECT.json` names for each run its module and configuration, for each definition the
lines of the source that it models, for each property a mutation of the code that breaks it, and
for each theorem the property that it establishes.
