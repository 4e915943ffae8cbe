---------------------------- MODULE NormalizeRun ----------------------------
(***************************************************************************)
(* normalize_dataset (etl/normalize.py): runs of the raw -> ods phase over *)
(* one slice of the lake.  A run is a pod or a command; it checks for a    *)
(* manifest (SKIPPED), tries to publish outputs that are already there     *)
(* (RESUMED), and otherwise recomputes and uploads the three files before  *)
(* it writes the manifest (OK).  The lake is either an S3 bucket, whose    *)
(* puts are atomic and whose directory uploads run in a thread pool, or a  *)
(* local directory, written file by file with shutil.copy2.                *)
(*                                                                         *)
(* A file's content is abstracted to the generation of the raw data it was *)
(* computed from, and to whether it is whole or a truncated copy.          *)
(***************************************************************************)
EXTENDS Naturals, FiniteSets

CONSTANTS
  Workers,      \* processes that may run the phase on this slice
  MaxGen,       \* bound: generations of the raw data (1: raw is immutable)
  MaxRuns,      \* bound: runs started over the slice
  MaxFaults,    \* bound: runs that crash or fail
  Atomic,       \* TRUE: S3LakeStore, FALSE: LocalLakeStore
  Exclusive,    \* TRUE: one run at a time (concurrencyPolicy: Forbid)
  ForceFlags,   \* values of --force the callers use
  ResumeFlags,  \* values of --resume / --no-resume the callers use
  PgLossy       \* TRUE: the soft warehouse may drop a write

\* Two runs copying over the same local file are not modelled: their bytes
\* would interleave.  Concurrent runs are modelled on the object store only.
ASSUME RunAssumption ==
  /\ MaxGen \in Nat \ {0}
  /\ MaxRuns \in Nat \ {0}
  /\ MaxFaults \in Nat
  /\ Atomic \in BOOLEAN /\ Exclusive \in BOOLEAN /\ PgLossy \in BOOLEAN
  /\ Atomic \/ Exclusive
  /\ ForceFlags \subseteq BOOLEAN
  /\ ResumeFlags \subseteq BOOLEAN

VARIABLES
  raw,       \* generation of the raw data the input uri points at
  files,     \* the three parquet files below the output uri
  manifest,  \* _manifest.json below the output uri
  ckpt,      \* _checkpoint.json below the output uri
  assets,    \* lake_assets rows of the files: generation of the checksum
  dsStatus,  \* dataset_versions.status
  jobs,      \* etl_jobs.status of each run
  nruns,     \* runs started
  faults,    \* runs crashed or failed
  pc,        \* where each process is
  run,       \* the job id and the flags of each process
  gen,       \* generation of the tables each process has staged
  todo       \* files each process has still to upload, or to register

lake == <<files, manifest, ckpt>>
warehouse == <<assets, dsStatus, jobs>>
local == <<run, gen, todo>>
vars == <<raw, lake, warehouse, nruns, faults, pc, local>>

Files == {"pose", "video_meta", "episode_meta"}
Gens == 1 .. MaxGen
Runs == 1 .. MaxRuns

File == [gen: 0 .. MaxGen, whole: BOOLEAN]
Missing == [gen |-> 0, whole |-> FALSE]
Manifest == [kind: {"none", "torn", "full", "resumed"}, gen: 0 .. MaxGen]
NoManifest == [kind |-> "none", gen |-> 0]
Ckpt == [status: {"none", "RUNNING", "OK"}, uploaded: BOOLEAN]
NoCkpt == [status |-> "none", uploaded |-> FALSE]

\* The steps of a run, in the order of the code.
ResumePc == {"try_resume", "resume_manifest", "resume_manifest_write",
             "resume_ckpt", "resume_job"}
FreshPc == {"fresh", "load", "upload", "copying", "assets",
            "version", "manifest", "manifest_write", "ckpt_ok", "job_ok",
            "exit"}
Pc == {"idle", "start_job"} \union ResumePc \union FreshPc

Run == [id: 0 .. MaxRuns, force: BOOLEAN, resume: BOOLEAN]
NoRun == [id |-> 0, force |-> FALSE, resume |-> FALSE]

TypeOK ==
  /\ raw \in Gens
  /\ files \in [Files -> File]
  /\ manifest \in Manifest
  /\ ckpt \in Ckpt
  /\ assets \in [Files -> 0 .. MaxGen]
  /\ dsStatus \in {"discovered", "normalized"}
  /\ jobs \in [Runs -> {"none", "RUNNING", "OK", "FAIL"}]
  /\ nruns \in 0 .. MaxRuns
  /\ faults \in Nat
  /\ pc \in [Workers -> Pc]
  /\ run \in [Workers -> Run]
  /\ gen \in [Workers -> 0 .. MaxGen]
  /\ todo \in [Workers -> SUBSET Files]
  /\ \A w \in Workers : pc[w] # "idle" => run[w].id \in Runs

Init ==
  /\ raw = 1
  /\ files = [f \in Files |-> Missing]
  /\ manifest = NoManifest
  /\ ckpt = NoCkpt
  /\ assets = [f \in Files |-> 0]
  /\ dsStatus = "discovered"
  /\ jobs = [r \in Runs |-> "none"]
  /\ nruns = 0
  /\ faults = 0
  /\ pc = [w \in Workers |-> "idle"]
  /\ run = [w \in Workers |-> NoRun]
  /\ gen = [w \in Workers |-> 0]
  /\ todo = [w \in Workers |-> {}]

-----------------------------------------------------------------------------
(* What the code asks of the lake.                                         *)

\* exists() answers, and read_manifest parses.
ManifestReadable == manifest.kind \in {"full", "resumed"}

\* A readable manifest ends a run that is not forced; one that cannot be
\* read is ignored.
SkipUnlessFirst(force) == ~force /\ manifest.kind = "resumed"      \* mutant
SkipOnAnyManifest(force) == ~force /\ manifest.kind # "none"        \* mutant
Skips(force) == ~force /\ ManifestReadable

\* _all_outputs_present: the three objects exist, whole or not.
TwoOutputsPresent ==                                                \* mutant
  files["pose"].gen # 0 /\ files["episode_meta"].gen # 0
AllOutputsPresent == \A f \in Files : files[f].gen # 0

\* _load_existing_metrics opens pose and episode_meta, and not video_meta.
MetricsReadable == files["pose"].whole /\ files["episode_meta"].whole

\* LocalLakeStore.upload_dir walks the sorted directory; the thread pool of
\* the object store finishes in any order.
LocalRank == [episode_meta |-> 1, pose |-> 2, video_meta |-> 3]
AnyUpload(left) == left                                             \* mutant
NextUploads(left) ==
  {f \in left : Atomic \/ \A g \in left : LocalRank[f] <= LocalRank[g]}

\* The rows are recorded in the order of EXPECTED_OUTPUT_FILES.
AssetRank == [pose |-> 1, video_meta |-> 2, episode_meta |-> 3]
NextAssets(left) == {f \in left : \A g \in left : AssetRank[f] <= AssetRank[g]}

\* A table computed from a generation of the raw data.
Computed(g) == [gen |-> g, whole |-> TRUE]

\* A manifest of the resume path vouches for no checksum.
ResumedSums == 0

\* A write of the soft WarehouseService: it lands or it is logged and lost.
Landed == IF PgLossy THEN BOOLEAN ELSE {TRUE}
SetJob(w, status) ==
  \E ok \in Landed :
    jobs' = IF ok THEN [jobs EXCEPT ![run[w].id] = status] ELSE jobs

Goto(w, l) == pc' = [pc EXCEPT ![w] = l]
Stop(w) == /\ Goto(w, "idle")
           /\ run' = [run EXCEPT ![w] = NoRun]
           /\ gen' = [gen EXCEPT ![w] = 0]
           /\ todo' = [todo EXCEPT ![w] = {}]

-----------------------------------------------------------------------------
(* Start: the version, the manifest check and the job row.                 *)

\* etl_run (etl/runner.py) sets the version back before it calls a phase, this one
\* or a later one; the commands that call normalize_dataset themselves do not.
Rediscover ==
  /\ Exclusive => \A w \in Workers : pc[w] = "idle"
  /\ dsStatus = "normalized"
  /\ dsStatus' = "discovered"
  /\ UNCHANGED <<raw, lake, assets, jobs, nruns, faults, pc, local>>

\* Entry of normalize_dataset: a readable manifest ends the run at once
\* (SKIPPED, no row written) unless --force; an unreadable one is ignored.
Check(w) ==
  /\ pc[w] = "idle"
  /\ nruns < MaxRuns
  /\ Exclusive => \A v \in Workers : pc[v] = "idle"
  /\ nruns' = nruns + 1
  /\ \E force \in ForceFlags, resume \in ResumeFlags :
       IF Skips(force)
       THEN UNCHANGED <<pc, run>>
       ELSE /\ run' = [run EXCEPT ![w] = [id |-> nruns + 1, force |-> force,
                                          resume |-> resume]]
            /\ Goto(w, "start_job")
  /\ UNCHANGED <<raw, lake, warehouse, faults, gen, todo>>

\* record_etl_job_start.
StartJob(w) ==
  /\ pc[w] = "start_job"
  /\ SetJob(w, "RUNNING")
  /\ Goto(w, IF run[w].resume /\ ~run[w].force THEN "try_resume" ELSE "fresh")
  /\ UNCHANGED <<raw, lake, assets, dsStatus, nruns, faults, local>>

-----------------------------------------------------------------------------
(* _try_resume: outputs already there are published without recomputation. *)

TryResume(w) ==
  /\ pc[w] = "try_resume"
  /\ Goto(w, IF AllOutputsPresent /\ MetricsReadable
             THEN "resume_manifest" ELSE "fresh")
  /\ UNCHANGED <<raw, lake, warehouse, nruns, faults, local>>

\* write_manifest.  A local write_text truncates the file before the text is
\* there; an S3 put replaces the object at once.  here, after: the labels of
\* the step that starts writing and of the one that follows the manifest.
WriteManifest(w, here, writing, after, m) ==
  /\ \/ /\ pc[w] = here /\ Atomic
        /\ manifest' = m
        /\ Goto(w, after)
     \/ /\ pc[w] = here /\ ~Atomic
        /\ manifest' = [kind |-> "torn", gen |-> 0]
        /\ Goto(w, writing)
     \/ /\ pc[w] = writing
        /\ manifest' = m
        /\ Goto(w, after)
  /\ UNCHANGED <<raw, files, ckpt, warehouse, nruns, faults, local>>

ResumeManifest(w) ==
  WriteManifest(w, "resume_manifest", "resume_manifest_write", "resume_ckpt",
                [kind |-> "resumed", gen |-> ResumedSums])

\* Every step is marked, whatever the loaded checkpoint said.
ResumeCkpt(w) ==
  /\ pc[w] = "resume_ckpt"
  /\ ckpt' = [status |-> "OK", uploaded |-> TRUE]
  /\ Goto(w, "resume_job")
  /\ UNCHANGED <<raw, files, manifest, warehouse, nruns, faults, local>>

ResumeJob(w) ==
  /\ pc[w] = "resume_job"
  /\ SetJob(w, "OK")
  /\ Stop(w)
  /\ UNCHANGED <<raw, lake, assets, dsStatus, nruns, faults>>

-----------------------------------------------------------------------------
(* The fresh run.                                                          *)

\* The new checkpoint replaces the old one; nothing else is cleared.
BeginFresh(w) ==
  /\ pc[w] = "fresh"
  /\ ckpt' = [status |-> "RUNNING", uploaded |-> FALSE]
  /\ Goto(w, "load")
  /\ UNCHANGED <<raw, files, manifest, warehouse, nruns, faults, local>>

\* Materialize the input, load the bundles, stage the three tables.
LoadMissing(w) ==                                                   \* mutant
  /\ pc[w] = "load"
  /\ gen' = [gen EXCEPT ![w] = raw]
  /\ todo' = [todo EXCEPT ![w] = {f \in Files : ~files[f].whole}]
  /\ ckpt' = [status |-> "RUNNING", uploaded |-> FALSE]
  /\ Goto(w, "upload")
  /\ UNCHANGED <<raw, files, manifest, warehouse, nruns, faults, run>>
Load(w) ==
  /\ pc[w] = "load"
  /\ gen' = [gen EXCEPT ![w] = raw]
  /\ todo' = [todo EXCEPT ![w] = Files]
  /\ ckpt' = [status |-> "RUNNING", uploaded |-> FALSE]
  /\ Goto(w, "upload")
  /\ UNCHANGED <<raw, files, manifest, warehouse, nruns, faults, run>>

\* upload_dir, one object put.
PutFile(w) ==
  /\ pc[w] = "upload" /\ Atomic
  /\ \E f \in NextUploads(todo[w]) :
       /\ files' = [files EXCEPT ![f] = Computed(gen[w])]
       /\ todo' = [todo EXCEPT ![w] = @ \ {f}]
  /\ UNCHANGED <<raw, manifest, ckpt, warehouse, nruns, faults, pc, run, gen>>

\* upload_dir, one copy2: the target is truncated and then filled.
BeginCopy(w) ==
  /\ pc[w] = "upload" /\ ~Atomic
  /\ \E f \in NextUploads(todo[w]) :
       files' = [files EXCEPT ![f] = [gen |-> gen[w], whole |-> FALSE]]
  /\ Goto(w, "copying")
  /\ UNCHANGED <<raw, manifest, ckpt, warehouse, nruns, faults, local>>

EndCopy(w) ==
  /\ pc[w] = "copying"
  /\ \E f \in NextUploads(todo[w]) :
       /\ files' = [files EXCEPT ![f] = Computed(gen[w])]
       /\ todo' = [todo EXCEPT ![w] = @ \ {f}]
  /\ Goto(w, "upload")
  /\ UNCHANGED <<raw, manifest, ckpt, warehouse, nruns, faults, run, gen>>

\* upload_dir returned: the checkpoint records the files as UPLOADED.
UploadDone(w) ==
  /\ pc[w] = "upload" /\ todo[w] = {}
  /\ ckpt' = [status |-> "RUNNING", uploaded |-> TRUE]
  /\ todo' = [todo EXCEPT ![w] = Files]
  /\ Goto(w, "assets")
  /\ UNCHANGED <<raw, files, manifest, warehouse, nruns, faults, run, gen>>

\* record_lake_asset, a row (an upsert by uri) and a commit per file.
RecordFirstAsset(w) ==                                              \* mutant
  /\ pc[w] = "assets"
  /\ \E f \in NextAssets(todo[w]), ok \in Landed :
       assets' = IF ok THEN [assets EXCEPT ![f] = gen[w]] ELSE assets
  /\ todo' = [todo EXCEPT ![w] = {}]
  /\ Goto(w, "version")
  /\ UNCHANGED <<raw, lake, dsStatus, jobs, nruns, faults, run, gen>>
RecordAsset(w) ==
  /\ pc[w] = "assets"
  /\ \E f \in NextAssets(todo[w]), ok \in Landed :
       /\ assets' = IF ok THEN [assets EXCEPT ![f] = gen[w]] ELSE assets
       /\ todo' = [todo EXCEPT ![w] = @ \ {f}]
       /\ Goto(w, IF todo[w] = {f} THEN "version" ELSE "assets")
  /\ UNCHANGED <<raw, lake, dsStatus, jobs, nruns, faults, run, gen>>

\* upsert_dataset_version(status="normalized").
RecordVersion(w) ==
  /\ pc[w] = "version"
  /\ \E ok \in Landed : dsStatus' = IF ok THEN "normalized" ELSE dsStatus
  /\ Goto(w, "manifest")
  /\ UNCHANGED <<raw, lake, assets, jobs, nruns, faults, local>>

FreshManifest(w) ==
  WriteManifest(w, "manifest", "manifest_write", "ckpt_ok",
                [kind |-> "full", gen |-> gen[w]])

FinishCkpt(w) ==
  /\ pc[w] = "ckpt_ok"
  /\ ckpt' = [status |-> "OK", uploaded |-> TRUE]
  /\ Goto(w, "job_ok")
  /\ UNCHANGED <<raw, files, manifest, warehouse, nruns, faults, local>>

FinishJob(w) ==
  /\ pc[w] = "job_ok"
  /\ SetJob(w, "OK")
  /\ Goto(w, "exit")
  /\ UNCHANGED <<raw, lake, assets, dsStatus, nruns, faults, local>>

\* The profiler and the heartbeat close, normalize_perf.json is written.
Exit(w) ==
  /\ pc[w] = "exit"
  /\ Stop(w)
  /\ UNCHANGED <<raw, lake, warehouse, nruns, faults>>

-----------------------------------------------------------------------------
(* Faults and the environment.                                             *)

\* An exception anywhere in the fresh run, its exit included: the row is
\* closed as FAIL, what has been uploaded stays.
Fail(w) ==
  /\ pc[w] \in FreshPc
  /\ faults < MaxFaults
  /\ faults' = faults + 1
  /\ SetJob(w, "FAIL")
  /\ Stop(w)
  /\ UNCHANGED <<raw, lake, assets, dsStatus, nruns>>

\* The pod is killed (deadline, eviction), or an exception leaves the resume
\* path, which no handler covers: nothing is written any more.
Crash(w) ==
  /\ pc[w] # "idle"
  /\ faults < MaxFaults
  /\ faults' = faults + 1
  /\ Stop(w)
  /\ UNCHANGED <<raw, lake, warehouse, nruns>>

\* Upstream replaces the raw data under the same uri.
RawChange ==
  /\ raw < MaxGen
  /\ raw' = raw + 1
  /\ UNCHANGED <<lake, warehouse, nruns, faults, pc, local>>

Resume(w) == TryResume(w) \/ ResumeManifest(w) \/ ResumeCkpt(w) \/ ResumeJob(w)
Upload(w) == PutFile(w) \/ BeginCopy(w) \/ EndCopy(w) \/ UploadDone(w)
Register(w) == RecordAsset(w) \/ RecordVersion(w)
Finish(w) == FreshManifest(w) \/ FinishCkpt(w) \/ FinishJob(w) \/ Exit(w)
Step(w) == \/ StartJob(w) \/ Resume(w) \/ BeginFresh(w) \/ Load(w)
           \/ Upload(w) \/ Register(w) \/ Finish(w)

Next == \/ \E w \in Workers : Check(w) \/ Step(w) \/ Fail(w) \/ Crash(w)
        \/ Rediscover \/ RawChange

Spec == Init /\ [][Next]_vars

\* A live process keeps running, and whoever ordered the slice (the Argo
\* retry, the next scan) orders it again while runs are left.
FairSpec == /\ Spec
            /\ \A w \in Workers : WF_vars(Step(w))
            /\ WF_vars(\E w \in Workers : Check(w))

-----------------------------------------------------------------------------
(* Properties.                                                             *)

\* Beside a manifest that can be read lie three whole files, whoever wrote
\* them and however many runs crashed (objects are put atomically).
PublishedComplete ==
  Atomic /\ ManifestReadable => \A f \in Files : files[f].gen # 0 /\ files[f].whole

\* Whatever the store, a published slice has its pose and episode tables
\* whole: the resume path opened them before it vouched for them.
PublishedReadable ==
  Exclusive /\ TRUE \notin ForceFlags /\ ManifestReadable =>
    files["pose"].whole /\ files["episode_meta"].whole

\* The checksums of a full manifest are those of the files beside it, though
\* the raw data has moved on and earlier runs died half way.
ManifestVouches ==
  Exclusive /\ TRUE \notin ForceFlags /\ manifest.kind = "full" =>
    \A f \in Files : files[f] = Computed(manifest.gen)

\* A full manifest is written after the rows: with a warehouse that keeps
\* its writes, each file beside it is registered.
FullIsRegistered ==
  ~PgLossy /\ manifest.kind = "full" => \A f \in Files : assets[f] # 0

\* A version that is called normalized has its three files and, with such a
\* warehouse, their rows, though the run that said so may have died before its
\* manifest and others have begun to overwrite the files.
NormalizedIsThere ==
  dsStatus = "normalized" =>
    \A f \in Files : files[f].gen # 0 /\ (PgLossy \/ assets[f] # 0)

\* Neither a row nor a checkpoint that says OK is ahead of the lake: a manifest
\* that can be read is there, whoever has crashed or rewritten meanwhile.
OkIsPublished ==
  (Atomic \/ TRUE \notin ForceFlags) =>
    /\ \A r \in Runs : jobs[r] = "OK" => ManifestReadable
    /\ ckpt.status = "OK" => ManifestReadable

\* What PostgreSQL and the checkpoint say of the slice is so in the lake, and what the
\* manifest vouches for is known to PostgreSQL (the order of the writes in
\* normalize_dataset).
SliceIsTold == FullIsRegistered /\ NormalizedIsThere /\ OkIsPublished

\* Runs without --force, one at a time, implement the write-once slice.
Content == IF ManifestReadable THEN files ELSE [f \in Files |-> Missing]
Slice == INSTANCE OdsSlice WITH
           published <- Content,
           Contents <- [Files -> [gen: Gens, whole: BOOLEAN]],
           Unpublished <- [f \in Files |-> Missing]
WriteOnce == Slice!Spec

\* As long as fewer runs are lost than are ordered, the slice is published.
EventuallyPublished == <>[]ManifestReadable

\* On the local store the slice is computed from one generation of the raw
\* data, though runs died half way while the data changed: the files are
\* copied in one order, so that the last of them is there only when a run has
\* copied all of them, and from then on no run recomputes.
\* (The object store finishes in any order and has no such property.)
OneGeneration ==
  ~Atomic /\ ForceFlags = {FALSE} /\ ResumeFlags = {TRUE} /\ ManifestReadable =>
    \A f, g \in Files : files[f].gen = files[g].gen

\* The docstring of _try_resume: it publishes when "the outputs are complete
\* and the checkpoint is satisfied".  At the least, one of the two holds:
\* the checkpoint says uploaded, or the files are whole anyway.
ResumeIsSafe ==
  \A w \in Workers : pc[w] = "resume_manifest" =>
    ckpt.uploaded \/ \A f \in Files : files[f].whole
=============================================================================
