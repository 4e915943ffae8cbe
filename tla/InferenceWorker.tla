-------------------------- MODULE InferenceWorker --------------------------
(***************************************************************************)
(* The pull-based GPU worker (workers/autodl_inference_worker/worker.py):  *)
(* several workers claim QUEUED rows of inference_jobs with a conditional  *)
(* UPDATE, run the model over the samples, write predictions.parquet,      *)
(* failed_samples.parquet and inference_report.json below the job's output *)
(* uri, finalize the row and then insert the rows of the samples.          *)
(*                                                                         *)
(* A claim is a transaction: its SELECT, its UPDATE (which takes the row's *)
(* lock) and its COMMIT are steps of their own, and a worker that dies in  *)
(* between is rolled back by the database.  Objects are put atomically     *)
(* (the output uri of a worker is an S3 uri).  The predictions of a job    *)
(* are abstracted to how many of its samples failed.                       *)
(***************************************************************************)
EXTENDS Naturals, FiniteSets

CONSTANTS
  Jobs,        \* ids of inference_jobs rows that match the workers' model
  Rank,        \* position in ORDER BY priority DESC, created_at ASC
  Uris,        \* output uris
  Output,      \* the output uri of each job
  Samples,     \* samples of a job
  Workers,     \* worker processes
  MaxJobs,     \* --max-jobs
  MaxStarts,   \* bound: worker processes started (0: no bound)
  MaxFaults,   \* bound: workers that die or raise
  PgLossy,     \* TRUE: the best-effort row inserts may fail
  NoJob        \* not a job

ASSUME WorkerAssumption ==
  /\ Rank \in [Jobs -> Nat]
  /\ Output \in [Jobs -> Uris]
  /\ Samples \in Nat \ {0}          \* an empty input raises InferenceInputError
  /\ MaxJobs \in Nat \ {0}
  /\ MaxStarts \in Nat
  /\ MaxFaults \in Nat
  /\ PgLossy \in BOOLEAN
  /\ NoJob \notin Jobs

VARIABLES
  status,       \* inference_jobs.status as committed ("none": no row yet)
  rowFailed,    \* inference_jobs.failed_samples
  outputRows,   \* inference_outputs holds the rows of the job
  failureRows,  \* inference_failures holds the rows of the job
  predictions,  \* predictions.parquet at each output uri: whose, how many failed
  failures,     \* failed_samples.parquet at each output uri, likewise
  report,       \* inference_report.json at each output uri: whose, which status
  pc,           \* where each worker is
  job,          \* the job each worker has selected or claimed
  failed,       \* failed samples of the run of each worker
  processed,    \* jobs the worker has finished since it started
  starts,       \* worker processes started
  faults        \* workers that died or raised

rows == <<status, rowFailed, outputRows, failureRows>>
lake == <<predictions, failures, report>>
local == <<job, failed, processed>>
vars == <<rows, lake, pc, local, starts, faults>>

JobStatus == {"none", "QUEUED", "RUNNING", "SUCCEEDED", "FAILED"}
Final == {"SUCCEEDED", "FAILED"}
Artifact == [job: Jobs \union {NoJob}, failed: 0 .. Samples]
NoArtifact == [job |-> NoJob, failed |-> 0]
Report == [job: Jobs \union {NoJob}, status: {"none"} \union Final]
NoReport == [job |-> NoJob, status |-> "none"]

\* The steps of run_claimed_job after the claim, in the order of the code.
Writing == {"predictions", "failures", "report", "finalize"}
Recording == {"output_rows", "failure_rows"}
Claimed == {"predict"} \union Writing \union Recording
Pc == {"off", "loop", "update", "commit"} \union Claimed

TypeOK ==
  /\ status \in [Jobs -> JobStatus]
  /\ rowFailed \in [Jobs -> 0 .. Samples]
  /\ outputRows \in [Jobs -> BOOLEAN]
  /\ failureRows \in [Jobs -> BOOLEAN]
  /\ predictions \in [Uris -> Artifact]
  /\ failures \in [Uris -> Artifact]
  /\ report \in [Uris -> Report]
  /\ pc \in [Workers -> Pc]
  /\ job \in [Workers -> Jobs \union {NoJob}]
  /\ failed \in [Workers -> 0 .. Samples]
  /\ processed \in [Workers -> 0 .. MaxJobs]
  /\ starts \in Nat
  /\ faults \in Nat
  /\ \A w \in Workers : pc[w] \notin {"off", "loop"} =>
       job[w] \in Jobs /\ processed[w] < MaxJobs

Init ==
  /\ status = [j \in Jobs |-> "none"]
  /\ rowFailed = [j \in Jobs |-> 0]
  /\ outputRows = [j \in Jobs |-> FALSE]
  /\ failureRows = [j \in Jobs |-> FALSE]
  /\ predictions = [u \in Uris |-> NoArtifact]
  /\ failures = [u \in Uris |-> NoArtifact]
  /\ report = [u \in Uris |-> NoReport]
  /\ pc = [w \in Workers |-> "off"]
  /\ job = [w \in Workers |-> NoJob]
  /\ failed = [w \in Workers |-> 0]
  /\ processed = [w \in Workers |-> 0]
  /\ starts = 0
  /\ faults = 0

-----------------------------------------------------------------------------
(* The database and the model endpoint.                                    *)

\* An uncommitted UPDATE holds the lock of the row.
Locked(j) == \E w \in Workers : pc[w] = "commit" /\ job[w] = j

\* The first row of the SELECT of claim_next_job.  A row locked by another
\* transaction is still QUEUED for the reader.
Candidates ==
  LET queued == {j \in Jobs : status[j] = "QUEUED"}
  IN  {j \in queued : \A k \in queued : Rank[j] <= Rank[k]}

\* JOB_SUCCEEDED if error_rate <= 0.5 else JOB_FAILED.
Outcome(n) == IF 2 * n <= Samples THEN "SUCCEEDED" ELSE "FAILED"

Landed == IF PgLossy THEN BOOLEAN ELSE {TRUE}

Goto(w, l) == pc' = [pc EXCEPT ![w] = l]
Stop(w) == /\ Goto(w, "off")
           /\ job' = [job EXCEPT ![w] = NoJob]
           /\ failed' = [failed EXCEPT ![w] = 0]
           /\ processed' = [processed EXCEPT ![w] = 0]

\* POST /inference/jobs.  Rows appear in any order: created_at is read before
\* the insert commits.
Submit(j) ==
  /\ status[j] = "none"
  /\ status' = [status EXCEPT ![j] = "QUEUED"]
  /\ UNCHANGED <<rowFailed, outputRows, failureRows, lake, pc, local,
                 starts, faults>>

-----------------------------------------------------------------------------
(* The main loop and the claim.                                            *)

\* Somebody starts a worker process (run_worker.sh).
Start(w) ==
  /\ pc[w] = "off"
  /\ MaxStarts = 0 \/ starts < MaxStarts
  /\ starts' = IF MaxStarts = 0 THEN 0 ELSE starts + 1
  /\ Goto(w, "loop")
  /\ UNCHANGED <<rows, lake, local, faults>>

\* max_jobs reached, or nothing queued: run_worker returns.  It never polls.
LoopExitEarly(w) ==                                                 \* mutant
  /\ pc[w] = "loop"
  /\ processed[w] + 1 >= MaxJobs \/ Candidates = {}
  /\ Stop(w)
  /\ UNCHANGED <<rows, lake, starts, faults>>
LoopExit(w) ==
  /\ pc[w] = "loop"
  /\ processed[w] = MaxJobs \/ Candidates = {}
  /\ Stop(w)
  /\ UNCHANGED <<rows, lake, starts, faults>>

\* The SELECT of the claim.
Select(w) ==
  /\ pc[w] = "loop" /\ processed[w] < MaxJobs
  /\ \E j \in Candidates : job' = [job EXCEPT ![w] = j]
  /\ Goto(w, "update")
  /\ UNCHANGED <<rows, lake, failed, processed, starts, faults>>

\* UPDATE ... WHERE job_id = ? AND status = 'QUEUED'.  It waits for the lock,
\* and then sees what the other transaction left.  rowcount # 1: the claim
\* returns None and run_worker leaves its loop, though others may be queued.
UnguardedUpdate(w) ==                                               \* mutant
  /\ pc[w] = "update" /\ ~Locked(job[w])
  /\ Goto(w, "commit")
  /\ UNCHANGED <<rows, lake, local, starts, faults>>
Update(w) ==
  /\ pc[w] = "update" /\ ~Locked(job[w])
  /\ IF status[job[w]] = "QUEUED"
     THEN /\ Goto(w, "commit")
          /\ UNCHANGED local
     ELSE Stop(w)
  /\ UNCHANGED <<rows, lake, starts, faults>>

Commit(w) ==
  /\ pc[w] = "commit"
  /\ status' = [status EXCEPT ![job[w]] = "RUNNING"]
  /\ Goto(w, "predict")
  /\ UNCHANGED <<rowFailed, outputRows, failureRows, lake, local,
                 starts, faults>>

-----------------------------------------------------------------------------
(* run_claimed_job.                                                        *)

\* Load the samples and predict them batch by batch.
Predict(w) ==
  /\ pc[w] = "predict"
  /\ \E n \in 0 .. Samples : failed' = [failed EXCEPT ![w] = n]
  /\ Goto(w, "predictions")
  /\ UNCHANGED <<rows, lake, job, processed, starts, faults>>

WritePredictions(w) ==
  /\ pc[w] = "predictions"
  /\ predictions' = [predictions EXCEPT
       ![Output[job[w]]] = [job |-> job[w], failed |-> failed[w]]]
  /\ Goto(w, "failures")
  /\ UNCHANGED <<rows, failures, report, local, starts, faults>>

FailuresThenFinalize(w) ==                                          \* mutant
  /\ pc[w] = "failures"
  /\ failures' = [failures EXCEPT
       ![Output[job[w]]] = [job |-> job[w], failed |-> failed[w]]]
  /\ Goto(w, "finalize")
  /\ UNCHANGED <<rows, predictions, report, local, starts, faults>>
WriteFailures(w) ==
  /\ pc[w] = "failures"
  /\ failures' = [failures EXCEPT
       ![Output[job[w]]] = [job |-> job[w], failed |-> failed[w]]]
  /\ Goto(w, "report")
  /\ UNCHANGED <<rows, predictions, report, local, starts, faults>>

WriteReport(w) ==
  /\ pc[w] = "report"
  /\ report' = [report EXCEPT
       ![Output[job[w]]] = [job |-> job[w], status |-> Outcome(failed[w])]]
  /\ Goto(w, "finalize")
  /\ UNCHANGED <<rows, predictions, failures, local, starts, faults>>

\* _finalize_job: an UPDATE by job_id that does not look at the status.
FinalizeSucceeded(w) ==                                             \* mutant
  /\ pc[w] = "finalize"
  /\ status' = IF Outcome(failed[w]) = "SUCCEEDED"
               THEN [status EXCEPT ![job[w]] = "SUCCEEDED"] ELSE status
  /\ rowFailed' = [rowFailed EXCEPT ![job[w]] = failed[w]]
  /\ Goto(w, "output_rows")
  /\ UNCHANGED <<outputRows, failureRows, lake, local, starts, faults>>
Finalize(w) ==
  /\ pc[w] = "finalize"
  /\ status' = [status EXCEPT ![job[w]] = Outcome(failed[w])]
  /\ rowFailed' = [rowFailed EXCEPT ![job[w]] = failed[w]]
  /\ Goto(w, "output_rows")
  /\ UNCHANGED <<outputRows, failureRows, lake, local, starts, faults>>

\* write_outputs_pg: one transaction, best effort.
RecordOutputs(w) ==
  /\ pc[w] = "output_rows"
  /\ \E ok \in Landed :
       outputRows' = IF ok THEN [outputRows EXCEPT ![job[w]] = TRUE]
                     ELSE outputRows
  /\ Goto(w, "failure_rows")
  /\ UNCHANGED <<status, rowFailed, failureRows, lake, local, starts, faults>>

\* write_failures_pg returns at once without records; then the summary is
\* printed and the loop goes on.
RecordFailures(w) ==
  /\ pc[w] = "failure_rows"
  /\ \E ok \in Landed :
       failureRows' = IF ok /\ failed[w] > 0
                      THEN [failureRows EXCEPT ![job[w]] = TRUE]
                      ELSE failureRows
  /\ processed' = [processed EXCEPT ![w] = @ + 1]
  /\ job' = [job EXCEPT ![w] = NoJob]
  /\ failed' = [failed EXCEPT ![w] = 0]
  /\ Goto(w, "loop")
  /\ UNCHANGED <<status, rowFailed, outputRows, lake, starts, faults>>

\* The instance is shut down, or an exception leaves run_claimed_job (no
\* handler): an open transaction is rolled back, a committed claim stays.
Die(w) ==
  /\ pc[w] # "off"
  /\ faults < MaxFaults
  /\ faults' = faults + 1
  /\ Stop(w)
  /\ UNCHANGED <<rows, lake, starts>>

Claim(w) == LoopExit(w) \/ Select(w) \/ Update(w) \/ Commit(w)
Write(w) == WritePredictions(w) \/ WriteFailures(w) \/ WriteReport(w)
Record(w) == Finalize(w) \/ RecordOutputs(w) \/ RecordFailures(w)
Step(w) == Claim(w) \/ Predict(w) \/ Write(w) \/ Record(w)

Next == \/ \E j \in Jobs : Submit(j)
        \/ \E w \in Workers : Start(w) \/ Step(w) \/ Die(w)

Spec == Init /\ [][Next]_vars

\* A live worker takes its next step.  Nothing starts a worker again.
FairSpec == Spec /\ \A w \in Workers : WF_vars(Step(w))

-----------------------------------------------------------------------------
(* Properties.                                                             *)

\* "rowcount == 1 means it is ours": no two workers ever run the same job.
ClaimExclusive ==
  \A v, w \in Workers :
    pc[v] \in Claimed /\ pc[w] \in Claimed /\ job[v] = job[w] => v = w

\* The statuses move along VALID_TRANSITIONS of ai_tasks/state.py, which no
\* code enforces: a finished job is never claimed or finalized again.
CanTransition(src, dst) ==
  \/ src = "none" /\ dst = "QUEUED"
  \/ src = "QUEUED" /\ dst = "RUNNING"
  \/ src = "RUNNING" /\ dst \in Final
StatusMoves ==
  [][\A j \in Jobs : status'[j] = status[j] \/ CanTransition(status[j], status'[j])]_vars

\* A running row is being run: by exactly the worker that claimed it, unless
\* workers died.
RunningIsOwned ==
  faults = 0 => \A j \in Jobs : status[j] = "RUNNING" =>
    \E w \in Workers : job[w] = j /\ pc[w] \in {"predict"} \union Writing

\* What a finished row says is what lies below its output uri, unless another
\* job was given the same uri: the predictions, the failed samples, and a
\* report with the same verdict, which is FAILED for more than half of the
\* samples.
Private(j) == \A k \in Jobs : Output[k] = Output[j] => k = j
FinishedIsReported ==
  \A j \in Jobs : status[j] \in Final /\ Private(j) =>
    LET u == Output[j] IN
    /\ predictions[u] = [job |-> j, failed |-> rowFailed[j]]
    /\ failures[u] = [job |-> j, failed |-> rowFailed[j]]
    /\ report[u] = [job |-> j, status |-> status[j]]
    /\ (status[j] = "FAILED") <=> (2 * rowFailed[j] > Samples)

\* The row is finalized before the rows of its samples are inserted: a reader
\* may see a finished job without them, but only while its worker is at it,
\* or after a fault.
FinishedIsRecorded ==
  ~PgLossy /\ faults = 0 =>
    \A j \in Jobs : status[j] \in Final =>
      \/ outputRows[j] /\ (rowFailed[j] > 0 => failureRows[j])
      \/ \E w \in Workers : job[w] = j /\ pc[w] \in Recording

\* The rows of a job are backed while nothing fails: RUNNING by a worker, finished by the
\* rows of its samples (claim_next_job, _finalize_job, write_outputs_pg).
RowsAreBacked == RunningIsOwned /\ FinishedIsRecorded

\* A job that is queued while some worker is about to look for one, or works on
\* another, gets claimed, unless a worker dies: one that loses a race leaves its
\* loop with this job still queued, but then the winner comes back for it.  (One
\* that has selected and not yet updated may lose to a winner that is gone.)
\* --max-jobs, which bounds a process, must not end the last one before.
Serving(w) == pc[w] \in {"loop", "commit"} \union Claimed
NoJobIsLeft ==
  MaxJobs >= Cardinality(Jobs) =>
    \A j \in Jobs : status[j] = "QUEUED" /\ (\E w \in Workers : Serving(w))
                     ~> status[j] # "QUEUED" \/ faults > 0

\* A claimed job is finished, unless its worker died.
Orphan(j) == /\ faults > 0
             /\ status[j] = "RUNNING"
             /\ \A w \in Workers : pc[w] \in Claimed => job[w] # j
EventuallyFinished ==
  \A j \in Jobs : status[j] = "RUNNING" ~> (status[j] \in Final \/ Orphan(j))

\* What live workers owe the queue (run_worker, claim_next_job, run_claimed_job).
LiveWorkersServe == NoJobIsLeft /\ EventuallyFinished

\* docs/autodl_gpu_worker.md: "an unfinished job of a crashed worker is still
\* QUEUED and is taken over by a new worker", so that a RUNNING row always has
\* a worker.
CrashKeepsQueued ==
  \A j \in Jobs : status[j] = "RUNNING" => \E w \in Workers : job[w] = j
=============================================================================
