---------------------------- MODULE RunInference ----------------------------
(***************************************************************************)
(* Batch inference on the command line: `infer run`, `infer retry` and     *)
(* `distill build`, with the model registry in front of them.              *)
(*                                                                         *)
(* A run looks its model up, reads its samples, calls the backend batch by *)
(* batch (several at once), writes four files below its output uri and     *)
(* then its rows in PostgreSQL, each write best effort.  A retry is a run  *)
(* whose input is the failed_samples.parquet of an earlier one.  A builder *)
(* of distillation data reads the predictions and then the report that lie *)
(* below an output uri.  Nothing keeps two runs from the same output uri,  *)
(* or a builder from one that is being written.  Nothing survives a        *)
(* process that dies but its files, its rows and its events.               *)
(*                                                                         *)
(* A run is a number; a file is the run that wrote it, negative while the  *)
(* file is half written, 0 when there is none.  The text a model is asked  *)
(* about is a value; "described" stands for the prompt made of the ids.    *)
(***************************************************************************)
EXTENDS Integers, Sequences, FiniteSets, FiniteSetsExt, SequencesExt

CONSTANTS
  MaxRuns,      \* bound: runs ever started
  Outputs,      \* output uris
  Input,        \* the ML-ready directory: rows of each parquet file
  Splits,       \* --split of the runs
  Limit,        \* --limit (0: none)
  BatchSize,    \* --batch-size
  MaxWorkers,   \* --max-workers
  Retry,        \* --retry
  Answers,      \* what the endpoint may answer to one sample
  Atomic,       \* TRUE: the output store puts whole objects (S3)
  MaxOutages,   \* bound: times the database goes away or comes back
  MaxCuts       \* bound: processes that die

ASSUME InferenceAssumption ==
  /\ MaxRuns \in Nat /\ BatchSize \in Nat \ {0} /\ MaxWorkers \in Nat \ {0}
  /\ Retry \in Nat /\ Limit \in Nat /\ MaxOutages \in Nat /\ MaxCuts \in Nat
  /\ \A f \in DOMAIN Input : Input[f] \in Seq(ToSet(Input[f]))
  /\ "OK" \in Answers
  /\ Atomic \in BOOLEAN
  /\ "none" \notin Outputs

VARIABLES
  iPc,        \* the step each run is at
  iOut,       \* its output uri
  iFrom,      \* the file it reads: a split of Input, or the output uri of a retry
  iFast,      \* --fail-fast
  iEngine,    \* whether the run found the database when it started
  iSamples,   \* its samples, in order
  iTries,     \* calls made for each batch
  iBusy,      \* by_id: latest answers of the batches under way, by sample id
  iResults,   \* answers of the finished batches, in the slot of the batch
  iPreds,     \* the predictions of the run, zipped with its samples
  iOpen,      \* whether the run has its next file open
  shared,     \* history: runs that were live while another one wrote to their output uri
  lake,       \* the files of each output uri
  jobRow,     \* inference_jobs.status
  jobEvent,   \* last event of the run in the local log
  deadLetters,\* runs with a row in dead_letter_tasks
  dbUp,       \* the database answers
  registered, \* where the model is registered: "db", "json"
  build,      \* the distillation build under way
  distilled,  \* the last distillation data: whose predictions, whose report
  outages, cuts

runVars == <<iPc, iOut, iFrom, iFast, iEngine, iSamples, iTries, iBusy, iResults, iPreds, iOpen,
             shared>>
dbVars == <<jobRow, jobEvent, deadLetters>>
distillVars == <<build, distilled>>
infVars == <<runVars, lake, dbVars, dbUp, registered, distillVars, outages, cuts>>

Runs == 1 .. MaxRuns
NoUri == "none"
Kinds == {"predictions", "failed", "report", "manifest"}
Live(r) == iPc[r] \notin {"idle", "done", "error", "cut"}
Writers(d) == {r \in Runs : Live(r) /\ iOut[r] = d}

-----------------------------------------------------------------------------
(* The registry: the database, or a JSON file when it does not answer.     *)

Register ==
  /\ registered' = registered \cup {IF dbUp THEN "db" ELSE "json"}
  /\ UNCHANGED <<runVars, lake, dbVars, dbUp, distillVars, outages, cuts>>

Found == (IF dbUp THEN "db" ELSE "json") \in registered

-----------------------------------------------------------------------------
(* Samples.                                                                *)

SplitFiles(split) ==
  IF split \in {"train", "val", "test"} THEN <<split>> ELSE <<"train", "val", "test">>

\* The splits that exist, else the first feature file, else every parquet file.
ResolveFiles(files, split) ==
  LET present(names) == {k \in DOMAIN names : names[k] \in DOMAIN files}
      features == <<"episode_feature", "episode_features", "features">>
  IN  IF present(SplitFiles(split)) # {} THEN SplitFiles(split)
      ELSE IF present(features) # {} THEN <<features[Min(present(features))]>>
      ELSE <<"failed_samples", "predictions", "test", "train", "val">>

\* A name without a file adds no rows.
RowsIn(files, name) == IF name \in DOMAIN files THEN files[name] ELSE <<>>

\* A row keeps the id it has; another is numbered by its place in the input.
ToSample(row, i) ==
  [id |-> IF row.sid # <<>> THEN row.sid ELSE <<row.episode, i>>,
   episode |-> row.episode, text |-> row.text]

BuildSamples(files, split) ==
  LET names == ResolveFiles(files, split)
      rows == FlattenSeq([k \in DOMAIN names |-> RowsIn(files, names[k])])
      n == IF Limit > 0 THEN Min({Limit, Len(rows)}) ELSE Len(rows)
  IN  [i \in 1 .. n |-> ToSample(rows[i], i)]

\* failed_samples.parquet has no column for the text, the references or the quality.
FailedRow(s) == [sid |-> s.id, episode |-> s.episode, text |-> ""]
FailedRows(r) ==
  FlattenSeq([i \in DOMAIN iSamples[r] |->
                IF iPreds[r][i].status = "OK" THEN <<>> ELSE <<FailedRow(iSamples[r][i])>>])

InputFiles(from) ==
  IF from \notin Outputs THEN Input
  ELSE IF lake[from].failed > 0 THEN [failed_samples |-> FailedRows(lake[from].failed)]
  ELSE <<>>

-----------------------------------------------------------------------------
(* A run up to its predictions.                                            *)

\* Runs are numbered as they start.  Whoever writes to d now, or reads from it, is no
\* longer alone.
InfStart(r, from, d, fast) ==
  /\ iPc[r] = "idle" /\ \A q \in 1 .. r - 1 : iPc[q] # "idle"
  /\ IF Found
     THEN /\ iPc' = [iPc EXCEPT ![r] = "build"]
          /\ iOut' = [iOut EXCEPT ![r] = d]
          /\ iFrom' = [iFrom EXCEPT ![r] = from]
          /\ iFast' = [iFast EXCEPT ![r] = fast]
          /\ iEngine' = [iEngine EXCEPT ![r] = dbUp]
          /\ jobRow' = [jobRow EXCEPT ![r] = IF dbUp THEN "CREATED" ELSE @]
          /\ jobEvent' = [jobEvent EXCEPT ![r] = "CREATED"]
          /\ shared' = shared \cup IF Writers(d) = {} THEN {} ELSE Writers(d) \cup {r}
          /\ build' = [build EXCEPT !.alone = @ /\ build.dir # d]
     ELSE /\ iPc' = [iPc EXCEPT ![r] = "error"]
          /\ UNCHANGED <<iOut, iFrom, iFast, iEngine, jobRow, jobEvent, shared, build>>
  /\ UNCHANGED <<iSamples, iTries, iBusy, iResults, iPreds, iOpen, lake, deadLetters, dbUp,
                 registered, distilled, outages, cuts>>

RowIs(r, status) == jobRow' = [jobRow EXCEPT ![r] = IF iEngine[r] /\ dbUp THEN status ELSE @]

Batches(n) == (n + BatchSize - 1) \div BatchSize
BatchOf(r, b) == SubSeq(iSamples[r], (b - 1) * BatchSize + 1,
                        Min({b * BatchSize, Len(iSamples[r])}))

\* No samples: InferenceInputError, and the row stays as it is.
InfBuild(r) ==
  /\ iPc[r] = "build"
  /\ LET samples == BuildSamples(InputFiles(iFrom[r]), iFrom[r])
         none == [b \in 1 .. Batches(Len(samples)) |-> <<>>]
     IN  IF samples = <<>>
         THEN /\ iPc' = [iPc EXCEPT ![r] = "error"]
              /\ UNCHANGED <<iSamples, iTries, iBusy, iResults, jobRow, jobEvent>>
         ELSE /\ iPc' = [iPc EXCEPT ![r] = "predict"]
              /\ iSamples' = [iSamples EXCEPT ![r] = samples]
              /\ iTries' = [iTries EXCEPT ![r] = [b \in DOMAIN none |-> 0]]
              /\ iBusy' = [iBusy EXCEPT ![r] = none]
              /\ iResults' = [iResults EXCEPT ![r] = none]
              /\ RowIs(r, "RUNNING")
              /\ jobEvent' = [jobEvent EXCEPT ![r] = "STARTED"]
  /\ UNCHANGED <<iOut, iFrom, iFast, iEngine, iPreds, iOpen, shared, lake, deadLetters, dbUp,
                 registered, distillVars, outages, cuts>>

\* What a backend is asked about a sample: its text, else a prompt made of its ids.
Prompt(s) == IF s.text # "" THEN s.text ELSE "described"

Finished(r, b) == iResults[r][b] # <<>>
\* The pool takes the batches in order; fail-fast and one worker go one by one.
InFlight(r, b) ==
  /\ ~Finished(r, b)
  /\ Cardinality({c \in 1 .. b - 1 : ~Finished(r, c)}) < (IF iFast[r] THEN 1 ELSE MaxWorkers)

\* The samples of a batch that are asked for: at first all of them, then those that have
\* an answer which is not OK.
Asked(r, b) ==
  {k \in DOMAIN BatchOf(r, b) :
     LET id == BatchOf(r, b)[k].id
     IN  iTries[r][b] > 0 => id \in DOMAIN iBusy[r][b] /\ iBusy[r][b][id].status # "OK"}

\* What a backend may return for them: answers in any order, and not to all of them.
Replies(r, b) ==
  UNION {{[j \in DOMAIN order |-> [id |-> BatchOf(r, b)[order[j]].id,
                                   ask |-> Prompt(BatchOf(r, b)[order[j]]), status |-> status[j]]] :
             status \in [DOMAIN order -> Answers]} :
          order \in UNION {SetToSeqs(S) : S \in SUBSET Asked(r, b)}}

ByPlace(r, b, reply) ==                                            \* mutant
  LET asked == SetToSortSeq(Asked(r, b), <)
      id(j) == BatchOf(r, b)[asked[j]].id
      ids == {id(j) : j \in DOMAIN reply}
  IN  [i \in DOMAIN iBusy[r][b] \cup ids |->
         IF i \in ids THEN reply[CHOOSE j \in DOMAIN reply : id(j) = i] ELSE iBusy[r][b][i]]

\* by_id[p.sample_id] = p, for every answer: the last one with an id stays.
ById(r, b, reply) ==
  LET ids == {reply[j].id : j \in DOMAIN reply}
      last(i) == CHOOSE j \in DOMAIN reply :
                   reply[j].id = i /\ \A m \in DOMAIN reply : reply[m].id = i => m <= j
  IN  [i \in DOMAIN iBusy[r][b] \cup ids |->
         IF i \in ids THEN reply[last(i)] ELSE iBusy[r][b][i]]

\* results[idx] = future.result()
Place(r, b, answers) == [iResults EXCEPT ![r][b] = answers]

\* A call that is to be followed by another one, the last one of a batch, and the last one
\* when there is no answer to some sample: KeyError, and the run ends as it is.
InfCall(r, b) ==
  /\ iPc[r] = "predict" /\ InFlight(r, b)
  /\ \A c \in 1 .. b - 1 : iFast[r] => \A k \in DOMAIN iResults[r][c] : iResults[r][c][k].status = "OK"
  /\ \E reply \in Replies(r, b) :
       LET byId == ById(r, b, reply)
           id(k) == BatchOf(r, b)[k].id
           bad == {k \in DOMAIN BatchOf(r, b) : id(k) \in DOMAIN byId /\ byId[id(k)].status # "OK"}
           over == iTries[r][b] = Retry \/ bad = {}
           whole == \A k \in DOMAIN BatchOf(r, b) : id(k) \in DOMAIN byId
       IN  \/ /\ ~over
              /\ iBusy' = [iBusy EXCEPT ![r][b] = byId]
              /\ iTries' = [iTries EXCEPT ![r][b] = @ + 1]
              /\ UNCHANGED <<iPc, iResults>>
           \/ /\ over /\ whole
              /\ iResults' = Place(r, b, [k \in DOMAIN BatchOf(r, b) |-> byId[id(k)]])
              /\ iBusy' = [iBusy EXCEPT ![r][b] = <<>>]
              /\ iTries' = [iTries EXCEPT ![r][b] = 0]
              /\ UNCHANGED iPc
           \/ /\ over /\ ~whole
              /\ iPc' = [iPc EXCEPT ![r] = "error"]
              /\ iResults' = [iResults EXCEPT ![r] = <<>>]
              /\ iTries' = [iTries EXCEPT ![r] = <<>>] /\ iBusy' = [iBusy EXCEPT ![r] = <<>>]
  /\ UNCHANGED <<iOut, iFrom, iFast, iEngine, iSamples, iPreds, iOpen, shared, lake, dbVars, dbUp,
                 registered, distillVars, outages, cuts>>

Failures(ps) == Cardinality({i \in DOMAIN ps : ps[i].status # "OK"})
Broken(r) == iFast[r] /\ Failures(FlattenSeq(iResults[r])) > 0
Skipped(s) == [id |-> s.id, ask |-> Prompt(s), status |-> "SKIPPED"]

ReportFirst == <<"report", "predictions", "failed", "manifest", "job", "final", "done">>       \* mutant
RowFirst == <<"job", "predictions", "failed", "report", "manifest", "final", "done">>          \* mutant

\* What a run does with its predictions, in the order of the code.
Ending == <<"predictions", "failed", "report", "manifest", "job", "final", "done">>

\* All batches have answered, or fail-fast marks the rest as failed.
InfCollect(r) ==
  /\ iPc[r] = "predict"
  /\ Broken(r) \/ \A b \in DOMAIN iResults[r] : Finished(r, b)
  /\ LET got == FlattenSeq(iResults[r])
     IN  iPreds' = [iPreds EXCEPT ![r] =
                      [i \in DOMAIN iSamples[r] |-> IF i <= Len(got) THEN got[i]
                                                    ELSE Skipped(iSamples[r][i])]]
  /\ iPc' = [iPc EXCEPT ![r] = Ending[1]]
  /\ iResults' = [iResults EXCEPT ![r] = <<>>]
  /\ iTries' = [iTries EXCEPT ![r] = <<>>] /\ iBusy' = [iBusy EXCEPT ![r] = <<>>]
  /\ UNCHANGED <<iOut, iFrom, iFast, iEngine, iSamples, iOpen, shared, lake, dbVars, dbUp,
                 registered, distillVars, outages, cuts>>

-----------------------------------------------------------------------------
(* The files and the rows of a run.                                        *)

\* More than half of the samples failed (the default --max-error-rate), or fail-fast.
Outcome(r) ==
  LET bad == Failures(iPreds[r])
  IN  IF 2 * bad > Len(iPreds[r]) \/ (iFast[r] /\ bad > 0) THEN "FAILED" ELSE "SUCCEEDED"

After(step) == Ending[1 + CHOOSE k \in DOMAIN Ending : Ending[k] = step]

\* A local file is truncated when it is opened.
InfOpen(r) ==
  /\ iPc[r] \in Kinds /\ ~Atomic /\ ~iOpen[r]
  /\ lake' = [lake EXCEPT ![iOut[r]][iPc[r]] = -r]
  /\ iOpen' = [iOpen EXCEPT ![r] = TRUE]
  /\ UNCHANGED <<iPc, iOut, iFrom, iFast, iEngine, iSamples, iTries, iBusy, iResults, iPreds,
                 shared, dbVars, dbUp, registered, distillVars, outages, cuts>>

\* Another run has opened the file since, or has it open: what is left may be of both.
Mixed(r) ==
  ~Atomic /\ \/ lake[iOut[r]][iPc[r]] # -r
             \/ \E q \in Runs \ {r} : iOpen[q] /\ iOut[q] = iOut[r] /\ iPc[q] = iPc[r]

InfWrite(r) ==
  /\ iPc[r] \in Kinds /\ (Atomic \/ iOpen[r])
  /\ \E file \in IF Mixed(r) THEN {r, -r} ELSE {r} : lake' = [lake EXCEPT ![iOut[r]][iPc[r]] = file]
  /\ iOpen' = [iOpen EXCEPT ![r] = FALSE]
  /\ iPc' = [iPc EXCEPT ![r] = After(@)]
  /\ UNCHANGED <<iOut, iFrom, iFast, iEngine, iSamples, iTries, iBusy, iResults, iPreds, shared,
                 dbVars, dbUp, registered, distillVars, outages, cuts>>

\* The row of the job; a write that fails is a warning.
InfRecord(r) ==
  /\ iPc[r] = "job"
  /\ RowIs(r, Outcome(r))
  /\ iPc' = [iPc EXCEPT ![r] = After(@)]
  /\ UNCHANGED <<iOut, iFrom, iFast, iEngine, iSamples, iTries, iBusy, iResults, iPreds, iOpen,
                 shared, lake, jobEvent, deadLetters, dbUp, registered, distillVars, outages, cuts>>

\* The final event, and a dead letter when the run has failed.
InfFinal(r) ==
  /\ iPc[r] = "final"
  /\ jobEvent' = [jobEvent EXCEPT ![r] = IF Outcome(r) = "FAILED" THEN "FAILED" ELSE "FINISHED"]
  /\ deadLetters' = deadLetters \cup {q \in {r} : dbUp /\ Outcome(r) = "FAILED"}
  /\ iPc' = [iPc EXCEPT ![r] = After(@)]
  /\ iFast' = [iFast EXCEPT ![r] = FALSE] /\ iEngine' = [iEngine EXCEPT ![r] = FALSE]
  /\ UNCHANGED <<iOut, iFrom, iSamples, iTries, iBusy, iResults, iPreds, iOpen, shared, lake,
                 jobRow, dbUp, registered, distillVars, outages, cuts>>

\* The process dies, or a write to the lake raises: nothing is cleaned up.
InfCut(r) ==
  /\ Live(r) /\ cuts < MaxCuts
  /\ cuts' = cuts + 1
  /\ iPc' = [iPc EXCEPT ![r] = "cut"]
  /\ iTries' = [iTries EXCEPT ![r] = <<>>] /\ iBusy' = [iBusy EXCEPT ![r] = <<>>]
  /\ iResults' = [iResults EXCEPT ![r] = <<>>]
  /\ iOpen' = [iOpen EXCEPT ![r] = FALSE]
  /\ UNCHANGED <<iOut, iFrom, iFast, iEngine, iSamples, iPreds, shared, lake, dbVars, dbUp,
                 registered, distillVars, outages>>

-----------------------------------------------------------------------------
(* Distillation data from what lies below an output uri.                   *)

NoBuild == [dir |-> NoUri, rows |-> 0, alone |-> TRUE]

\* read_predictions; a half-written file raises and nothing is built.
DistillRead(d) ==
  /\ build = NoBuild /\ lake[d].predictions > 0
  /\ build' = [dir |-> d, rows |-> lake[d].predictions, alone |-> Writers(d) = {}]
  /\ UNCHANGED <<runVars, lake, dbVars, dbUp, registered, distilled, outages, cuts>>

\* _read_teacher_report: the run the report names, none if it cannot be read.
Teacher(d) == Max({0, lake[d].report})

DistillBuild ==
  /\ build.dir # NoUri
  /\ distilled' = [rows |-> build.rows, source |-> Teacher(build.dir), alone |-> build.alone]
  /\ build' = NoBuild
  /\ UNCHANGED <<runVars, lake, dbVars, dbUp, registered, outages, cuts>>

DbFlips ==
  /\ outages < MaxOutages
  /\ outages' = outages + 1 /\ dbUp' = ~dbUp
  /\ UNCHANGED <<runVars, lake, dbVars, registered, distillVars, cuts>>

-----------------------------------------------------------------------------
InfInit ==
  /\ iPc = [r \in Runs |-> "idle"]
  /\ iOut = [r \in Runs |-> NoUri] /\ iFrom = [r \in Runs |-> NoUri]
  /\ iFast = [r \in Runs |-> FALSE] /\ iEngine = [r \in Runs |-> FALSE]
  /\ iSamples = [r \in Runs |-> <<>>] /\ iTries = [r \in Runs |-> <<>>]
  /\ iBusy = [r \in Runs |-> <<>>] /\ iResults = [r \in Runs |-> <<>>]
  /\ iPreds = [r \in Runs |-> <<>>]
  /\ iOpen = [r \in Runs |-> FALSE] /\ shared = {}
  /\ lake = [d \in Outputs |-> [k \in Kinds |-> 0]]
  /\ jobRow = [r \in Runs |-> "none"] /\ jobEvent = [r \in Runs |-> "none"]
  /\ deadLetters = {}
  /\ dbUp = TRUE /\ registered = {}
  /\ build = NoBuild /\ distilled = [rows |-> 0, source |-> 0, alone |-> TRUE]
  /\ outages = 0 /\ cuts = 0

InfRun(r) ==
  \/ \E from \in Splits \cup Outputs, d \in Outputs, fast \in BOOLEAN : InfStart(r, from, d, fast)
  \/ InfBuild(r)
  \/ \E b \in DOMAIN iResults[r] : InfCall(r, b)
  \/ InfCollect(r) \/ InfOpen(r) \/ InfWrite(r) \/ InfRecord(r) \/ InfFinal(r)
  \/ InfCut(r)

InfNext ==
  \/ \E r \in Runs : InfRun(r)
  \/ Register \/ DbFlips
  \/ \E d \in Outputs : DistillRead(d)
  \/ DistillBuild

InfSpec == InfInit /\ [][InfNext]_infVars

-----------------------------------------------------------------------------
(* Properties.                                                             *)

Whole(d, r) == \A k \in Kinds : lake[d][k] = r
\* Whether another run came to write the uri of r after it.
Rewritten(r) == \E q \in Runs : q > r /\ iOut[q] = iOut[r]

\* A job that the database or the event log calls ended, and that was alone at its output
\* uri, has all of its files in the lake: run_inference writes them before the row and the
\* final event, and only a later run into the same uri replaces them.
EndedHasFiles ==
  \A r \in Runs \ shared :
    jobRow[r] \in {"SUCCEEDED", "FAILED"} \/ jobEvent[r] \in {"FINISHED", "FAILED"}
      => Whole(iOut[r], r) \/ Rewritten(r)

\* The manifest of a run that was alone at its output uri vouches for the files beside it,
\* whatever later runs do there, together or cut: where a file is not of that run, it is of
\* a later one that has not ended (run_inference writes the manifest last).
ManifestIsLast ==
  \A d \in Outputs :
    LET m == lake[d].manifest IN
    m > 0 /\ m \notin shared
      => \A k \in Kinds : LET x == lake[d][k] IN
           x = m \/ \E q \in Runs : q \in {x, -x} /\ q > m /\ iPc[q] # "done"

\* The files below an output uri are those of the run that the row, the log or the
\* manifest speaks of, but for runs that wrote to one uri at the same time: nothing keeps
\* them apart (run_inference: files, then rows, then the final event).
FilesAreOfTheRun == EndedHasFiles /\ ManifestIsLast

\* However the batches finish and however a backend orders its answers, every prediction
\* in the files carries the id of the sample it is zipped with, and answers that sample or
\* another one of the same id (_predict_with_retry, run_batches_concurrent,
\* record_from_prediction).
AnswersItsSample ==
  \A r \in Runs : \A i \in DOMAIN iPreds[r] :
    /\ iPreds[r][i].id = iSamples[r][i].id
    /\ \E k \in DOMAIN iSamples[r] :
         iSamples[r][k].id = iSamples[r][i].id /\ iPreds[r][i].ask = Prompt(iSamples[r][k])

\* Distillation data name the job whose predictions they hold, unless those predictions
\* are of a run that was cut before its report, or of runs that wrote there together, or
\* a run wrote there during the build (build_distill reads the predictions and then takes
\* the job from the report).
DistilledNamesSource ==
  distilled.alone /\ distilled.rows \notin shared =>
    \/ distilled.source = distilled.rows
    \/ distilled.source < distilled.rows /\ iPc[distilled.rows] = "cut"
=============================================================================
