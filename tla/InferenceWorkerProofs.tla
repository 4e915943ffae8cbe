----------------------- MODULE InferenceWorkerProofs -----------------------
(***************************************************************************)
(* Proofs about InferenceWorker: any set of jobs, of output uris and of    *)
(* workers, any number of starts and of deaths.                            *)
(***************************************************************************)
EXTENDS InferenceWorker, TLAPS

-----------------------------------------------------------------------------
(* The inductive invariant.                                                *)

\* A worker holds its job from the UPDATE that matched until its last insert.
Holding == {"commit"} \union Claimed

\* The conditional UPDATE is the only way to hold a job, and it needs a row
\* that is QUEUED and unlocked: a job has one holder, and the holder knows the
\* status of its row.
HolderAlone ==
  \A v, w \in Workers :
    pc[v] \in Holding /\ pc[w] \in Holding /\ job[v] = job[w] => v = w

HolderKnows ==
  \A w \in Workers :
    /\ pc[w] = "commit" => status[job[w]] = "QUEUED"
    /\ pc[w] \in {"predict"} \union Writing => status[job[w]] = "RUNNING"
    /\ pc[w] \in Recording => status[job[w]] \in Final

\* What a holder has put below a private output uri stays there.
HolderWrote ==
  \A w \in Workers : Private(job[w]) =>
    LET u == Output[job[w]] IN
    /\ pc[w] \in {"failures", "report", "finalize"} =>
         predictions[u] = [job |-> job[w], failed |-> failed[w]]
    /\ pc[w] \in {"report", "finalize"} =>
         failures[u] = [job |-> job[w], failed |-> failed[w]]
    /\ pc[w] = "finalize" =>
         report[u] = [job |-> job[w], status |-> Outcome(failed[w])]

\* Past the UPDATE of _finalize_job a holder's count is the row's, and with a
\* database that keeps its inserts the output rows are there before it turns
\* to the failures.
RecorderKnows ==
  \A w \in Workers :
    /\ pc[w] \in Recording => rowFailed[job[w]] = failed[w]
    /\ pc[w] = "failure_rows" /\ ~PgLossy => outputRows[job[w]]

IInv == /\ TypeOK /\ HolderAlone /\ HolderKnows /\ HolderWrote /\ FinishedIsReported
        /\ RecorderKnows /\ RunningIsOwned /\ FinishedIsRecorded

-----------------------------------------------------------------------------
LEMMA InitInv == Init => IInv
<1> SUFFICES ASSUME Init PROVE IInv
  OBVIOUS
<1> USE WorkerAssumption DEF Init
<1>1. TypeOK
  BY DEF TypeOK, JobStatus, Artifact, NoArtifact, Report, NoReport, Pc
<1>2. HolderAlone /\ HolderKnows /\ HolderWrote
  BY DEF HolderAlone, HolderKnows, HolderWrote, Holding, Claimed, Writing, Recording
<1>3. FinishedIsReported
  BY DEF FinishedIsReported, Final
<1>4. RecorderKnows /\ RunningIsOwned /\ FinishedIsRecorded
  BY DEF RecorderKnows, RunningIsOwned, FinishedIsRecorded, Recording, Final
<1> QED
  BY <1>1, <1>2, <1>3, <1>4 DEF IInv

LEMMA StepType ==
  ASSUME TypeOK, [Next]_vars PROVE TypeOK'
<1> USE WorkerAssumption DEF TypeOK, JobStatus, Final, Artifact, Report, Pc, Claimed,
        Writing, Recording, Goto, rows, lake, local
<1>1. ASSUME NEW j \in Jobs, Submit(j) PROVE TypeOK'
  BY <1>1 DEF Submit
<1>2. ASSUME NEW w \in Workers, Start(w) PROVE TypeOK'
  BY <1>2 DEF Start
<1>3. ASSUME NEW w \in Workers, LoopExit(w) PROVE TypeOK'
  BY <1>3 DEF LoopExit, Stop
<1>4. ASSUME NEW w \in Workers, Select(w) PROVE TypeOK'
  BY <1>4 DEF Select, Candidates
<1>5. ASSUME NEW w \in Workers, Update(w) PROVE TypeOK'
  <2>1. CASE status[job[w]] = "QUEUED"
    BY <1>5, <2>1 DEF Update
  <2>2. CASE status[job[w]] # "QUEUED"
    <3>1. Stop(w) /\ UNCHANGED <<rows, lake, starts, faults>>
      BY <1>5, <2>2 DEF Update
    <3> QED
      BY <3>1 DEF Stop
  <2> QED
    BY <2>1, <2>2
<1>6. ASSUME NEW w \in Workers, Commit(w) PROVE TypeOK'
  BY <1>6 DEF Commit
<1>7. ASSUME NEW w \in Workers, Predict(w) PROVE TypeOK'
  BY <1>7 DEF Predict
<1>8. ASSUME NEW w \in Workers, WritePredictions(w) PROVE TypeOK'
  BY <1>8 DEF WritePredictions
<1>9. ASSUME NEW w \in Workers, WriteFailures(w) PROVE TypeOK'
  BY <1>9 DEF WriteFailures
<1>10. ASSUME NEW w \in Workers, WriteReport(w) PROVE TypeOK'
  BY <1>10 DEF WriteReport, Outcome
<1>11. ASSUME NEW w \in Workers, Finalize(w) PROVE TypeOK'
  BY <1>11 DEF Finalize, Outcome
<1>12. ASSUME NEW w \in Workers, RecordOutputs(w) PROVE TypeOK'
  BY <1>12 DEF RecordOutputs
<1>13. ASSUME NEW w \in Workers, RecordFailures(w) PROVE TypeOK'
  <2>1. failureRows' \in [Jobs -> BOOLEAN]
    BY <1>13 DEF RecordFailures
  <2>2. processed[w] + 1 \in 0 .. MaxJobs
    BY <1>13, SMTT(60) DEF RecordFailures
  <2>3. processed' \in [Workers -> 0 .. MaxJobs]
    BY <1>13, <2>2 DEF RecordFailures
  <2> QED
    BY <1>13, <2>1, <2>3 DEF RecordFailures
<1>14. ASSUME NEW w \in Workers, Die(w) PROVE TypeOK'
  BY <1>14 DEF Die, Stop
<1>15. CASE UNCHANGED vars
  BY <1>15 DEF vars, rows, lake, local
<1> QED
  BY <1>1, <1>2, <1>3, <1>4, <1>5, <1>6, <1>7, <1>8,
     <1>9, <1>10, <1>11, <1>12, <1>13, <1>14, <1>15
     DEF Next, Step, Claim, Write, Record

LEMMA StepAlone ==
  ASSUME TypeOK, HolderAlone, HolderKnows, [Next]_vars PROVE HolderAlone'
<1> USE DEF HolderAlone, HolderKnows, Holding, TypeOK, Claimed, Writing,
        Recording, Pc, Goto, rows, lake, local, Final
<1>1. ASSUME NEW j \in Jobs, Submit(j) PROVE HolderAlone'
  BY <1>1 DEF Submit
<1>2. ASSUME NEW w \in Workers, Start(w) PROVE HolderAlone'
  BY <1>2 DEF Start
<1>3. ASSUME NEW w \in Workers, LoopExit(w) PROVE HolderAlone'
  BY <1>3 DEF LoopExit, Stop
<1>4. ASSUME NEW w \in Workers, Select(w) PROVE HolderAlone'
  BY <1>4 DEF Select
<1>5. ASSUME NEW w \in Workers, Update(w) PROVE HolderAlone'
  <2>1. CASE status[job[w]] = "QUEUED"
    <3>1. \A v \in Workers : pc[v] \in Holding => job[v] # job[w]
      BY <1>5, <2>1 DEF Update, Locked
    <3> QED
      BY <1>5, <2>1, <3>1 DEF Update
  <2>2. CASE status[job[w]] # "QUEUED"
    BY <1>5, <2>2 DEF Update, Stop
  <2> QED
    BY <2>1, <2>2
<1>6. ASSUME NEW w \in Workers, Commit(w) PROVE HolderAlone'
  BY <1>6 DEF Commit
<1>7. ASSUME NEW w \in Workers, Predict(w) PROVE HolderAlone'
  BY <1>7 DEF Predict
<1>8. ASSUME NEW w \in Workers, WritePredictions(w) PROVE HolderAlone'
  BY <1>8 DEF WritePredictions
<1>9. ASSUME NEW w \in Workers, WriteFailures(w) PROVE HolderAlone'
  BY <1>9 DEF WriteFailures
<1>10. ASSUME NEW w \in Workers, WriteReport(w) PROVE HolderAlone'
  BY <1>10 DEF WriteReport
<1>11. ASSUME NEW w \in Workers, Finalize(w) PROVE HolderAlone'
  BY <1>11 DEF Finalize
<1>12. ASSUME NEW w \in Workers, RecordOutputs(w) PROVE HolderAlone'
  BY <1>12 DEF RecordOutputs
<1>13. ASSUME NEW w \in Workers, RecordFailures(w) PROVE HolderAlone'
  BY <1>13 DEF RecordFailures
<1>14. ASSUME NEW w \in Workers, Die(w) PROVE HolderAlone'
  BY <1>14 DEF Die, Stop
<1>15. CASE UNCHANGED vars
  BY <1>15 DEF vars, rows, lake, local
<1> QED
  BY <1>1, <1>2, <1>3, <1>4, <1>5, <1>6, <1>7, <1>8,
     <1>9, <1>10, <1>11, <1>12, <1>13, <1>14, <1>15
     DEF Next, Step, Claim, Write, Record

LEMMA StepKnows ==
  ASSUME TypeOK, HolderAlone, HolderKnows, [Next]_vars PROVE HolderKnows'
<1> USE DEF HolderAlone, HolderKnows, Holding, TypeOK, Claimed, Writing,
        Recording, Pc, Goto, rows, lake, local, Final
<1>1. ASSUME NEW j \in Jobs, Submit(j) PROVE HolderKnows'
  BY <1>1 DEF Submit
<1>2. ASSUME NEW w \in Workers, Start(w) PROVE HolderKnows'
  BY <1>2 DEF Start
<1>3. ASSUME NEW w \in Workers, LoopExit(w) PROVE HolderKnows'
  BY <1>3 DEF LoopExit, Stop
<1>4. ASSUME NEW w \in Workers, Select(w) PROVE HolderKnows'
  BY <1>4 DEF Select
<1>5. ASSUME NEW w \in Workers, Update(w) PROVE HolderKnows'
  BY <1>5 DEF Update, Stop
<1>6. ASSUME NEW w \in Workers, Commit(w) PROVE HolderKnows'
  BY <1>6 DEF Commit
<1>7. ASSUME NEW w \in Workers, Predict(w) PROVE HolderKnows'
  BY <1>7 DEF Predict
<1>8. ASSUME NEW w \in Workers, WritePredictions(w) PROVE HolderKnows'
  BY <1>8 DEF WritePredictions
<1>9. ASSUME NEW w \in Workers, WriteFailures(w) PROVE HolderKnows'
  BY <1>9 DEF WriteFailures
<1>10. ASSUME NEW w \in Workers, WriteReport(w) PROVE HolderKnows'
  BY <1>10 DEF WriteReport
<1>11. ASSUME NEW w \in Workers, Finalize(w) PROVE HolderKnows'
  BY <1>11 DEF Finalize, Outcome
<1>12. ASSUME NEW w \in Workers, RecordOutputs(w) PROVE HolderKnows'
  BY <1>12 DEF RecordOutputs
<1>13. ASSUME NEW w \in Workers, RecordFailures(w) PROVE HolderKnows'
  BY <1>13 DEF RecordFailures
<1>14. ASSUME NEW w \in Workers, Die(w) PROVE HolderKnows'
  BY <1>14 DEF Die, Stop
<1>15. CASE UNCHANGED vars
  BY <1>15 DEF vars, rows, lake, local
<1> QED
  BY <1>1, <1>2, <1>3, <1>4, <1>5, <1>6, <1>7, <1>8,
     <1>9, <1>10, <1>11, <1>12, <1>13, <1>14, <1>15
     DEF Next, Step, Claim, Write, Record

LEMMA StepWrote ==
  ASSUME TypeOK, HolderAlone, HolderWrote, [Next]_vars PROVE HolderWrote'
<1> USE WorkerAssumption DEF HolderAlone, HolderWrote, Holding, TypeOK, Claimed,
        Writing, Recording, Pc, Goto, rows, lake, local, Private, Artifact, Report
<1>1. ASSUME NEW j \in Jobs, Submit(j) PROVE HolderWrote'
  BY <1>1 DEF Submit
<1>2. ASSUME NEW w \in Workers, Start(w) PROVE HolderWrote'
  BY <1>2 DEF Start
<1>3. ASSUME NEW w \in Workers, LoopExit(w) PROVE HolderWrote'
  BY <1>3 DEF LoopExit, Stop
<1>4. ASSUME NEW w \in Workers, Select(w) PROVE HolderWrote'
  BY <1>4 DEF Select
<1>5. ASSUME NEW w \in Workers, Update(w) PROVE HolderWrote'
  BY <1>5 DEF Update, Stop
<1>6. ASSUME NEW w \in Workers, Commit(w) PROVE HolderWrote'
  BY <1>6 DEF Commit
<1>7. ASSUME NEW w \in Workers, Predict(w) PROVE HolderWrote'
  BY <1>7, ZenonT(60) DEF Predict
<1>8. ASSUME NEW w \in Workers, WritePredictions(w) PROVE HolderWrote'
  BY <1>8, ZenonT(60) DEF WritePredictions
<1>9. ASSUME NEW w \in Workers, WriteFailures(w) PROVE HolderWrote'
  BY <1>9, ZenonT(60) DEF WriteFailures
<1>10. ASSUME NEW w \in Workers, WriteReport(w) PROVE HolderWrote'
  BY <1>10, ZenonT(60) DEF WriteReport
<1>11. ASSUME NEW w \in Workers, Finalize(w) PROVE HolderWrote'
  BY <1>11 DEF Finalize
<1>12. ASSUME NEW w \in Workers, RecordOutputs(w) PROVE HolderWrote'
  BY <1>12 DEF RecordOutputs
<1>13. ASSUME NEW w \in Workers, RecordFailures(w) PROVE HolderWrote'
  BY <1>13 DEF RecordFailures
<1>14. ASSUME NEW w \in Workers, Die(w) PROVE HolderWrote'
  BY <1>14 DEF Die, Stop
<1>15. CASE UNCHANGED vars
  BY <1>15 DEF vars, rows, lake, local
<1> QED
  BY <1>1, <1>2, <1>3, <1>4, <1>5, <1>6, <1>7, <1>8,
     <1>9, <1>10, <1>11, <1>12, <1>13, <1>14, <1>15
     DEF Next, Step, Claim, Write, Record

LEMMA StepReported ==
  ASSUME IInv, [Next]_vars PROVE FinishedIsReported'
<1> USE WorkerAssumption DEF IInv, FinishedIsReported, TypeOK, HolderKnows,
        HolderWrote, Final, Goto, rows, lake, local, Private, Artifact, Report,
        Writing, JobStatus
<1>1. ASSUME NEW j \in Jobs, Submit(j) PROVE FinishedIsReported'
  BY <1>1 DEF Submit
<1>2. ASSUME NEW w \in Workers, Start(w) PROVE FinishedIsReported'
  BY <1>2 DEF Start
<1>3. ASSUME NEW w \in Workers, LoopExit(w) PROVE FinishedIsReported'
  BY <1>3 DEF LoopExit, Stop
<1>4. ASSUME NEW w \in Workers, Select(w) PROVE FinishedIsReported'
  BY <1>4 DEF Select
<1>5. ASSUME NEW w \in Workers, Update(w) PROVE FinishedIsReported'
  BY <1>5 DEF Update, Stop
<1>6. ASSUME NEW w \in Workers, Commit(w) PROVE FinishedIsReported'
  BY <1>6 DEF Commit
<1>7. ASSUME NEW w \in Workers, Predict(w) PROVE FinishedIsReported'
  BY <1>7 DEF Predict
<1>8. ASSUME NEW w \in Workers, WritePredictions(w) PROVE FinishedIsReported'
  BY <1>8 DEF WritePredictions
<1>9. ASSUME NEW w \in Workers, WriteFailures(w) PROVE FinishedIsReported'
  BY <1>9 DEF WriteFailures
<1>10. ASSUME NEW w \in Workers, WriteReport(w) PROVE FinishedIsReported'
  BY <1>10 DEF WriteReport
<1>11. ASSUME NEW w \in Workers, Finalize(w) PROVE FinishedIsReported'
  BY <1>11 DEF Finalize, Outcome
<1>12. ASSUME NEW w \in Workers, RecordOutputs(w) PROVE FinishedIsReported'
  BY <1>12 DEF RecordOutputs
<1>13. ASSUME NEW w \in Workers, RecordFailures(w) PROVE FinishedIsReported'
  BY <1>13 DEF RecordFailures
<1>14. ASSUME NEW w \in Workers, Die(w) PROVE FinishedIsReported'
  BY <1>14 DEF Die, Stop
<1>15. CASE UNCHANGED vars
  BY <1>15 DEF vars, rows, lake, local
<1> QED
  BY <1>1, <1>2, <1>3, <1>4, <1>5, <1>6, <1>7, <1>8,
     <1>9, <1>10, <1>11, <1>12, <1>13, <1>14, <1>15
     DEF Next, Step, Claim, Write, Record

\* Nobody else writes the row of a job that is held.
LEMMA StepRecorder ==
  ASSUME TypeOK, HolderAlone, RecorderKnows, [Next]_vars PROVE RecorderKnows'
<1> USE WorkerAssumption DEF HolderAlone, Holding, RecorderKnows, TypeOK, Claimed, Writing,
        Recording, Pc, Goto, rows, lake, local, Final
<1>1. ASSUME NEW j \in Jobs, Submit(j) PROVE RecorderKnows'
  BY <1>1 DEF Submit
<1>2. ASSUME NEW w \in Workers, Start(w) PROVE RecorderKnows'
  BY <1>2 DEF Start
<1>3. ASSUME NEW w \in Workers, LoopExit(w) PROVE RecorderKnows'
  BY <1>3 DEF LoopExit, Stop
<1>4. ASSUME NEW w \in Workers, Select(w) PROVE RecorderKnows'
  BY <1>4 DEF Select
<1>5. ASSUME NEW w \in Workers, Update(w) PROVE RecorderKnows'
  BY <1>5 DEF Update, Stop
<1>6. ASSUME NEW w \in Workers, Commit(w) PROVE RecorderKnows'
  BY <1>6 DEF Commit
<1>7. ASSUME NEW w \in Workers, Predict(w) PROVE RecorderKnows'
  BY <1>7 DEF Predict
<1>8. ASSUME NEW w \in Workers, WritePredictions(w) PROVE RecorderKnows'
  BY <1>8 DEF WritePredictions
<1>9. ASSUME NEW w \in Workers, WriteFailures(w) PROVE RecorderKnows'
  BY <1>9 DEF WriteFailures
<1>10. ASSUME NEW w \in Workers, WriteReport(w) PROVE RecorderKnows'
  BY <1>10 DEF WriteReport
<1>11. ASSUME NEW w \in Workers, Finalize(w) PROVE RecorderKnows'
  BY <1>11 DEF Finalize, Outcome
<1>12. ASSUME NEW w \in Workers, RecordOutputs(w) PROVE RecorderKnows'
  BY <1>12, ZenonT(60) DEF RecordOutputs, Landed
<1>13. ASSUME NEW w \in Workers, RecordFailures(w) PROVE RecorderKnows'
  BY <1>13 DEF RecordFailures, Landed
<1>14. ASSUME NEW w \in Workers, Die(w) PROVE RecorderKnows'
  BY <1>14 DEF Die, Stop
<1>15. CASE UNCHANGED vars
  BY <1>15 DEF vars, rows, lake, local
<1> QED
  BY <1>1, <1>2, <1>3, <1>4, <1>5, <1>6, <1>7, <1>8,
     <1>9, <1>10, <1>11, <1>12, <1>13, <1>14, <1>15
     DEF Next, Step, Claim, Write, Record

\* A running row loses its worker only when the worker dies.
LEMMA StepOwned ==
  ASSUME TypeOK, HolderKnows, RunningIsOwned, [Next]_vars PROVE RunningIsOwned'
<1> USE WorkerAssumption DEF RunningIsOwned, TypeOK, Claimed, Writing,
        Recording, Pc, Goto, rows, lake, local, Final
<1>1. ASSUME NEW j \in Jobs, Submit(j) PROVE RunningIsOwned'
  BY <1>1 DEF Submit
<1>2. ASSUME NEW w \in Workers, Start(w) PROVE RunningIsOwned'
  BY <1>2 DEF Start
<1>3. ASSUME NEW w \in Workers, LoopExit(w) PROVE RunningIsOwned'
  BY <1>3 DEF LoopExit, Stop
<1>4. ASSUME NEW w \in Workers, Select(w) PROVE RunningIsOwned'
  BY <1>4 DEF Select
<1>5. ASSUME NEW w \in Workers, Update(w) PROVE RunningIsOwned'
  BY <1>5 DEF Update, Stop
<1>6. ASSUME NEW w \in Workers, Commit(w) PROVE RunningIsOwned'
  BY <1>6 DEF Commit
<1>7. ASSUME NEW w \in Workers, Predict(w) PROVE RunningIsOwned'
  BY <1>7 DEF Predict
<1>8. ASSUME NEW w \in Workers, WritePredictions(w) PROVE RunningIsOwned'
  BY <1>8 DEF WritePredictions
<1>9. ASSUME NEW w \in Workers, WriteFailures(w) PROVE RunningIsOwned'
  BY <1>9 DEF WriteFailures
<1>10. ASSUME NEW w \in Workers, WriteReport(w) PROVE RunningIsOwned'
  BY <1>10 DEF WriteReport
<1>11. ASSUME NEW w \in Workers, Finalize(w) PROVE RunningIsOwned'
  BY <1>11 DEF Finalize, Outcome
<1>12. ASSUME NEW w \in Workers, RecordOutputs(w) PROVE RunningIsOwned'
  BY <1>12 DEF RecordOutputs, Landed
<1>13. ASSUME NEW w \in Workers, RecordFailures(w) PROVE RunningIsOwned'
  BY <1>13 DEF RecordFailures, Landed
<1>14. ASSUME NEW w \in Workers, Die(w) PROVE RunningIsOwned'
  BY <1>14 DEF Die, Stop
<1>15. CASE UNCHANGED vars
  BY <1>15 DEF vars, rows, lake, local
<1> QED
  BY <1>1, <1>2, <1>3, <1>4, <1>5, <1>6, <1>7, <1>8,
     <1>9, <1>10, <1>11, <1>12, <1>13, <1>14, <1>15
     DEF Next, Step, Claim, Write, Record

\* The holder leaves a finished row only when the rows of the samples are there.
LEMMA StepRecorded ==
  ASSUME TypeOK, HolderKnows, RecorderKnows, FinishedIsRecorded, [Next]_vars PROVE FinishedIsRecorded'
<1> USE WorkerAssumption DEF RecorderKnows, HolderKnows, FinishedIsRecorded, TypeOK, Claimed, Writing,
        Recording, Pc, Goto, rows, lake, local, Final
<1>1. ASSUME NEW j \in Jobs, Submit(j) PROVE FinishedIsRecorded'
  BY <1>1 DEF Submit
<1>2. ASSUME NEW w \in Workers, Start(w) PROVE FinishedIsRecorded'
  BY <1>2 DEF Start
<1>3. ASSUME NEW w \in Workers, LoopExit(w) PROVE FinishedIsRecorded'
  BY <1>3 DEF LoopExit, Stop
<1>4. ASSUME NEW w \in Workers, Select(w) PROVE FinishedIsRecorded'
  BY <1>4 DEF Select
<1>5. ASSUME NEW w \in Workers, Update(w) PROVE FinishedIsRecorded'
  BY <1>5 DEF Update, Stop
<1>6. ASSUME NEW w \in Workers, Commit(w) PROVE FinishedIsRecorded'
  BY <1>6 DEF Commit
<1>7. ASSUME NEW w \in Workers, Predict(w) PROVE FinishedIsRecorded'
  BY <1>7 DEF Predict
<1>8. ASSUME NEW w \in Workers, WritePredictions(w) PROVE FinishedIsRecorded'
  BY <1>8 DEF WritePredictions
<1>9. ASSUME NEW w \in Workers, WriteFailures(w) PROVE FinishedIsRecorded'
  BY <1>9 DEF WriteFailures
<1>10. ASSUME NEW w \in Workers, WriteReport(w) PROVE FinishedIsRecorded'
  BY <1>10 DEF WriteReport
<1>11. ASSUME NEW w \in Workers, Finalize(w) PROVE FinishedIsRecorded'
  BY <1>11 DEF Finalize, Outcome
<1>12. ASSUME NEW w \in Workers, RecordOutputs(w) PROVE FinishedIsRecorded'
  BY <1>12 DEF RecordOutputs, Landed
<1>13. ASSUME NEW w \in Workers, RecordFailures(w) PROVE FinishedIsRecorded'
  BY <1>13 DEF RecordFailures, Landed
<1>14. ASSUME NEW w \in Workers, Die(w) PROVE FinishedIsRecorded'
  BY <1>14 DEF Die, Stop
<1>15. CASE UNCHANGED vars
  BY <1>15 DEF vars, rows, lake, local
<1> QED
  BY <1>1, <1>2, <1>3, <1>4, <1>5, <1>6, <1>7, <1>8,
     <1>9, <1>10, <1>11, <1>12, <1>13, <1>14, <1>15
     DEF Next, Step, Claim, Write, Record

LEMMA StepInv == IInv /\ [Next]_vars => IInv'
  BY StepType, StepAlone, StepKnows, StepWrote, StepReported, StepRecorder, StepOwned,
     StepRecorded
     DEF IInv

\* The invariant holds in every reachable state.
THEOREM WorkerInvariant == Spec => []IInv
  BY InitInv, StepInv, PTL DEF Spec

\* The rows, the artifacts and the workers are well typed.
THEOREM WorkerTypeCorrect == Spec => []TypeOK
  BY WorkerInvariant, PTL DEF IInv

\* The conditional UPDATE gives a job to one worker, however many race for it
\* and wherever workers die.
THEOREM Exclusive == Spec => []ClaimExclusive
<1>1. IInv => ClaimExclusive
  BY DEF IInv, HolderAlone, ClaimExclusive, Holding
<1> QED
  BY <1>1, WorkerInvariant, PTL

\* A finished row tells what lies below the job's own output uri.
THEOREM Reported == Spec => []FinishedIsReported
  BY WorkerInvariant, PTL DEF IInv

\* While nobody dies a running row has its worker and, with a database that
\* keeps its inserts, a finished one the rows of its samples.
THEOREM Backed == Spec => []RowsAreBacked
  BY WorkerInvariant, PTL DEF IInv, RowsAreBacked

\* Statuses move only along VALID_TRANSITIONS: the unguarded UPDATE of
\* _finalize_job never hits a row that is not RUNNING.
THEOREM Transitions == Spec => StatusMoves
<1> DEFINE Moves == \A j \in Jobs :
             status'[j] = status[j] \/ CanTransition(status[j], status'[j])
<1>1. ASSUME IInv, [Next]_vars PROVE Moves
  <2> USE <1>1 DEF IInv, TypeOK, HolderKnows, CanTransition, Writing, Final,
                   rows, Outcome
  <2>1. ASSUME NEW j \in Jobs, Submit(j) PROVE Moves
    BY <2>1 DEF Submit
  <2>2. ASSUME NEW w \in Workers, Commit(w) PROVE Moves
    BY <2>2 DEF Commit
  <2>3. ASSUME NEW w \in Workers, Finalize(w) PROVE Moves
    BY <2>3 DEF Finalize
  <2>4. CASE UNCHANGED status
    BY <2>4
  <2> QED
    BY <2>1, <2>2, <2>3, <2>4
       DEF Next, Step, Claim, Write, Record, Start, LoopExit, Select, Update,
           Predict, WritePredictions, WriteFailures, WriteReport,
           RecordOutputs, RecordFailures, Die, vars
<1>2. IInv /\ [Next]_vars => [Moves]_vars
  BY <1>1
<1> QED
  BY <1>2, WorkerInvariant, PTL DEF Spec, StatusMoves
=============================================================================
