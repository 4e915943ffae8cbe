------------------------- MODULE NormalizeRunProofs -------------------------
(***************************************************************************)
(* Proofs about NormalizeRun, for any set of workers, any number of runs,  *)
(* faults and generations, and both lake stores.                           *)
(***************************************************************************)
EXTENDS NormalizeRun, TLAPS

-----------------------------------------------------------------------------
(* The inductive invariant.                                                *)

\* Steps between the staging of the tables and the manifest.
WritePc == {"upload", "copying", "assets", "version", "manifest", "manifest_write"}

\* Steps of a run that has checked and has not yet published.
BeforePc == {"start_job", "try_resume", "resume_manifest",
             "resume_manifest_write", "fresh", "load"} \union WritePc

Staged == \A w \in Workers : pc[w] \in WritePc => gen[w] \in Gens

\* On the object store files never vanish and are never truncated, so what
\* one run found or put stays there whatever the others do.
ObjectsStay ==
  Atomic =>
    /\ \A f \in Files : files[f].gen # 0 => files[f].whole
    /\ \A w \in Workers :
         /\ pc[w] \notin {"copying", "manifest_write", "resume_manifest_write"}
         /\ pc[w] = "upload" => \A f \in Files \ todo[w] : files[f].gen # 0
         /\ pc[w] \in {"assets", "version", "manifest", "resume_manifest"}
              => AllOutputsPresent
    /\ ManifestReadable => AllOutputsPresent

\* Runs come one at a time and none is forced.
Calm == Exclusive /\ TRUE \notin ForceFlags

Alone ==
  Exclusive => \A v, w \in Workers : pc[v] # "idle" /\ pc[w] # "idle" => v = w

\* A calm run works on an unpublished slice until it publishes it, and knows
\* what it has put there.
CalmWorker(w) ==
  /\ ~run[w].force
  /\ pc[w] \in BeforePc => ~ManifestReadable
  /\ pc[w] \in {"upload", "copying"} =>
       \A f \in Files \ todo[w] : files[f] = Computed(gen[w])
  /\ pc[w] \in {"assets", "version", "manifest", "manifest_write"} =>
       \A f \in Files : files[f] = Computed(gen[w])
  /\ pc[w] \in {"resume_manifest", "resume_manifest_write"} =>
       AllOutputsPresent /\ MetricsReadable

CalmSlice ==
  /\ ManifestReadable => AllOutputsPresent /\ MetricsReadable
  /\ manifest.kind = "full" =>
       \A f \in Files : files[f] = Computed(manifest.gen)

CalmRun == Calm => CalmSlice /\ \A w \in Workers : CalmWorker(w)

\* With a warehouse that keeps its writes, the rows are there before the
\* manifest, and no later run takes one away.
Registered == \A f \in Files : assets[f] # 0

RowsFirst ==
  ~PgLossy =>
    /\ \A w \in Workers :
         /\ pc[w] = "assets" => \A f \in Files \ todo[w] : assets[f] # 0
         /\ pc[w] \in {"version", "manifest", "manifest_write"} => Registered
    /\ manifest.kind = "full" \/ dsStatus = "normalized" => Registered

\* The files are there before the version is called normalized: nothing that has
\* been uploaded vanishes, though it may be truncated on the local store.
FilesFirst ==
  /\ \A w \in Workers :
       /\ pc[w] \in {"upload", "copying"} => \A f \in Files \ todo[w] : files[f].gen # 0
       /\ pc[w] \in {"assets", "version"} => AllOutputsPresent
  /\ dsStatus = "normalized" => AllOutputsPresent

\* A run that is past its manifest, its row and its checkpoint find it
\* readable: an object is replaced at once, and a local file is truncated only
\* by a run that found nothing to read.
PastPc == {"resume_ckpt", "resume_job", "ckpt_ok", "job_ok"}

OkStays ==
  (Atomic \/ TRUE \notin ForceFlags) =>
    /\ \A r \in Runs : jobs[r] = "OK" => ManifestReadable
    /\ ckpt.status = "OK" => ManifestReadable
    /\ \A w \in Workers : pc[w] \in PastPc => ManifestReadable

\* Runs that always resume, one at a time, on the local store: the last file of
\* the copy order is there only beside the other two of the same run, and a run
\* recomputes only while it is missing.
Ordered == ~Atomic /\ ForceFlags = {FALSE} /\ ResumeFlags = {TRUE}

LastIsMissing == files["video_meta"].gen = 0

CopyOrder ==
  Ordered =>
    /\ LastIsMissing \/ (MetricsReadable /\ \A f, g \in Files : files[f].gen = files[g].gen)
    /\ \A w \in Workers :
         /\ pc[w] # "idle" => run[w].resume /\ ~run[w].force
         /\ pc[w] \in {"fresh", "load"} => LastIsMissing
         /\ pc[w] = "upload" /\ todo[w] # {} => LastIsMissing
         /\ pc[w] = "copying" /\ todo[w] # {"video_meta"} => LastIsMissing

IInv == /\ TypeOK /\ Staged /\ ObjectsStay /\ Alone /\ CalmRun
        /\ RowsFirst /\ FilesFirst /\ OkStays /\ CopyOrder

-----------------------------------------------------------------------------
(* Type correctness.                                                       *)

\* The initial state is well typed.
LEMMA InitType == Init => TypeOK
  BY RunAssumption, SMT DEF Init, TypeOK, Gens, Runs, File, Missing, Manifest,
     NoManifest, Ckpt, NoCkpt, Pc, ResumePc, FreshPc, Run, NoRun, Files

\* Each step keeps the types: in particular a process that is past its
\* check carries the identifier of the job row it will close.
LEMMA StepType == TypeOK /\ [Next]_vars => TypeOK'
<1> SUFFICES ASSUME TypeOK, [Next]_vars PROVE TypeOK'
  OBVIOUS
<1> USE RunAssumption DEF TypeOK, Gens, Runs, File, Manifest, Ckpt, Pc,
        ResumePc, FreshPc, Run, NoRun, lake, warehouse, local, Goto, Stop,
        Computed, ResumedSums
<1>1. CASE RawChange \/ Rediscover
  BY <1>1 DEF RawChange, Rediscover
<1>2. ASSUME NEW w \in Workers, Check(w) PROVE TypeOK'
  <2>1. CASE UNCHANGED <<pc, run>>
    BY <1>2, <2>1 DEF Check
  <2>2. CASE /\ \E force \in ForceFlags, resume \in ResumeFlags :
                  run' = [run EXCEPT ![w] = [id |-> nruns + 1, force |-> force,
                                             resume |-> resume]]
             /\ Goto(w, "start_job")
    BY <1>2, <2>2 DEF Check
  <2> QED
    BY <1>2, <2>1, <2>2 DEF Check
<1>3. ASSUME NEW w \in Workers, StartJob(w) PROVE TypeOK'
  BY <1>3 DEF StartJob, SetJob
<1>4. ASSUME NEW w \in Workers, Resume(w) PROVE TypeOK'
  <2>1. CASE TryResume(w)
    BY <2>1 DEF TryResume
  <2>2. CASE ResumeManifest(w)
    <3>1. manifest' \in Manifest /\ pc[w] # "idle"
      BY <2>2 DEF ResumeManifest, WriteManifest
    <3>2. Goto(w, "resume_manifest_write") \/ Goto(w, "resume_ckpt")
      BY <2>2 DEF ResumeManifest, WriteManifest
    <3> QED
      BY <3>1, <3>2, <2>2, ZenonT(60) DEF ResumeManifest, WriteManifest
  <2>3. CASE ResumeCkpt(w)
    BY <2>3 DEF ResumeCkpt
  <2>4. CASE ResumeJob(w)
    BY <2>4 DEF ResumeJob, SetJob
  <2> QED
    BY <1>4, <2>1, <2>2, <2>3, <2>4 DEF Resume
<1>5. ASSUME NEW w \in Workers, BeginFresh(w) \/ Load(w) PROVE TypeOK'
  <2>1. CASE BeginFresh(w)
    BY <2>1 DEF BeginFresh
  <2>2. CASE Load(w)
    BY <2>2 DEF Load
  <2> QED
    BY <1>5, <2>1, <2>2
<1>6. ASSUME NEW w \in Workers, Upload(w) PROVE TypeOK'
  <2>1. CASE PutFile(w)
    BY <2>1 DEF PutFile, NextUploads
  <2>2. CASE BeginCopy(w)
    BY <2>2 DEF BeginCopy, NextUploads
  <2>3. CASE EndCopy(w)
    BY <2>3 DEF EndCopy, NextUploads
  <2>4. CASE UploadDone(w)
    BY <2>4 DEF UploadDone
  <2> QED
    BY <1>6, <2>1, <2>2, <2>3, <2>4 DEF Upload
<1>7. ASSUME NEW w \in Workers, Register(w) PROVE TypeOK'
  <2>1. CASE RecordAsset(w)
    BY <2>1 DEF RecordAsset, NextAssets
  <2>2. CASE RecordVersion(w)
    BY <2>2 DEF RecordVersion
  <2> QED
    BY <1>7, <2>1, <2>2 DEF Register
<1>8. ASSUME NEW w \in Workers, Finish(w) PROVE TypeOK'
  <2>1. CASE FreshManifest(w)
    <3>1. manifest' \in Manifest /\ pc[w] # "idle"
      BY <2>1 DEF FreshManifest, WriteManifest
    <3>2. Goto(w, "manifest_write") \/ Goto(w, "ckpt_ok")
      BY <2>1 DEF FreshManifest, WriteManifest
    <3> QED
      BY <3>1, <3>2, <2>1, ZenonT(60) DEF FreshManifest, WriteManifest
  <2>2. CASE FinishCkpt(w)
    BY <2>2 DEF FinishCkpt
  <2>3. CASE FinishJob(w)
    BY <2>3 DEF FinishJob, SetJob
  <2>4. CASE Exit(w)
    BY <2>4 DEF Exit
  <2> QED
    BY <1>8, <2>1, <2>2, <2>3, <2>4 DEF Finish
<1>9. ASSUME NEW w \in Workers, Fail(w) \/ Crash(w) PROVE TypeOK'
  <2>1. CASE Fail(w)
    BY <2>1 DEF Fail, SetJob
  <2>2. CASE Crash(w)
    BY <2>2 DEF Crash
  <2> QED
    BY <1>9, <2>1, <2>2
<1>10. CASE UNCHANGED vars
  BY <1>10 DEF vars
<1> QED
  BY <1>1, <1>2, <1>3, <1>4, <1>5, <1>6, <1>7, <1>8, <1>9, <1>10 DEF Next, Step

\* Every reachable state of normalize_dataset and its stores is well typed.
THEOREM TypeCorrect == Spec => []TypeOK
  BY InitType, StepType, PTL DEF Spec

-----------------------------------------------------------------------------
(* The inductive invariant is inductive: one lemma per conjunct.           *)

\* The tables a run uploads have been staged from some generation.
LEMMA StepStaged ==
  ASSUME TypeOK, Staged, [Next]_vars PROVE Staged'
<1> USE RunAssumption DEF TypeOK, Gens, Runs, File, Manifest, Run, NoRun, lake, warehouse,
        local, Goto, Stop, Staged, WritePc
<1>1. ASSUME NEW w \in Workers, Check(w) PROVE Staged'
  BY <1>1 DEF Check, Skips
<1>2. ASSUME NEW w \in Workers, StartJob(w) PROVE Staged'
  BY <1>2 DEF StartJob, SetJob
<1>3. ASSUME NEW w \in Workers, TryResume(w) PROVE Staged'
  BY <1>3 DEF TryResume
<1>4. ASSUME NEW w \in Workers, ResumeManifest(w) PROVE Staged'
  BY <1>4 DEF ResumeManifest, WriteManifest
<1>5. ASSUME NEW w \in Workers, ResumeCkpt(w) PROVE Staged'
  BY <1>5 DEF ResumeCkpt
<1>6. ASSUME NEW w \in Workers, ResumeJob(w) PROVE Staged'
  BY <1>6 DEF ResumeJob, SetJob
<1>7. ASSUME NEW w \in Workers, BeginFresh(w) PROVE Staged'
  BY <1>7 DEF BeginFresh
<1>8. ASSUME NEW w \in Workers, Load(w) PROVE Staged'
  BY <1>8 DEF Load
<1>9. ASSUME NEW w \in Workers, PutFile(w) PROVE Staged'
  BY <1>9 DEF PutFile, NextUploads
<1>10. ASSUME NEW w \in Workers, BeginCopy(w) PROVE Staged'
  BY <1>10 DEF BeginCopy, NextUploads
<1>11. ASSUME NEW w \in Workers, EndCopy(w) PROVE Staged'
  BY <1>11 DEF EndCopy, NextUploads
<1>12. ASSUME NEW w \in Workers, UploadDone(w) PROVE Staged'
  BY <1>12 DEF UploadDone
<1>13. ASSUME NEW w \in Workers, RecordAsset(w) PROVE Staged'
  BY <1>13 DEF RecordAsset, NextAssets
<1>14. ASSUME NEW w \in Workers, RecordVersion(w) PROVE Staged'
  BY <1>14 DEF RecordVersion
<1>15. ASSUME NEW w \in Workers, FreshManifest(w) PROVE Staged'
  BY <1>15 DEF FreshManifest, WriteManifest
<1>16. ASSUME NEW w \in Workers, FinishCkpt(w) PROVE Staged'
  BY <1>16 DEF FinishCkpt
<1>17. ASSUME NEW w \in Workers, FinishJob(w) PROVE Staged'
  BY <1>17 DEF FinishJob, SetJob
<1>18. ASSUME NEW w \in Workers, Exit(w) PROVE Staged'
  BY <1>18 DEF Exit
<1>19. ASSUME NEW w \in Workers, Fail(w) PROVE Staged'
  BY <1>19 DEF Fail, SetJob
<1>20. ASSUME NEW w \in Workers, Crash(w) PROVE Staged'
  BY <1>20 DEF Crash
<1>21. CASE RawChange \/ Rediscover
  BY <1>21 DEF RawChange, Rediscover
<1>22. CASE UNCHANGED vars
  BY <1>22 DEF vars
<1> QED
  BY <1>1, <1>2, <1>3, <1>4, <1>5, <1>6, <1>7, <1>8, <1>9, <1>10, <1>11, <1>12, <1>13, <1>14, <1>15, <1>16, <1>17, <1>18, <1>19, <1>20, <1>21, <1>22
     DEF Next, Step, Resume, Upload, Register, Finish

\* With concurrencyPolicy Forbid a second run waits.
LEMMA StepAlone ==
  ASSUME TypeOK, Alone, [Next]_vars PROVE Alone'
<1> USE RunAssumption DEF TypeOK, Gens, Runs, File, Manifest, Run, NoRun, lake, warehouse,
        local, Goto, Stop, Alone
<1>1. ASSUME NEW w \in Workers, Check(w) PROVE Alone'
  BY <1>1 DEF Check, Skips
<1>2. ASSUME NEW w \in Workers, StartJob(w) PROVE Alone'
  BY <1>2 DEF StartJob, SetJob
<1>3. ASSUME NEW w \in Workers, TryResume(w) PROVE Alone'
  BY <1>3 DEF TryResume
<1>4. ASSUME NEW w \in Workers, ResumeManifest(w) PROVE Alone'
  BY <1>4 DEF ResumeManifest, WriteManifest
<1>5. ASSUME NEW w \in Workers, ResumeCkpt(w) PROVE Alone'
  BY <1>5 DEF ResumeCkpt
<1>6. ASSUME NEW w \in Workers, ResumeJob(w) PROVE Alone'
  BY <1>6 DEF ResumeJob, SetJob
<1>7. ASSUME NEW w \in Workers, BeginFresh(w) PROVE Alone'
  BY <1>7 DEF BeginFresh
<1>8. ASSUME NEW w \in Workers, Load(w) PROVE Alone'
  BY <1>8 DEF Load
<1>9. ASSUME NEW w \in Workers, PutFile(w) PROVE Alone'
  BY <1>9 DEF PutFile, NextUploads
<1>10. ASSUME NEW w \in Workers, BeginCopy(w) PROVE Alone'
  BY <1>10 DEF BeginCopy, NextUploads
<1>11. ASSUME NEW w \in Workers, EndCopy(w) PROVE Alone'
  BY <1>11 DEF EndCopy, NextUploads
<1>12. ASSUME NEW w \in Workers, UploadDone(w) PROVE Alone'
  BY <1>12 DEF UploadDone
<1>13. ASSUME NEW w \in Workers, RecordAsset(w) PROVE Alone'
  BY <1>13 DEF RecordAsset, NextAssets
<1>14. ASSUME NEW w \in Workers, RecordVersion(w) PROVE Alone'
  BY <1>14 DEF RecordVersion
<1>15. ASSUME NEW w \in Workers, FreshManifest(w) PROVE Alone'
  BY <1>15 DEF FreshManifest, WriteManifest
<1>16. ASSUME NEW w \in Workers, FinishCkpt(w) PROVE Alone'
  BY <1>16 DEF FinishCkpt
<1>17. ASSUME NEW w \in Workers, FinishJob(w) PROVE Alone'
  BY <1>17 DEF FinishJob, SetJob
<1>18. ASSUME NEW w \in Workers, Exit(w) PROVE Alone'
  BY <1>18 DEF Exit
<1>19. ASSUME NEW w \in Workers, Fail(w) PROVE Alone'
  BY <1>19 DEF Fail, SetJob
<1>20. ASSUME NEW w \in Workers, Crash(w) PROVE Alone'
  BY <1>20 DEF Crash
<1>21. CASE RawChange \/ Rediscover
  BY <1>21 DEF RawChange, Rediscover
<1>22. CASE UNCHANGED vars
  BY <1>22 DEF vars
<1> QED
  BY <1>1, <1>2, <1>3, <1>4, <1>5, <1>6, <1>7, <1>8, <1>9, <1>10, <1>11, <1>12, <1>13, <1>14, <1>15, <1>16, <1>17, <1>18, <1>19, <1>20, <1>21, <1>22
     DEF Next, Step, Resume, Upload, Register, Finish

\* Puts only add whole objects, and a run remembers nothing that a put of
\* another run could undo.
LEMMA StepObjects ==
  ASSUME TypeOK, Staged, ObjectsStay, [Next]_vars PROVE ObjectsStay'
<1> USE RunAssumption DEF TypeOK, Gens, Runs, File, Manifest, Run, NoRun, lake, warehouse,
        local, Goto, Stop,
        Computed, ResumedSums, Staged, WritePc, ObjectsStay, AllOutputsPresent, ManifestReadable
<1>1. ASSUME NEW w \in Workers, Check(w) PROVE ObjectsStay'
  BY <1>1 DEF Check, Skips
<1>2. ASSUME NEW w \in Workers, StartJob(w) PROVE ObjectsStay'
  BY <1>2 DEF StartJob, SetJob
<1>3. ASSUME NEW w \in Workers, TryResume(w) PROVE ObjectsStay'
  BY <1>3 DEF TryResume
<1>4. ASSUME NEW w \in Workers, ResumeManifest(w) PROVE ObjectsStay'
  BY <1>4 DEF ResumeManifest, WriteManifest
<1>5. ASSUME NEW w \in Workers, ResumeCkpt(w) PROVE ObjectsStay'
  BY <1>5 DEF ResumeCkpt
<1>6. ASSUME NEW w \in Workers, ResumeJob(w) PROVE ObjectsStay'
  BY <1>6 DEF ResumeJob, SetJob
<1>7. ASSUME NEW w \in Workers, BeginFresh(w) PROVE ObjectsStay'
  BY <1>7 DEF BeginFresh
<1>8. ASSUME NEW w \in Workers, Load(w) PROVE ObjectsStay'
  BY <1>8 DEF Load
<1>9. ASSUME NEW w \in Workers, PutFile(w) PROVE ObjectsStay'
  BY <1>9 DEF PutFile, NextUploads
<1>10. ASSUME NEW w \in Workers, BeginCopy(w) PROVE ObjectsStay'
  BY <1>10 DEF BeginCopy, NextUploads
<1>11. ASSUME NEW w \in Workers, EndCopy(w) PROVE ObjectsStay'
  BY <1>11 DEF EndCopy, NextUploads
<1>12. ASSUME NEW w \in Workers, UploadDone(w) PROVE ObjectsStay'
  BY <1>12 DEF UploadDone
<1>13. ASSUME NEW w \in Workers, RecordAsset(w) PROVE ObjectsStay'
  BY <1>13 DEF RecordAsset, NextAssets
<1>14. ASSUME NEW w \in Workers, RecordVersion(w) PROVE ObjectsStay'
  BY <1>14 DEF RecordVersion
<1>15. ASSUME NEW w \in Workers, FreshManifest(w) PROVE ObjectsStay'
  BY <1>15 DEF FreshManifest, WriteManifest
<1>16. ASSUME NEW w \in Workers, FinishCkpt(w) PROVE ObjectsStay'
  BY <1>16 DEF FinishCkpt
<1>17. ASSUME NEW w \in Workers, FinishJob(w) PROVE ObjectsStay'
  BY <1>17 DEF FinishJob, SetJob
<1>18. ASSUME NEW w \in Workers, Exit(w) PROVE ObjectsStay'
  BY <1>18 DEF Exit
<1>19. ASSUME NEW w \in Workers, Fail(w) PROVE ObjectsStay'
  BY <1>19 DEF Fail, SetJob
<1>20. ASSUME NEW w \in Workers, Crash(w) PROVE ObjectsStay'
  BY <1>20 DEF Crash
<1>21. CASE RawChange \/ Rediscover
  BY <1>21 DEF RawChange, Rediscover
<1>22. CASE UNCHANGED vars
  BY <1>22 DEF vars
<1> QED
  BY <1>1, <1>2, <1>3, <1>4, <1>5, <1>6, <1>7, <1>8, <1>9, <1>10, <1>11, <1>12, <1>13, <1>14, <1>15, <1>16, <1>17, <1>18, <1>19, <1>20, <1>21, <1>22
     DEF Next, Step, Resume, Upload, Register, Finish

\* A calm run finds, and leaves, an unpublished slice until it publishes it.
LEMMA StepCalm ==
  ASSUME TypeOK, Staged, ObjectsStay, Alone, CalmRun, [Next]_vars PROVE CalmRun'
<1> SUFFICES ASSUME Calm PROVE (CalmSlice /\ \A w \in Workers : CalmWorker(w))'
  BY DEF CalmRun, Calm
<1>0. CalmSlice /\ \A w \in Workers : CalmWorker(w)
  BY DEF CalmRun
<1> DEFINE Others(w) == \A v \in Workers \ {w} : CalmWorker(v)'
<1>z. ASSUME NEW w \in Workers, pc[w] # "idle" \/ \A v \in Workers : pc[v] = "idle",
             \A v \in Workers \ {w} : pc'[v] = pc[v] /\ run'[v] = run[v]
      PROVE  Others(w)
  <2> SUFFICES ASSUME NEW v \in Workers \ {w} PROVE CalmWorker(v)'
    OBVIOUS
  <2>1. pc[v] = "idle"
    BY <1>z DEF Alone, Calm
  <2>2. ~run[v].force
    BY <1>0 DEF CalmWorker
  <2> QED
    BY <1>z, <2>1, <2>2 DEF CalmWorker, BeforePc, WritePc
<1> USE RunAssumption DEF TypeOK, Gens, Runs, File, Manifest, Run, NoRun, lake,
        warehouse, local, Goto, Stop, Computed, ResumedSums
<1>1. ASSUME NEW w \in Workers, Check(w)
       PROVE  (CalmSlice /\ \A v \in Workers : CalmWorker(v))'
  <2>1. Others(w)
    BY <1>1, <1>z DEF Check, Skips, Calm
  <2>2. CalmSlice'
    BY <1>1, <1>0 DEF Check, Skips, Calm,
         CalmSlice, CalmWorker, BeforePc, WritePc,
         AllOutputsPresent, MetricsReadable, ManifestReadable
  <2>3. CalmWorker(w)'
    <3>1. pc[w] = "idle" /\ UNCHANGED <<files, manifest, gen, todo>>
      BY <1>1 DEF Check
    <3>2. CASE UNCHANGED <<pc, run>>
      BY <1>0, <3>1, <3>2 DEF CalmWorker, BeforePc, WritePc
    <3>3. ASSUME NEW force \in ForceFlags, NEW resume \in ResumeFlags,
                 ~Skips(force), Goto(w, "start_job"),
                 run' = [run EXCEPT ![w] = [id |-> nruns + 1, force |-> force,
                                            resume |-> resume]]
          PROVE  CalmWorker(w)'
      <4>1. force = FALSE
        BY DEF Calm
      <4>2. ~ManifestReadable /\ ~run'[w].force /\ pc'[w] = "start_job"
        BY <3>3, <4>1 DEF Skips
      <4> QED
        BY <3>1, <4>2 DEF CalmWorker, ManifestReadable
    <3> QED
      BY <1>1, <3>2, <3>3 DEF Check
  <2> QED
    BY <2>1, <2>2, <2>3
<1>2. ASSUME NEW w \in Workers, StartJob(w)
       PROVE  (CalmSlice /\ \A v \in Workers : CalmWorker(v))'
  <2>1. Others(w)
    BY <1>2, <1>z DEF StartJob, SetJob
  <2>2. CalmSlice'
    BY <1>2, <1>0 DEF StartJob, SetJob,
         CalmSlice, CalmWorker, BeforePc, WritePc,
         AllOutputsPresent, MetricsReadable, ManifestReadable
  <2>3. CalmWorker(w)'
    BY <1>2, <1>0 DEF StartJob, SetJob,
         CalmSlice, CalmWorker, BeforePc, WritePc,
         AllOutputsPresent, MetricsReadable, ManifestReadable
  <2> QED
    BY <2>1, <2>2, <2>3
<1>3. ASSUME NEW w \in Workers, TryResume(w)
       PROVE  (CalmSlice /\ \A v \in Workers : CalmWorker(v))'
  <2>1. Others(w)
    BY <1>3, <1>z DEF TryResume
  <2>2. CalmSlice'
    BY <1>3, <1>0 DEF TryResume,
         CalmSlice, CalmWorker, BeforePc, WritePc,
         AllOutputsPresent, MetricsReadable, ManifestReadable
  <2>3. CalmWorker(w)'
    BY <1>3, <1>0 DEF TryResume,
         CalmSlice, CalmWorker, BeforePc, WritePc,
         AllOutputsPresent, MetricsReadable, ManifestReadable
  <2> QED
    BY <2>1, <2>2, <2>3
<1>4. ASSUME NEW w \in Workers, ResumeManifest(w)
       PROVE  (CalmSlice /\ \A v \in Workers : CalmWorker(v))'
  <2>1. Others(w)
    BY <1>4, <1>z DEF ResumeManifest, WriteManifest
  <2>2. CalmSlice'
    BY <1>4, <1>0 DEF ResumeManifest, WriteManifest,
         CalmSlice, CalmWorker, BeforePc, WritePc,
         AllOutputsPresent, MetricsReadable, ManifestReadable
  <2>3. CalmWorker(w)'
    BY <1>4, <1>0 DEF ResumeManifest, WriteManifest,
         CalmSlice, CalmWorker, BeforePc, WritePc,
         AllOutputsPresent, MetricsReadable, ManifestReadable
  <2> QED
    BY <2>1, <2>2, <2>3
<1>5. ASSUME NEW w \in Workers, ResumeCkpt(w)
       PROVE  (CalmSlice /\ \A v \in Workers : CalmWorker(v))'
  <2>1. Others(w)
    BY <1>5, <1>z DEF ResumeCkpt
  <2>2. CalmSlice'
    BY <1>5, <1>0 DEF ResumeCkpt,
         CalmSlice, CalmWorker, BeforePc, WritePc,
         AllOutputsPresent, MetricsReadable, ManifestReadable
  <2>3. CalmWorker(w)'
    BY <1>5, <1>0 DEF ResumeCkpt,
         CalmSlice, CalmWorker, BeforePc, WritePc,
         AllOutputsPresent, MetricsReadable, ManifestReadable
  <2> QED
    BY <2>1, <2>2, <2>3
<1>6. ASSUME NEW w \in Workers, ResumeJob(w)
       PROVE  (CalmSlice /\ \A v \in Workers : CalmWorker(v))'
  <2>1. Others(w)
    BY <1>6, <1>z DEF ResumeJob, SetJob
  <2>2. CalmSlice'
    BY <1>6, <1>0 DEF ResumeJob, SetJob,
         CalmSlice, CalmWorker, BeforePc, WritePc,
         AllOutputsPresent, MetricsReadable, ManifestReadable
  <2>3. CalmWorker(w)'
    BY <1>6, <1>0 DEF ResumeJob, SetJob,
         CalmSlice, CalmWorker, BeforePc, WritePc,
         AllOutputsPresent, MetricsReadable, ManifestReadable
  <2> QED
    BY <2>1, <2>2, <2>3
<1>7. ASSUME NEW w \in Workers, BeginFresh(w)
       PROVE  (CalmSlice /\ \A v \in Workers : CalmWorker(v))'
  <2>1. Others(w)
    BY <1>7, <1>z DEF BeginFresh
  <2>2. CalmSlice'
    BY <1>7, <1>0 DEF BeginFresh,
         CalmSlice, CalmWorker, BeforePc, WritePc,
         AllOutputsPresent, MetricsReadable, ManifestReadable
  <2>3. CalmWorker(w)'
    BY <1>7, <1>0 DEF BeginFresh,
         CalmSlice, CalmWorker, BeforePc, WritePc,
         AllOutputsPresent, MetricsReadable, ManifestReadable
  <2> QED
    BY <2>1, <2>2, <2>3
<1>8. ASSUME NEW w \in Workers, Load(w)
       PROVE  (CalmSlice /\ \A v \in Workers : CalmWorker(v))'
  <2>1. Others(w)
    BY <1>8, <1>z DEF Load
  <2>2. CalmSlice'
    BY <1>8, <1>0 DEF Load,
         CalmSlice, CalmWorker, BeforePc, WritePc,
         AllOutputsPresent, MetricsReadable, ManifestReadable
  <2>3. CalmWorker(w)'
    BY <1>8, <1>0 DEF Load,
         CalmSlice, CalmWorker, BeforePc, WritePc,
         AllOutputsPresent, MetricsReadable, ManifestReadable
  <2> QED
    BY <2>1, <2>2, <2>3
<1>9. ASSUME NEW w \in Workers, PutFile(w)
       PROVE  (CalmSlice /\ \A v \in Workers : CalmWorker(v))'
  <2>1. Others(w)
    BY <1>9, <1>z DEF PutFile, NextUploads
  <2>2. CalmSlice'
    BY <1>9, <1>0 DEF PutFile, NextUploads,
         CalmSlice, CalmWorker, BeforePc, WritePc,
         AllOutputsPresent, MetricsReadable, ManifestReadable
  <2>3. CalmWorker(w)'
    <3>1. PICK f \in todo[w] :
            /\ files' = [files EXCEPT ![f] = Computed(gen[w])]
            /\ todo' = [todo EXCEPT ![w] = @ \ {f}]
      BY <1>9 DEF PutFile, NextUploads
    <3>2. /\ pc[w] \in {"upload", "copying"} /\ pc'[w] = "upload"
          /\ UNCHANGED <<run, gen, manifest>>
      BY <1>9 DEF PutFile
    <3>3. \A g \in Files \ todo'[w] : files'[g] = Computed(gen'[w])
      BY <1>0, <3>1, <3>2 DEF CalmWorker
    <3> QED
      BY <1>0, <3>2, <3>3 DEF CalmWorker, BeforePc, WritePc, ManifestReadable
  <2> QED
    BY <2>1, <2>2, <2>3
<1>10. ASSUME NEW w \in Workers, BeginCopy(w)
       PROVE  (CalmSlice /\ \A v \in Workers : CalmWorker(v))'
  <2>1. Others(w)
    BY <1>10, <1>z DEF BeginCopy, NextUploads
  <2>2. CalmSlice'
    BY <1>10, <1>0 DEF BeginCopy, NextUploads,
         CalmSlice, CalmWorker, BeforePc, WritePc,
         AllOutputsPresent, MetricsReadable, ManifestReadable
  <2>3. CalmWorker(w)'
    <3>1. PICK f \in todo[w] :
            files' = [files EXCEPT ![f] = [gen |-> gen[w], whole |-> FALSE]]
      BY <1>10 DEF BeginCopy, NextUploads
    <3>2. /\ pc[w] = "upload" /\ pc'[w] = "copying"
          /\ UNCHANGED <<run, gen, todo, manifest>>
      BY <1>10 DEF BeginCopy
    <3>3. \A g \in Files \ todo[w] : files'[g] = Computed(gen[w])
      BY <1>0, <3>1, <3>2 DEF CalmWorker
    <3> QED
      BY <1>0, <3>2, <3>3 DEF CalmWorker, BeforePc, WritePc, ManifestReadable
  <2> QED
    BY <2>1, <2>2, <2>3
<1>11. ASSUME NEW w \in Workers, EndCopy(w)
       PROVE  (CalmSlice /\ \A v \in Workers : CalmWorker(v))'
  <2>1. Others(w)
    BY <1>11, <1>z DEF EndCopy, NextUploads
  <2>2. CalmSlice'
    BY <1>11, <1>0 DEF EndCopy, NextUploads,
         CalmSlice, CalmWorker, BeforePc, WritePc,
         AllOutputsPresent, MetricsReadable, ManifestReadable
  <2>3. CalmWorker(w)'
    <3>1. PICK f \in todo[w] :
            /\ files' = [files EXCEPT ![f] = Computed(gen[w])]
            /\ todo' = [todo EXCEPT ![w] = @ \ {f}]
      BY <1>11 DEF EndCopy, NextUploads
    <3>2. /\ pc[w] \in {"upload", "copying"} /\ pc'[w] = "upload"
          /\ UNCHANGED <<run, gen, manifest>>
      BY <1>11 DEF EndCopy
    <3>3. \A g \in Files \ todo'[w] : files'[g] = Computed(gen'[w])
      BY <1>0, <3>1, <3>2 DEF CalmWorker
    <3> QED
      BY <1>0, <3>2, <3>3 DEF CalmWorker, BeforePc, WritePc, ManifestReadable
  <2> QED
    BY <2>1, <2>2, <2>3
<1>12. ASSUME NEW w \in Workers, UploadDone(w)
       PROVE  (CalmSlice /\ \A v \in Workers : CalmWorker(v))'
  <2>1. Others(w)
    BY <1>12, <1>z DEF UploadDone
  <2>2. CalmSlice'
    BY <1>12, <1>0 DEF UploadDone,
         CalmSlice, CalmWorker, BeforePc, WritePc,
         AllOutputsPresent, MetricsReadable, ManifestReadable
  <2>3. CalmWorker(w)'
    BY <1>12, <1>0 DEF UploadDone,
         CalmSlice, CalmWorker, BeforePc, WritePc,
         AllOutputsPresent, MetricsReadable, ManifestReadable
  <2> QED
    BY <2>1, <2>2, <2>3
<1>13. ASSUME NEW w \in Workers, RecordAsset(w)
       PROVE  (CalmSlice /\ \A v \in Workers : CalmWorker(v))'
  <2>1. Others(w)
    BY <1>13, <1>z DEF RecordAsset, NextAssets
  <2>2. CalmSlice'
    BY <1>13, <1>0 DEF RecordAsset, NextAssets,
         CalmSlice, CalmWorker, BeforePc, WritePc,
         AllOutputsPresent, MetricsReadable, ManifestReadable
  <2>3. CalmWorker(w)'
    BY <1>13, <1>0 DEF RecordAsset, NextAssets,
         CalmSlice, CalmWorker, BeforePc, WritePc,
         AllOutputsPresent, MetricsReadable, ManifestReadable
  <2> QED
    BY <2>1, <2>2, <2>3
<1>14. ASSUME NEW w \in Workers, RecordVersion(w)
       PROVE  (CalmSlice /\ \A v \in Workers : CalmWorker(v))'
  <2>1. Others(w)
    BY <1>14, <1>z DEF RecordVersion
  <2>2. CalmSlice'
    BY <1>14, <1>0 DEF RecordVersion,
         CalmSlice, CalmWorker, BeforePc, WritePc,
         AllOutputsPresent, MetricsReadable, ManifestReadable
  <2>3. CalmWorker(w)'
    BY <1>14, <1>0 DEF RecordVersion,
         CalmSlice, CalmWorker, BeforePc, WritePc,
         AllOutputsPresent, MetricsReadable, ManifestReadable
  <2> QED
    BY <2>1, <2>2, <2>3
<1>15. ASSUME NEW w \in Workers, FreshManifest(w)
       PROVE  (CalmSlice /\ \A v \in Workers : CalmWorker(v))'
  <2>1. Others(w)
    BY <1>15, <1>z DEF FreshManifest, WriteManifest
  <2>2. CalmSlice'
    <3>1. pc[w] \in {"manifest", "manifest_write"}
      BY <1>15 DEF FreshManifest, WriteManifest
    <3>2. gen[w] # 0 /\ \A f \in Files : files[f] = Computed(gen[w])
      BY <1>0, <3>1 DEF CalmWorker, Staged, WritePc
    <3>3. UNCHANGED files
      BY <1>15 DEF FreshManifest, WriteManifest
    <3>4. manifest' \in {[kind |-> "torn", gen |-> 0], [kind |-> "full", gen |-> gen[w]]}
      BY <1>15 DEF FreshManifest, WriteManifest
    <3> QED
      BY <3>2, <3>3, <3>4
         DEF CalmSlice, AllOutputsPresent, MetricsReadable, ManifestReadable, Files
  <2>3. CalmWorker(w)'
    BY <1>15, <1>0 DEF FreshManifest, WriteManifest,
         CalmSlice, CalmWorker, BeforePc, WritePc,
         AllOutputsPresent, MetricsReadable, ManifestReadable
  <2> QED
    BY <2>1, <2>2, <2>3
<1>16. ASSUME NEW w \in Workers, FinishCkpt(w)
       PROVE  (CalmSlice /\ \A v \in Workers : CalmWorker(v))'
  <2>1. Others(w)
    BY <1>16, <1>z DEF FinishCkpt
  <2>2. CalmSlice'
    BY <1>16, <1>0 DEF FinishCkpt,
         CalmSlice, CalmWorker, BeforePc, WritePc,
         AllOutputsPresent, MetricsReadable, ManifestReadable
  <2>3. CalmWorker(w)'
    BY <1>16, <1>0 DEF FinishCkpt,
         CalmSlice, CalmWorker, BeforePc, WritePc,
         AllOutputsPresent, MetricsReadable, ManifestReadable
  <2> QED
    BY <2>1, <2>2, <2>3
<1>17. ASSUME NEW w \in Workers, FinishJob(w)
       PROVE  (CalmSlice /\ \A v \in Workers : CalmWorker(v))'
  <2>1. Others(w)
    BY <1>17, <1>z DEF FinishJob, SetJob
  <2>2. CalmSlice'
    BY <1>17, <1>0 DEF FinishJob, SetJob,
         CalmSlice, CalmWorker, BeforePc, WritePc,
         AllOutputsPresent, MetricsReadable, ManifestReadable
  <2>3. CalmWorker(w)'
    BY <1>17, <1>0 DEF FinishJob, SetJob,
         CalmSlice, CalmWorker, BeforePc, WritePc,
         AllOutputsPresent, MetricsReadable, ManifestReadable
  <2> QED
    BY <2>1, <2>2, <2>3
<1>18. ASSUME NEW w \in Workers, Exit(w)
       PROVE  (CalmSlice /\ \A v \in Workers : CalmWorker(v))'
  <2>1. Others(w)
    BY <1>18, <1>z DEF Exit
  <2>2. CalmSlice'
    BY <1>18, <1>0 DEF Exit,
         CalmSlice, CalmWorker, BeforePc, WritePc,
         AllOutputsPresent, MetricsReadable, ManifestReadable
  <2>3. CalmWorker(w)'
    BY <1>18, <1>0 DEF Exit,
         CalmSlice, CalmWorker, BeforePc, WritePc,
         AllOutputsPresent, MetricsReadable, ManifestReadable
  <2> QED
    BY <2>1, <2>2, <2>3
<1>19. ASSUME NEW w \in Workers, Fail(w)
       PROVE  (CalmSlice /\ \A v \in Workers : CalmWorker(v))'
  <2>1. Others(w)
    BY <1>19, <1>z DEF Fail, SetJob, FreshPc
  <2>2. CalmSlice'
    BY <1>19, <1>0 DEF Fail, SetJob,
         CalmSlice, CalmWorker, BeforePc, WritePc,
         AllOutputsPresent, MetricsReadable, ManifestReadable
  <2>3. CalmWorker(w)'
    BY <1>19, <1>0 DEF Fail, SetJob,
         CalmSlice, CalmWorker, BeforePc, WritePc,
         AllOutputsPresent, MetricsReadable, ManifestReadable
  <2> QED
    BY <2>1, <2>2, <2>3
<1>20. ASSUME NEW w \in Workers, Crash(w)
       PROVE  (CalmSlice /\ \A v \in Workers : CalmWorker(v))'
  <2>1. Others(w)
    BY <1>20, <1>z DEF Crash
  <2>2. CalmSlice'
    BY <1>20, <1>0 DEF Crash,
         CalmSlice, CalmWorker, BeforePc, WritePc,
         AllOutputsPresent, MetricsReadable, ManifestReadable
  <2>3. CalmWorker(w)'
    BY <1>20, <1>0 DEF Crash,
         CalmSlice, CalmWorker, BeforePc, WritePc,
         AllOutputsPresent, MetricsReadable, ManifestReadable
  <2> QED
    BY <2>1, <2>2, <2>3
<1>21. CASE RawChange \/ Rediscover
  <2>1. UNCHANGED <<files, manifest, pc, run, gen, todo>>
    BY <1>21 DEF RawChange, Rediscover
  <2> QED
  BY <2>1, <1>0 DEF CalmSlice, CalmWorker, BeforePc, WritePc,
         AllOutputsPresent, MetricsReadable, ManifestReadable
<1>22. CASE UNCHANGED vars
  BY <1>22, <1>0 DEF vars, CalmSlice, CalmWorker, BeforePc, WritePc,
         AllOutputsPresent, MetricsReadable, ManifestReadable
<1> QED
  BY <1>1, <1>2, <1>3, <1>4, <1>5, <1>6, <1>7, <1>8, <1>9, <1>10, <1>11, <1>12, <1>13, <1>14, <1>15, <1>16, <1>17, <1>18, <1>19, <1>20, <1>21, <1>22
     DEF Next, Step, Resume, Upload, Register, Finish

\* Rows are only added, and the manifest is written when the last of them is there.
LEMMA StepRows ==
  ASSUME TypeOK, Staged, RowsFirst, [Next]_vars PROVE RowsFirst'
<1> USE RunAssumption DEF TypeOK, Gens, Runs, File, Manifest, Ckpt, Run, NoRun, lake, warehouse,
        local, Goto, Stop, RowsFirst, Registered, Staged, WritePc
<1>1. ASSUME NEW w \in Workers, Check(w) PROVE RowsFirst'
  BY <1>1 DEF Check, Skips
<1>2. ASSUME NEW w \in Workers, StartJob(w) PROVE RowsFirst'
  BY <1>2 DEF StartJob, SetJob, Landed
<1>3. ASSUME NEW w \in Workers, TryResume(w) PROVE RowsFirst'
  BY <1>3 DEF TryResume
<1>4. ASSUME NEW w \in Workers, ResumeManifest(w) PROVE RowsFirst'
  <2>1. manifest'.kind # "full" /\ UNCHANGED <<assets, dsStatus, todo>>
    BY <1>4 DEF ResumeManifest, WriteManifest
  <2>2. Goto(w, "resume_manifest_write") \/ Goto(w, "resume_ckpt")
    BY <1>4 DEF ResumeManifest, WriteManifest
  <2> QED
    BY <2>1, <2>2
<1>5. ASSUME NEW w \in Workers, ResumeCkpt(w) PROVE RowsFirst'
  BY <1>5 DEF ResumeCkpt
<1>6. ASSUME NEW w \in Workers, ResumeJob(w) PROVE RowsFirst'
  BY <1>6 DEF ResumeJob, SetJob, Landed
<1>7. ASSUME NEW w \in Workers, BeginFresh(w) PROVE RowsFirst'
  BY <1>7 DEF BeginFresh
<1>8. ASSUME NEW w \in Workers, Load(w) PROVE RowsFirst'
  BY <1>8 DEF Load
<1>9. ASSUME NEW w \in Workers, PutFile(w) PROVE RowsFirst'
  BY <1>9 DEF PutFile, NextUploads
<1>10. ASSUME NEW w \in Workers, BeginCopy(w) PROVE RowsFirst'
  BY <1>10 DEF BeginCopy, NextUploads
<1>11. ASSUME NEW w \in Workers, EndCopy(w) PROVE RowsFirst'
  BY <1>11 DEF EndCopy, NextUploads
<1>12. ASSUME NEW w \in Workers, UploadDone(w) PROVE RowsFirst'
  BY <1>12 DEF UploadDone
<1>13. ASSUME NEW w \in Workers, RecordAsset(w) PROVE RowsFirst'
  BY <1>13 DEF RecordAsset, NextAssets, Landed
<1>14. ASSUME NEW w \in Workers, RecordVersion(w) PROVE RowsFirst'
  BY <1>14 DEF RecordVersion, Landed
<1>15. ASSUME NEW w \in Workers, FreshManifest(w) PROVE RowsFirst'
  BY <1>15 DEF FreshManifest, WriteManifest
<1>16. ASSUME NEW w \in Workers, FinishCkpt(w) PROVE RowsFirst'
  BY <1>16 DEF FinishCkpt
<1>17. ASSUME NEW w \in Workers, FinishJob(w) PROVE RowsFirst'
  BY <1>17 DEF FinishJob, SetJob, Landed
<1>18. ASSUME NEW w \in Workers, Exit(w) PROVE RowsFirst'
  BY <1>18 DEF Exit
<1>19. ASSUME NEW w \in Workers, Fail(w) PROVE RowsFirst'
  BY <1>19 DEF Fail, SetJob, Landed
<1>20. ASSUME NEW w \in Workers, Crash(w) PROVE RowsFirst'
  BY <1>20 DEF Crash
<1>21. CASE RawChange \/ Rediscover
  BY <1>21 DEF RawChange, Rediscover
<1>22. CASE UNCHANGED vars
  BY <1>22 DEF vars
<1> QED
  BY <1>1, <1>2, <1>3, <1>4, <1>5, <1>6, <1>7, <1>8, <1>9, <1>10, <1>11,
     <1>12, <1>13, <1>14, <1>15, <1>16, <1>17, <1>18, <1>19, <1>20, <1>21, <1>22
     DEF Next, Step, Resume, Upload, Register, Finish

\* Files are only added, and the version is normalized when the last of them is there.
LEMMA StepFiles ==
  ASSUME TypeOK, Staged, FilesFirst, [Next]_vars PROVE FilesFirst'
<1> USE RunAssumption DEF TypeOK, Gens, Runs, File, Manifest, Ckpt, Run, NoRun, lake, warehouse,
        local, Goto, Stop, FilesFirst, AllOutputsPresent, Staged, WritePc
<1>1. ASSUME NEW w \in Workers, Check(w) PROVE FilesFirst'
  BY <1>1 DEF Check, Skips
<1>2. ASSUME NEW w \in Workers, StartJob(w) PROVE FilesFirst'
  BY <1>2 DEF StartJob, SetJob, Landed
<1>3. ASSUME NEW w \in Workers, TryResume(w) PROVE FilesFirst'
  BY <1>3 DEF TryResume
<1>4. ASSUME NEW w \in Workers, ResumeManifest(w) PROVE FilesFirst'
  <2>1. UNCHANGED <<files, dsStatus, todo>>
    BY <1>4 DEF ResumeManifest, WriteManifest
  <2>2. Goto(w, "resume_manifest_write") \/ Goto(w, "resume_ckpt")
    BY <1>4 DEF ResumeManifest, WriteManifest
  <2> QED
    BY <2>1, <2>2
<1>5. ASSUME NEW w \in Workers, ResumeCkpt(w) PROVE FilesFirst'
  BY <1>5 DEF ResumeCkpt
<1>6. ASSUME NEW w \in Workers, ResumeJob(w) PROVE FilesFirst'
  BY <1>6 DEF ResumeJob, SetJob, Landed
<1>7. ASSUME NEW w \in Workers, BeginFresh(w) PROVE FilesFirst'
  BY <1>7 DEF BeginFresh
<1>8. ASSUME NEW w \in Workers, Load(w) PROVE FilesFirst'
  BY <1>8 DEF Load
<1>9. ASSUME NEW w \in Workers, PutFile(w) PROVE FilesFirst'
  <2>1. PICK f \in NextUploads(todo[w]) :
           files' = [files EXCEPT ![f] = Computed(gen[w])] /\ todo' = [todo EXCEPT ![w] = @ \ {f}]
    BY <1>9 DEF PutFile
  <2>2. f \in Files /\ gen[w] \in Gens /\ pc[w] \in {"upload", "copying"} /\ UNCHANGED dsStatus
    BY <1>9 DEF PutFile, NextUploads
  <2>3. files'[f].gen # 0 /\ \A g \in Files : files[g].gen # 0 => files'[g].gen # 0
    BY <2>1, <2>2 DEF Computed
  <2>4. \A v \in Workers : pc'[v] = pc[v] \/ (v = w /\ pc'[v] \in {"upload", "copying"})
    BY <1>9 DEF PutFile
  <2> QED
    BY <2>1, <2>2, <2>3, <2>4
<1>10. ASSUME NEW w \in Workers, BeginCopy(w) PROVE FilesFirst'
  BY <1>10 DEF BeginCopy, NextUploads
<1>11. ASSUME NEW w \in Workers, EndCopy(w) PROVE FilesFirst'
  <2>1. PICK f \in NextUploads(todo[w]) :
           files' = [files EXCEPT ![f] = Computed(gen[w])] /\ todo' = [todo EXCEPT ![w] = @ \ {f}]
    BY <1>11 DEF EndCopy
  <2>2. f \in Files /\ gen[w] \in Gens /\ pc[w] \in {"upload", "copying"} /\ UNCHANGED dsStatus
    BY <1>11 DEF EndCopy, NextUploads
  <2>3. files'[f].gen # 0 /\ \A g \in Files : files[g].gen # 0 => files'[g].gen # 0
    BY <2>1, <2>2 DEF Computed
  <2>4. \A v \in Workers : pc'[v] = pc[v] \/ (v = w /\ pc'[v] \in {"upload", "copying"})
    BY <1>11 DEF EndCopy
  <2> QED
    BY <2>1, <2>2, <2>3, <2>4
<1>12. ASSUME NEW w \in Workers, UploadDone(w) PROVE FilesFirst'
  BY <1>12 DEF UploadDone
<1>13. ASSUME NEW w \in Workers, RecordAsset(w) PROVE FilesFirst'
  BY <1>13 DEF RecordAsset, NextAssets, Landed
<1>14. ASSUME NEW w \in Workers, RecordVersion(w) PROVE FilesFirst'
  BY <1>14 DEF RecordVersion, Landed
<1>15. ASSUME NEW w \in Workers, FreshManifest(w) PROVE FilesFirst'
  BY <1>15 DEF FreshManifest, WriteManifest
<1>16. ASSUME NEW w \in Workers, FinishCkpt(w) PROVE FilesFirst'
  BY <1>16 DEF FinishCkpt
<1>17. ASSUME NEW w \in Workers, FinishJob(w) PROVE FilesFirst'
  BY <1>17 DEF FinishJob, SetJob, Landed
<1>18. ASSUME NEW w \in Workers, Exit(w) PROVE FilesFirst'
  BY <1>18 DEF Exit
<1>19. ASSUME NEW w \in Workers, Fail(w) PROVE FilesFirst'
  BY <1>19 DEF Fail, SetJob, Landed
<1>20. ASSUME NEW w \in Workers, Crash(w) PROVE FilesFirst'
  BY <1>20 DEF Crash
<1>21. CASE RawChange \/ Rediscover
  BY <1>21 DEF RawChange, Rediscover
<1>22. CASE UNCHANGED vars
  BY <1>22 DEF vars
<1> QED
  BY <1>1, <1>2, <1>3, <1>4, <1>5, <1>6, <1>7, <1>8, <1>9, <1>10, <1>11,
     <1>12, <1>13, <1>14, <1>15, <1>16, <1>17, <1>18, <1>19, <1>20, <1>21, <1>22
     DEF Next, Step, Resume, Upload, Register, Finish

\* Nothing takes a readable manifest away from a run that has published.
LEMMA StepOk ==
  ASSUME TypeOK, Alone, CalmRun, OkStays, [Next]_vars PROVE OkStays'
<1> USE RunAssumption DEF TypeOK, Gens, Runs, File, Manifest, Ckpt, Run, NoRun, lake, warehouse,
        local, Goto, Stop, OkStays, PastPc, ManifestReadable
<1>1. ASSUME NEW w \in Workers, Check(w) PROVE OkStays'
  BY <1>1 DEF Check, Skips
<1>2. ASSUME NEW w \in Workers, StartJob(w) PROVE OkStays'
  BY <1>2 DEF StartJob, SetJob, Landed
<1>3. ASSUME NEW w \in Workers, TryResume(w) PROVE OkStays'
  BY <1>3 DEF TryResume
<1>4. ASSUME NEW w \in Workers, ResumeManifest(w) PROVE OkStays'
  <2>1. UNCHANGED <<jobs, ckpt>>
    BY <1>4 DEF ResumeManifest, WriteManifest
  <2>2. CASE ManifestReadable'
    BY <2>1, <2>2
  <2>3. CASE ~ManifestReadable'
    <3>1. ~Atomic /\ pc[w] = "resume_manifest" /\ Goto(w, "resume_manifest_write")
      BY <1>4, <2>3 DEF ResumeManifest, WriteManifest
    <3>2. SUFFICES ASSUME TRUE \notin ForceFlags PROVE OkStays'
      BY <3>1
    <3>3. ~ManifestReadable
      BY <3>1, <3>2 DEF CalmRun, Calm, CalmWorker, BeforePc, WritePc
    <3> QED
      BY <2>1, <3>1, <3>2, <3>3
  <2> QED
    BY <2>2, <2>3
<1>5. ASSUME NEW w \in Workers, ResumeCkpt(w) PROVE OkStays'
  BY <1>5 DEF ResumeCkpt
<1>6. ASSUME NEW w \in Workers, ResumeJob(w) PROVE OkStays'
  BY <1>6 DEF ResumeJob, SetJob, Landed
<1>7. ASSUME NEW w \in Workers, BeginFresh(w) PROVE OkStays'
  BY <1>7 DEF BeginFresh
<1>8. ASSUME NEW w \in Workers, Load(w) PROVE OkStays'
  BY <1>8 DEF Load
<1>9. ASSUME NEW w \in Workers, PutFile(w) PROVE OkStays'
  BY <1>9 DEF PutFile, NextUploads
<1>10. ASSUME NEW w \in Workers, BeginCopy(w) PROVE OkStays'
  BY <1>10 DEF BeginCopy, NextUploads
<1>11. ASSUME NEW w \in Workers, EndCopy(w) PROVE OkStays'
  BY <1>11 DEF EndCopy, NextUploads
<1>12. ASSUME NEW w \in Workers, UploadDone(w) PROVE OkStays'
  BY <1>12 DEF UploadDone
<1>13. ASSUME NEW w \in Workers, RecordAsset(w) PROVE OkStays'
  BY <1>13, ZenonT(60) DEF RecordAsset, NextAssets, Landed
<1>14. ASSUME NEW w \in Workers, RecordVersion(w) PROVE OkStays'
  BY <1>14 DEF RecordVersion, Landed
<1>15. ASSUME NEW w \in Workers, FreshManifest(w) PROVE OkStays'
  <2>1. UNCHANGED <<jobs, ckpt>>
    BY <1>15 DEF FreshManifest, WriteManifest
  <2>2. CASE ManifestReadable'
    BY <2>1, <2>2
  <2>3. CASE ~ManifestReadable'
    <3>1. ~Atomic /\ pc[w] = "manifest" /\ Goto(w, "manifest_write")
      BY <1>15, <2>3 DEF FreshManifest, WriteManifest
    <3>2. SUFFICES ASSUME TRUE \notin ForceFlags PROVE OkStays'
      BY <3>1
    <3>3. ~ManifestReadable
      BY <3>1, <3>2 DEF CalmRun, Calm, CalmWorker, BeforePc, WritePc
    <3> QED
      BY <2>1, <3>1, <3>2, <3>3
  <2> QED
    BY <2>2, <2>3
<1>16. ASSUME NEW w \in Workers, FinishCkpt(w) PROVE OkStays'
  BY <1>16 DEF FinishCkpt
<1>17. ASSUME NEW w \in Workers, FinishJob(w) PROVE OkStays'
  BY <1>17 DEF FinishJob, SetJob, Landed
<1>18. ASSUME NEW w \in Workers, Exit(w) PROVE OkStays'
  BY <1>18 DEF Exit
<1>19. ASSUME NEW w \in Workers, Fail(w) PROVE OkStays'
  BY <1>19 DEF Fail, SetJob, Landed
<1>20. ASSUME NEW w \in Workers, Crash(w) PROVE OkStays'
  BY <1>20 DEF Crash
<1>21. CASE RawChange \/ Rediscover
  BY <1>21 DEF RawChange, Rediscover
<1>22. CASE UNCHANGED vars
  BY <1>22 DEF vars
<1> QED
  BY <1>1, <1>2, <1>3, <1>4, <1>5, <1>6, <1>7, <1>8, <1>9, <1>10, <1>11,
     <1>12, <1>13, <1>14, <1>15, <1>16, <1>17, <1>18, <1>19, <1>20, <1>21, <1>22
     DEF Next, Step, Resume, Upload, Register, Finish

\* upload_dir of the local store takes video_meta last.
LEMMA LastCopied ==
  ASSUME ~Atomic, NEW left \in SUBSET Files, "video_meta" \in NextUploads(left)
  PROVE  left = {"video_meta"}
<1>1. \A g \in left : LocalRank["video_meta"] <= LocalRank[g]
  BY DEF NextUploads
<1>2. "pose" \notin left
  BY <1>1 DEF LocalRank
<1>3. "episode_meta" \notin left
  BY <1>1 DEF LocalRank
<1> QED
  BY <1>2, <1>3 DEF NextUploads, Files

\* The copies land in one order, and a run that finds the last file resumes.
LEMMA StepOrder ==
  ASSUME TypeOK, Staged, Alone, CalmRun, CopyOrder, [Next]_vars PROVE CopyOrder'
<1> USE RunAssumption DEF TypeOK, Gens, Runs, File, Manifest, Ckpt, Run, NoRun, lake, warehouse,
        local, Goto, Stop,
        Computed, Staged, WritePc, CopyOrder, LastIsMissing, Ordered, MetricsReadable, Files
<1>1. ASSUME NEW w \in Workers, Check(w) PROVE CopyOrder'
  <2>1. SUFFICES ASSUME Ordered PROVE CopyOrder'
    OBVIOUS
  <2>2. UNCHANGED <<files, todo>>
    BY <1>1 DEF Check
  <2>3. \/ UNCHANGED <<pc, run>>
        \/ /\ run' = [run EXCEPT ![w] = [id |-> nruns + 1, force |-> FALSE, resume |-> TRUE]]
           /\ pc' = [pc EXCEPT ![w] = "start_job"]
    BY <1>1, <2>1 DEF Check
  <2> QED
    BY <2>1, <2>2, <2>3, SMTT(30)
<1>2. ASSUME NEW w \in Workers, StartJob(w) PROVE CopyOrder'
  BY <1>2, SMTT(30) DEF StartJob, SetJob, Landed
<1>3. ASSUME NEW w \in Workers, TryResume(w) PROVE CopyOrder'
  <2>1. SUFFICES ASSUME Ordered PROVE CopyOrder'
    OBVIOUS
  <2>2. UNCHANGED <<files, todo, run>>
    BY <1>3 DEF TryResume
  <2>3. CASE AllOutputsPresent /\ MetricsReadable
    BY <1>3, <2>1, <2>2, <2>3 DEF TryResume
  <2>4. CASE ~(AllOutputsPresent /\ MetricsReadable)
    <3>1. LastIsMissing
      BY <2>1, <2>4 DEF AllOutputsPresent
    <3>2. pc[w] = "try_resume" /\ Goto(w, "fresh")
      BY <1>3, <2>4 DEF TryResume
    <3> QED
      BY <2>1, <2>2, <3>1, <3>2
  <2> QED
    BY <2>3, <2>4
<1>4. ASSUME NEW w \in Workers, ResumeManifest(w) PROVE CopyOrder'
  BY <1>4 DEF ResumeManifest, WriteManifest
<1>5. ASSUME NEW w \in Workers, ResumeCkpt(w) PROVE CopyOrder'
  BY <1>5 DEF ResumeCkpt
<1>6. ASSUME NEW w \in Workers, ResumeJob(w) PROVE CopyOrder'
  BY <1>6 DEF ResumeJob, SetJob, Landed
<1>7. ASSUME NEW w \in Workers, BeginFresh(w) PROVE CopyOrder'
  BY <1>7 DEF BeginFresh
<1>8. ASSUME NEW w \in Workers, Load(w) PROVE CopyOrder'
  BY <1>8 DEF Load
<1>9. ASSUME NEW w \in Workers, PutFile(w) PROVE CopyOrder'
  BY <1>9 DEF PutFile, NextUploads
<1>10. ASSUME NEW w \in Workers, BeginCopy(w) PROVE CopyOrder'
  <2>1. SUFFICES ASSUME Ordered PROVE CopyOrder'
    OBVIOUS
  <2>2. pc[w] = "upload" /\ pc' = [pc EXCEPT ![w] = "copying"] /\ UNCHANGED <<run, gen>>
    BY <1>10 DEF BeginCopy
  <2>3. Calm /\ \A v \in Workers \ {w} : pc[v] = "idle" /\ pc'[v] = "idle"
    BY <2>1, <2>2 DEF Alone, Calm
  <2>4. gen[w] # 0 /\ \A f \in Files \ todo[w] : files[f] = Computed(gen[w])
    BY <2>2, <2>3 DEF CalmRun, CalmWorker
  <2>5. PICK f \in NextUploads(todo[w]) :
          files' = [files EXCEPT ![f] = [gen |-> gen[w], whole |-> FALSE]]
    BY <1>10 DEF BeginCopy
  <2>6. todo' = todo
    BY <1>10 DEF BeginCopy
  <2>7. CASE f = "video_meta"
    <3>1. todo[w] = {"video_meta"}
      BY <2>1, <2>5, <2>7, LastCopied
    <3>2. MetricsReadable' /\ \A g \in Files : files'[g].gen = gen[w]
      BY <2>4, <2>5, <2>7, <3>1
    <3> QED
      BY <2>1, <2>2, <2>3, <2>6, <3>1, <3>2, SMTT(30)
  <2>8. CASE f # "video_meta"
    <3>1. LastIsMissing
      BY <2>1, <2>2, <2>5 DEF NextUploads
    <3>2. LastIsMissing'
      BY <2>5, <2>8, <3>1 DEF NextUploads
    <3> QED
      BY <2>1, <2>2, <2>3, <2>6, <3>2
  <2> QED
    BY <2>7, <2>8
<1>11. ASSUME NEW w \in Workers, EndCopy(w) PROVE CopyOrder'
  <2>1. SUFFICES ASSUME Ordered PROVE CopyOrder'
    OBVIOUS
  <2>2. pc[w] = "copying" /\ pc' = [pc EXCEPT ![w] = "upload"] /\ UNCHANGED <<run, gen>>
    BY <1>11 DEF EndCopy
  <2>3. Calm /\ \A v \in Workers \ {w} : pc[v] = "idle" /\ pc'[v] = "idle"
    BY <2>1, <2>2 DEF Alone, Calm
  <2>4. gen[w] # 0 /\ \A f \in Files \ todo[w] : files[f] = Computed(gen[w])
    BY <2>2, <2>3 DEF CalmRun, CalmWorker
  <2>5. PICK f \in NextUploads(todo[w]) :
          /\ files' = [files EXCEPT ![f] = Computed(gen[w])]
          /\ todo' = [todo EXCEPT ![w] = @ \ {f}]
    BY <1>11 DEF EndCopy
  <2>7. CASE f = "video_meta"
    <3>1. todo[w] = {"video_meta"}
      BY <2>1, <2>5, <2>7, LastCopied
    <3>2. MetricsReadable' /\ \A g \in Files : files'[g].gen = gen[w]
      BY <2>4, <2>5, <2>7, <3>1
    <3>3. todo'[w] = {} /\ pc'[w] = "upload"
      BY <2>2, <2>5, <2>7, <3>1
    <3>4. \A g, h \in Files : files'[g].gen = files'[h].gen
      BY <3>2
    <3> QED
      BY <2>1, <2>2, <2>3, <3>2, <3>3, <3>4
  <2>8. CASE f # "video_meta"
    <3>1. LastIsMissing
      BY <2>1, <2>2, <2>5, <2>8 DEF NextUploads
    <3>2. LastIsMissing'
      BY <2>5, <2>8, <3>1 DEF NextUploads
    <3> QED
      BY <2>1, <2>2, <2>3, <3>2
  <2> QED
    BY <2>7, <2>8
<1>12. ASSUME NEW w \in Workers, UploadDone(w) PROVE CopyOrder'
  BY <1>12 DEF UploadDone
<1>13. ASSUME NEW w \in Workers, RecordAsset(w) PROVE CopyOrder'
  BY <1>13 DEF RecordAsset, NextAssets, Landed
<1>14. ASSUME NEW w \in Workers, RecordVersion(w) PROVE CopyOrder'
  BY <1>14 DEF RecordVersion, Landed
<1>15. ASSUME NEW w \in Workers, FreshManifest(w) PROVE CopyOrder'
  <2>1. /\ pc[w] # "idle" /\ UNCHANGED <<files, run, todo>>
        /\ pc' = [pc EXCEPT ![w] = "manifest_write"] \/ pc' = [pc EXCEPT ![w] = "ckpt_ok"]
    BY <1>15 DEF FreshManifest, WriteManifest
  <2>2. CASE pc' = [pc EXCEPT ![w] = "manifest_write"]
    BY <2>1, <2>2
  <2>3. CASE pc' = [pc EXCEPT ![w] = "ckpt_ok"]
    BY <2>1, <2>3
  <2> QED
    BY <2>1, <2>2, <2>3
<1>16. ASSUME NEW w \in Workers, FinishCkpt(w) PROVE CopyOrder'
  BY <1>16 DEF FinishCkpt
<1>17. ASSUME NEW w \in Workers, FinishJob(w) PROVE CopyOrder'
  BY <1>17, SMTT(30) DEF FinishJob, SetJob, Landed
<1>18. ASSUME NEW w \in Workers, Exit(w) PROVE CopyOrder'
  BY <1>18 DEF Exit
<1>19. ASSUME NEW w \in Workers, Fail(w) PROVE CopyOrder'
  BY <1>19 DEF Fail, SetJob, Landed
<1>20. ASSUME NEW w \in Workers, Crash(w) PROVE CopyOrder'
  BY <1>20 DEF Crash
<1>21. CASE RawChange \/ Rediscover
  BY <1>21 DEF RawChange, Rediscover
<1>22. CASE UNCHANGED vars
  BY <1>22 DEF vars
<1> QED
  BY <1>1, <1>2, <1>3, <1>4, <1>5, <1>6, <1>7, <1>8, <1>9, <1>10, <1>11,
     <1>12, <1>13, <1>14, <1>15, <1>16, <1>17, <1>18, <1>19, <1>20, <1>21, <1>22
     DEF Next, Step, Resume, Upload, Register, Finish

-----------------------------------------------------------------------------
(* The theorems.                                                           *)

LEMMA InitInv == Init => IInv
<1> SUFFICES ASSUME Init PROVE IInv
  OBVIOUS
<1>1. /\ \A w \in Workers : pc[w] = "idle" /\ ~run[w].force
      /\ \A f \in Files : files[f].gen = 0
      /\ manifest.kind = "none"
  BY DEF Init, NoRun, Missing, NoManifest
<1>2. ~ManifestReadable
  BY <1>1 DEF ManifestReadable
<1>3. Staged /\ Alone
  BY <1>1 DEF Init, Staged, WritePc, Alone
<1>4. ObjectsStay
  BY <1>1, <1>2 DEF ObjectsStay
<1>5. CalmRun
  BY <1>1, <1>2 DEF CalmRun, CalmSlice, CalmWorker, BeforePc, WritePc
<1>6. RowsFirst
  BY <1>1 DEF Init, RowsFirst, NoManifest
<1>9. FilesFirst
  BY <1>1 DEF Init, FilesFirst
<1>7. OkStays
  BY <1>1 DEF Init, OkStays, NoCkpt, PastPc
<1>8. CopyOrder
  BY <1>1 DEF CopyOrder, LastIsMissing, Files
<1> QED
  BY <1>3, <1>4, <1>5, <1>6, <1>7, <1>8, <1>9, InitType DEF IInv

LEMMA StepInv == IInv /\ [Next]_vars => IInv'
  BY StepType, StepStaged, StepObjects, StepAlone, StepCalm, StepRows, StepFiles, StepOk, StepOrder
     DEF IInv

\* The invariant holds in every reachable state.
THEOREM Invariant == Spec => []IInv
  BY InitInv, StepInv, PTL DEF Spec

\* On the object store a readable manifest lies beside three whole files, for
\* any number of concurrent runs, forced or not, crashing where they like.
THEOREM Complete == Spec => []PublishedComplete
<1>1. IInv => PublishedComplete
  BY DEF IInv, ObjectsStay, PublishedComplete, AllOutputsPresent
<1> QED
  BY <1>1, Invariant, PTL

\* On either store, runs without --force that come one at a time publish
\* readable tables.
THEOREM Readable == Spec => []PublishedReadable
<1>1. IInv => PublishedReadable
  BY DEF IInv, CalmRun, CalmSlice, Calm, MetricsReadable, PublishedReadable
<1> QED
  BY <1>1, Invariant, PTL

\* ... and the checksums of a full manifest stay those of its files.
THEOREM Vouches == Spec => []ManifestVouches
<1>1. IInv => ManifestVouches
  BY DEF IInv, CalmRun, CalmSlice, Calm, ManifestVouches
<1> QED
  BY <1>1, Invariant, PTL

\* Neither PostgreSQL nor the checkpoint is ahead of the lake, and with a
\* warehouse that keeps its writes each file of a full manifest is registered.
THEOREM Told == Spec => []SliceIsTold
<1>1. IInv => FullIsRegistered
  BY DEF IInv, RowsFirst, Registered, FullIsRegistered
<1>2. IInv => OkIsPublished
  BY DEF IInv, OkStays, OkIsPublished
<1>3. IInv => NormalizedIsThere
  BY DEF IInv, RowsFirst, FilesFirst, Registered, AllOutputsPresent, NormalizedIsThere
<1> QED
  BY <1>1, <1>2, <1>3, Invariant, PTL DEF SliceIsTold

\* On the local store a published slice is of one generation of the raw data,
\* though runs died half way while it changed.
THEOREM OneSource == Spec => []OneGeneration
<1>1. IInv => OneGeneration
  <2> SUFFICES ASSUME IInv, Ordered, ManifestReadable
               PROVE  \A f, g \in Files : files[f].gen = files[g].gen
    BY DEF OneGeneration, Ordered
  <2>1. AllOutputsPresent
    BY RunAssumption DEF IInv, CalmRun, CalmSlice, Calm, Ordered
  <2>2. ~LastIsMissing
    BY <2>1 DEF AllOutputsPresent, LastIsMissing, Files
  <2> QED
    BY <2>2 DEF IInv, CopyOrder
<1> QED
  BY <1>1, Invariant, PTL

\* Runs without --force, one at a time, implement the write-once slice: each
\* step of a run publishes an unpublished slice or leaves its content alone.
THEOREM Implementation == ASSUME Calm PROVE Spec => WriteOnce
<1>1. Init => Slice!Init
  BY DEF Init, Slice!Init, Content, ManifestReadable, NoManifest
<1>2. ASSUME IInv, IInv', [Next]_vars PROVE [Slice!Publish]_Content
  <2>1. CASE ManifestReadable
    <3>1. UNCHANGED <<files, manifest>>
      <4>1. \A w \in Workers : pc[w] \notin BeforePc
        BY <1>2, <2>1 DEF IInv, CalmRun, CalmWorker
      <4> QED
        BY <1>2, <4>1
           DEF Next, Check, Step, StartJob, Resume, TryResume, ResumeManifest,
               WriteManifest, ResumeCkpt, ResumeJob, BeginFresh, Load, Upload,
               PutFile, BeginCopy, EndCopy, UploadDone, Register, RecordAsset,
               RecordVersion, Finish, FreshManifest, FinishCkpt, FinishJob, Exit,
               Fail, Crash, RawChange, Rediscover, vars, lake, BeforePc, WritePc
    <3> QED
      BY <3>1 DEF Content, ManifestReadable
  <2>2. CASE ~ManifestReadable /\ ~ManifestReadable'
    BY <2>2 DEF Content
  <2>3. CASE ~ManifestReadable /\ ManifestReadable'
    <3>1. Content = [f \in Files |-> Missing] /\ Content' = files'
      BY <2>3 DEF Content
    <3>2. \A f \in Files : files'[f].gen # 0
      BY <1>2, <2>3 DEF IInv, CalmRun, CalmSlice, AllOutputsPresent, Calm
    <3>3. files' \in [Files -> [gen: Gens, whole: BOOLEAN]]
      BY <1>2, <3>2, RunAssumption DEF IInv, TypeOK, File, Gens
    <3> QED
      BY <3>1, <3>3 DEF Slice!Publish
  <2> QED
    BY <2>1, <2>2, <2>3
<1> QED
  BY <1>1, <1>2, Invariant, PTL DEF Spec, WriteOnce, Slice!Spec
=============================================================================
