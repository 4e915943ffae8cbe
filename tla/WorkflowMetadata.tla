-------------------------- MODULE WorkflowMetadata --------------------------
(***************************************************************************)
(* The programs that write metadata, as the order of their writes, and the *)
(* records of an Argo workflow: `argo sync` and `argo logs index`, run by  *)
(* the last tasks of the workflow itself and by an operator.               *)
(*                                                                         *)
(* Argo is the environment: it starts a task when the ones it depends on   *)
(* have succeeded, ends the workflow, and runs failed tasks again on       *)
(* `argo retry`.                                                           *)
(***************************************************************************)
EXTENDS MetadataStore

CONSTANTS
  Pod,         \* the client that runs the tasks of the workflow
  MaxRetries,  \* bound: `argo retry`
  MaxSyncs,    \* bound: `argo sync` and `argo logs index` by an operator
  MaxFlips,    \* bound: times the database goes away or comes back
  MaxDeaths    \* bound: clients that die

ASSUME WorkflowAssumption == Pod \in Clients

VARIABLES
  wf,          \* the workflow as kubectl shows it: its phase and those of its nodes
  program,     \* the program each client runs
  fetched,     \* the workflow a client has fetched, while no other has started since
  agreed,      \* the workflow as of the last undisturbed sync that stored everything
  retries, syncs, flips, deaths

wfVars == <<wf, fetched, agreed, retries, syncs>>
metaVars == <<storeVars, wfVars, program, flips, deaths>>

-----------------------------------------------------------------------------
(* Programs: the writes of a process, in the order it makes them; c tells  *)
(* processes apart in what they write.                                     *)

NormalizeWrites(c) ==
  <<RecordEtlJobStart(c), RecordLakeAsset("ods/pose", c), RecordLakeAsset("ods/video", c),
    RecordLineageEdge("raw", "ods"), UpsertDatasetVersion("ds", "v1", c, "normalized"),
    RecordEtlJobFinish(c, "OK", Null, {"rows_out"})>>

AdsWrites(c) ==
  <<RecordEtlJobStart(c), RecordLakeAsset("ads/summary", c), RecordLineageEdge("dwd", "ads"),
    RecordQualitySnapshot("ds", "v1", "PASS"), RecordEtlJobFinish(c, "OK", Null, {"rows_out"})>>

\* A failed feature build: the version is not touched.
FailedFeatures(c) ==
  <<RecordEtlJobStart(c), RecordEtlJobFinish(c, "FAIL", "error", {})>>

ShardWrites(c, status) ==
  <<RecordRuntimeEvent(c, "etl_shard_started"),
    RecordEtlShard("plan", "shard-0", "RUNNING", Null, Null, {}),
    RecordEtlShard("plan", "shard-0", status, c, "yes", {"total"}),
    RecordRuntimeEvent(c, "etl_shard_finished")>>

BenchmarkWrites(c) ==
  <<RecordRuntimeEvent(c, "benchmark_started"),
    RecordBenchmarkCase(c, "case-1", "PASS", Null), RecordBenchmarkCase(c, "case-2", "ERROR", "error"),
    RecordBenchmarkRun(c, "2", "FAIL")>>

ContractWrites(c, status) ==
  <<UpsertQcContract("contract", c), RecordQcContractRun(c, status, "rules"),
    RecordAssetProfile("profile", status, c)>>

ProfileWrites(c) == <<RecordAssetProfile("profile", "OK", c)>>

MlReadyWrites(c) == <<RecordMlReadyDataset("ml-ready", c, {"rows"})>>

PlanWrites(c) == <<RecordDatasetPartition("p000", "PLANNED", "raw", {"samples"}),
                   RecordDatasetPartition("p001", "PLANNED", "raw", {"samples"})>>

\* normalize_dataset is between the two; when it raises, the second write is never made.
PartitionWrites(c) ==
  <<RecordDatasetPartition("p000", "RUNNING", "raw", {}),
    RecordTaskHeartbeat(c, "normalize", "phase_start"), RecordTaskHeartbeat(c, "normalize", "phase_finish"),
    RecordDatasetPartition("p000", "OK", "ods", {"manifest_uri"})>>

Programs(c) ==
  {NormalizeWrites(c), AdsWrites(c), FailedFeatures(c), ShardWrites(c, "OK"), ShardWrites(c, "FAIL"),
   BenchmarkWrites(c), ContractWrites(c, "PASS"), ProfileWrites(c), MlReadyWrites(c),
   PlanWrites(c), PartitionWrites(c)}

-----------------------------------------------------------------------------
(* The workflow.                                                           *)

Tasks == {"work", "argo-sync", "archive-logs-index"}
Nodes == Tasks \cup {"main"}      \* "main" is the DAG
\* The tail of the DAG: everything before `argo-sync` is one task, "work".
Needs(t) == IF t = "work" THEN {} ELSE IF t = "argo-sync" THEN {"work"} ELSE {"argo-sync"}

Absent == "absent"
Ended(w) == w.phase \in {"Succeeded", "Failed"}
Over(phase) == IF phase \in {"Succeeded", "Failed"} THEN "yes" ELSE Null

\* The message of a node is that of its failure.
MessageOf(phase) == IF phase = "Failed" THEN "error" ELSE Null

TaskStarts(t) ==
  /\ ~Ended(wf) /\ wf.nodes[t] = Absent
  /\ \A u \in Needs(t) : wf.nodes[u] = "Succeeded"
  /\ wf' = [wf EXCEPT !.nodes[t] = "Running", !.nodes["main"] = "Running", !.phase = "Running"]
  /\ UNCHANGED <<storeVars, program, fetched, agreed, retries, syncs, flips, deaths>>

\* A task succeeds or fails; with a failure, or with its last task, the workflow ends.
Ends(t, phase) ==
  LET end == IF phase = "Failed" THEN "Failed"
             ELSE IF t = "archive-logs-index" THEN "Succeeded" ELSE "Running"
  IN  wf' = [wf EXCEPT !.nodes[t] = phase, !.nodes["main"] = end, !.phase = end]

WorkEnds ==
  /\ wf.nodes["work"] = "Running"
  /\ \E phase \in {"Succeeded", "Failed"} : Ends("work", phase)
  /\ UNCHANGED <<storeVars, program, fetched, agreed, retries, syncs, flips, deaths>>

\* argo retry: the failed nodes are removed and run again.
WorkflowRetry ==
  /\ wf.phase = "Failed" /\ retries < MaxRetries
  /\ retries' = retries + 1
  /\ wf' = [phase |-> "Running",
            nodes |-> [n \in Nodes |-> IF n = "main" THEN "Running"
                                       ELSE IF wf.nodes[n] = "Failed" THEN Absent ELSE wf.nodes[n]]]
  /\ UNCHANGED <<storeVars, program, fetched, agreed, syncs, flips, deaths>>

-----------------------------------------------------------------------------
(* `argo sync`, `argo logs index`.                                         *)

\* parse_workflow_json: the run, then every Pod, DAG and Steps node.
StepWrite(w, n) ==
  UpsertWorkflowStep("robot-dh", "wf", n, w.nodes[n], Over(w.nodes[n]), MessageOf(w.nodes[n]), {"node_id", "type"})
Among(w, names) == FlattenSeq([k \in DOMAIN names |-> IF w.nodes[names[k]] # Absent THEN <<names[k]>> ELSE <<>>])
Shown(w) == Among(w, <<"main", "work", "argo-sync", "archive-logs-index">>)

SyncWrites(w) ==
  <<UpsertWorkflowRun("robot-dh", "wf", w.phase, Over(w.phase))>>
    \o [k \in DOMAIN Shown(w) |-> StepWrite(w, Shown(w)[k])]

\* build_log_records: the archive uri goes into the metrics of the Pod nodes.
IndexWrites(w) ==
  LET pods == Among(w, <<"work", "argo-sync", "archive-logs-index">>)
  IN  [k \in DOMAIN pods |->
         UpsertWorkflowStep("robot-dh", "wf", pods[k], w.nodes[pods[k]], Over(w.nodes[pods[k]]),
                            MessageOf(w.nodes[pods[k]]), {"node_id", "node_type", "archive_log_uri"})]

Unknown == [phase |-> Absent]
Undisturbed(c) == \A d \in Clients \ {c} : program[d] = "none"

Fetch(c, name) ==
  /\ Launch(c, IF name = "sync" THEN SyncWrites(wf) ELSE IndexWrites(wf))
  /\ program' = [program EXCEPT ![c] = name]
  /\ fetched' = [d \in Clients |-> IF d = c /\ Undisturbed(c) THEN wf ELSE Unknown]
  /\ agreed' = Unknown
  /\ UNCHANGED <<wf, retries, flips, deaths>>

\* The task of the workflow; only one pod runs at a time.
PodFetches(t) ==
  /\ t # "work" /\ wf.nodes[t] = "Running" /\ program[Pod] = "none"
  /\ Fetch(Pod, IF t = "argo-sync" THEN "sync" ELSE "index")
  /\ UNCHANGED syncs

OperatorFetches(c, name) ==
  /\ c # Pod /\ program[c] = "none" /\ syncs < MaxSyncs
  /\ wf.phase # Absent
  /\ Fetch(c, name)
  /\ syncs' = syncs + 1

\* The command ends with status 0 whatever its writes returned.
Reports(c) ==
  /\ program[c] \in {"sync", "index"} /\ ~Busy(c)
  /\ program' = [program EXCEPT ![c] = "none"]
  /\ fetched' = [fetched EXCEPT ![c] = Unknown]
  /\ agreed' = IF program[c] = "sync" /\ missed[c] = 0 /\ fetched[c] = wf THEN wf ELSE agreed
  /\ stored' = [stored EXCEPT ![c] = <<>>] /\ missed' = [missed EXCEPT ![c] = 0]
  /\ IF c = Pod THEN Ends(IF program[c] = "sync" THEN "argo-sync" ELSE "archive-logs-index", "Succeeded")
     ELSE UNCHANGED wf
  /\ UNCHANGED <<rows, todo, seen, online, retries, syncs, flips, deaths>>

-----------------------------------------------------------------------------
(* Two behaviours: one program per client, and the life of a workflow.     *)

\* A program is run once by a client.
RunsProgram(c) ==
  /\ program[c] = "none"
  /\ \E p \in Programs(c) : Launch(c, p)
  /\ program' = [program EXCEPT ![c] = "writes"]
  /\ UNCHANGED <<wfVars, flips, deaths>>

Writes(c) == (Look(c) \/ Commit(c)) /\ UNCHANGED <<wfVars, program, flips, deaths>>

\* The process dies or raises; a pod that dies fails its task.
Dies(c) ==
  /\ deaths < MaxDeaths
  /\ deaths' = deaths + 1
  /\ Abandon(c)
  /\ program' = [program EXCEPT ![c] = IF @ = "writes" THEN @ ELSE "none"]
  /\ fetched' = [fetched EXCEPT ![c] = Unknown]
  /\ IF c = Pod /\ program[c] # "writes"
     THEN Ends(IF program[c] = "sync" THEN "argo-sync" ELSE "archive-logs-index", "Failed")
     ELSE UNCHANGED wf
  /\ UNCHANGED <<agreed, retries, syncs, flips>>

Flips == /\ flips < MaxFlips /\ flips' = flips + 1
         /\ DatabaseFlips /\ UNCHANGED <<wfVars, program, deaths>>

MetaInit ==
  /\ StoreInit
  /\ program = [c \in Clients |-> "none"]
  /\ wf = [phase |-> Absent, nodes |-> [n \in Nodes |-> Absent]]
  /\ fetched = [c \in Clients |-> Unknown] /\ agreed = Unknown
  /\ retries = 0 /\ syncs = 0 /\ flips = 0 /\ deaths = 0

ProgramsNext == Flips \/ \E c \in Clients : RunsProgram(c) \/ Writes(c) \/ Dies(c)

WorkflowNext ==
  \/ \E t \in Tasks : TaskStarts(t) \/ PodFetches(t)
  \/ WorkEnds \/ WorkflowRetry
  \/ \E c \in Clients, name \in {"sync", "index"} : OperatorFetches(c, name)
  \/ \E c \in Clients : Writes(c) \/ Reports(c) \/ Dies(c)
  \/ Flips

ProgramsSpec == MetaInit /\ [][ProgramsNext]_metaVars
WorkflowSpec == MetaInit /\ [][WorkflowNext]_metaVars

-----------------------------------------------------------------------------
(* Properties.                                                             *)

\* What list_workflow_runs and list_workflow_steps show.
StatusIn(table, key, phase) ==
  \E row \in ToSet(Listing(table, 100, {key})) : row.cols["status"] = phase

\* After a sync that stored everything and met no other, the tables say of the workflow
\* and of each of its nodes what kubectl says, also after a retry (sync_workflow).
SyncIsTrue ==
  agreed = wf /\ wf.phase # Absent =>
    /\ StatusIn(WorkflowRuns, <<"robot-dh", "wf">>, wf.phase)
    /\ \A n \in Nodes : wf.nodes[n] # Absent =>
         StatusIn(WorkflowSteps, <<"robot-dh", "wf", n>>, wf.nodes[n])

\* A write that returned an id stays: unless the same program writes the column again,
\* the row has its value, or the value of a write of another program to that column; it
\* never goes back to what the row held before (the UPDATE of a session that read the row
\* earlier names only the columns it changed).
StoredMeansThere ==
  wf.phase = Absent =>
  \A c \in Clients : \A k \in DOMAIN stored[c] :
    LET op == stored[c][k]
        later == {stored[c][j] : j \in k + 1 .. Len(stored[c])}
        others == UNION {ToSet(stored[d]) : d \in Clients \ {c}}
    IN  \A col \in Columns :
          Cares(op, col) /\ (\A o \in later : ~(SameRow(o, op) /\ Cares(o, col)))
            => \E i \in RowsOf(op.table, op.key) :
                 \/ rows[i].cols[col] = Meant(op, col)
                 \/ \E o \in others : SameRow(o, op) /\ Cares(o, col) /\ rows[i].cols[col] = Meant(o, col)

\* What a program has stored is in the tables once, however the sessions of two interleave.
TablesHold == OneRowPerKey /\ StoredMeansThere
=============================================================================
