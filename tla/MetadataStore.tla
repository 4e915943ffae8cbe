--------------------------- MODULE MetadataStore ---------------------------
(***************************************************************************)
(* The metadata tables and their writers: WarehouseService and             *)
(* PlatformWarehouse.                                                      *)
(*                                                                         *)
(* Every write opens a session, looks for the row of its key, inserts one  *)
(* or changes the columns it was given, and commits; in soft mode a write  *)
(* that fails is a warning and returns None.  Nothing is locked between    *)
(* the SELECT and the commit, so two processes meet only at the unique     *)
(* constraints and at the columns of an UPDATE.                            *)
(*                                                                         *)
(* A row keeps what the properties tell apart: its status, when it ended,  *)
(* a message, everything else that describes it ("detail") and the keys of *)
(* its JSON metrics.                                                       *)
(***************************************************************************)
EXTENDS Integers, Sequences, FiniteSets, SequencesExt

CONSTANTS Clients    \* processes that write metadata

ASSUME MetadataAssumption == IsFiniteSet(Clients)

VARIABLES
  rows,      \* the rows of all tables, in the order they were inserted
  todo,      \* the writes each client still has to make, in order
  seen,      \* the row its SELECT found: [at, row], at = 0 when there is none
  stored,    \* the writes of the program under way that returned an id
  missed,    \* the number of its writes that returned None
  online     \* the database answers

storeVars == <<rows, todo, seen, stored, missed, online>>

Null == "NULL"
Columns == {"status", "ended", "note", "detail"}
Nothing == [at |-> -1]       \* no SELECT yet

-----------------------------------------------------------------------------
(* The tables, with the columns of their unique constraint (<<>>: none).   *)

LakeAssets       == [name |-> "lake_assets", unique |-> <<"uri">>]
EtlJobs          == [name |-> "etl_jobs", unique |-> <<"job_id">>]
LineageEdges     == [name |-> "lineage_edges", unique |-> <<>>]
DatasetVersions  == [name |-> "dataset_versions", unique |-> <<"dataset_id", "version">>]
QualitySnapshots == [name |-> "quality_snapshots", unique |-> <<>>]
EtlShards        == [name |-> "etl_shards", unique |-> <<"plan_id", "shard_id">>]
BenchmarkRuns    == [name |-> "benchmark_runs", unique |-> <<"benchmark_id">>]
BenchmarkCases   == [name |-> "benchmark_cases", unique |-> <<"benchmark_id", "case_id">>]
RuntimeEvents    == [name |-> "runtime_events", unique |-> <<"event_id">>]
ArgoWorkflows    == [name |-> "argo_workflow_runs", unique |-> <<"workflow_name">>]
QcContracts      == [name |-> "qc_contracts", unique |-> <<"contract_id">>]
QcContractRuns   == [name |-> "qc_contract_runs", unique |-> <<"run_id">>]
WorkflowRuns     == [name |-> "workflow_runs", unique |-> <<"workflow_namespace", "workflow_name">>]
WorkflowSteps    == [name |-> "workflow_steps",
                     unique |-> <<"workflow_namespace", "workflow_name", "step_name">>]
AssetProfiles    == [name |-> "asset_profiles", unique |-> <<"profile_id">>]
MlReadyDatasets  == [name |-> "ml_ready_datasets", unique |-> <<"output_uri">>]
Partitions       == [name |-> "dataset_partitions", unique |-> <<"partition_id">>]
Heartbeats       == [name |-> "task_heartbeats", unique |-> <<>>]
OpenLineage      == [name |-> "openlineage_events", unique |-> <<"event_id">>]

-----------------------------------------------------------------------------
(* The write methods.  "set" columns are written whatever their value,     *)
(* "give" columns unless the value is None, "first" columns only by an     *)
(* insert.  Metrics are merged into those of the row, or replace them.     *)

Write(how, table, key, set, give, first, metrics) ==
  [how |-> how, table |-> table, key |-> key, set |-> set, give |-> give, first |-> first,
   metrics |-> metrics]

RecordLakeAsset(uri, size) ==
  Write("replace", LakeAssets, <<uri>>, [detail |-> size], <<>>, <<>>, {})

RecordEtlJobStart(job) ==
  Write("insert", EtlJobs, <<job>>, [status |-> "RUNNING", detail |-> "known"], <<>>, <<>>, {})

RecordEtlJobFinish(job, status, error, metrics) ==
  Write("merge", EtlJobs, <<job>>, [status |-> status, ended |-> "yes", note |-> error],
        <<>>, [detail |-> "unknown"], metrics)

RecordLineageEdge(source, target) ==
  Write("insert", LineageEdges, <<source, target>>, <<>>, <<>>, <<>>, {})

UpsertDatasetVersion(dataset, version, uris, status) ==
  Write("merge", DatasetVersions, <<dataset, version>>, <<>>,
        [status |-> status, detail |-> uris], <<>>, {})

RecordQualitySnapshot(dataset, version, status) ==
  Write("insert", QualitySnapshots, <<dataset, version>>, [status |-> status], <<>>, <<>>, {})

RecordEtlShard(plan, shard, status, summary, ended, metrics) ==
  Write("merge", EtlShards, <<plan, shard>>, [status |-> status],
        [detail |-> summary, ended |-> ended], <<>>, metrics)

RecordBenchmarkRun(bench, total, status) ==
  Write("merge", BenchmarkRuns, <<bench>>, [status |-> status, detail |-> total],
        [ended |-> "yes"], <<>>, {"record_to_registry"})

RecordBenchmarkCase(bench, case, status, error) ==
  Write("insert", BenchmarkCases, <<bench, case>>, [status |-> status, note |-> error], <<>>, <<>>, {})

RecordRuntimeEvent(event, type) ==
  Write("insert", RuntimeEvents, <<event>>, [status |-> type], <<>>, <<>>, {})

RecordArgoWorkflow(workflow, status, ended) ==
  Write("merge", ArgoWorkflows, <<workflow>>, <<>>, [status |-> status, ended |-> ended], <<>>, {})

UpsertQcContract(contract, rules) ==
  Write("replace", QcContracts, <<contract>>, [detail |-> rules], <<>>, <<>>, {})

\* The rules travel in the metrics; a run without a start is given one.
RecordQcContractRun(run, status, failed) ==
  Write("insert", QcContractRuns, <<run>>, [status |-> status, ended |-> "yes", note |-> failed],
        <<>>, <<>>, {"_rule_results"})

RecordAssetProfile(profile, status, hash) ==
  Write("replace", AssetProfiles, <<profile>>, <<>>, [status |-> status, detail |-> hash], <<>>, {})

RecordMlReadyDataset(uri, counts, metrics) ==
  Write("replace", MlReadyDatasets, <<uri>>, <<>>, [status |-> "OK", detail |-> counts], <<>>, metrics)

RecordDatasetPartition(partition, status, uri, metrics) ==
  Write("merge", Partitions, <<partition>>, <<>>, [status |-> status, detail |-> uri], <<>>, metrics)

UpsertWorkflowRun(namespace, workflow, status, ended) ==
  Write("replace", WorkflowRuns, <<namespace, workflow>>, <<>>, [status |-> status, ended |-> ended],
        <<>>, {"nodeCount", "progress"})

UpsertWorkflowStep(namespace, workflow, step, phase, ended, message, metrics) ==
  Write("replace", WorkflowSteps, <<namespace, workflow, step>>, <<>>,
        [status |-> phase, ended |-> ended, note |-> message], <<>>, metrics)

RecordTaskHeartbeat(task, phase, message) ==
  Write("insert", Heartbeats, <<task>>, [status |-> phase, note |-> message], <<>>, <<>>, {})

RecordOpenLineageEvent(event, type) ==
  Write("insert", OpenLineage, <<event>>, [status |-> type], <<>>, <<>>, {})

-----------------------------------------------------------------------------
(* A session.                                                              *)

RowsOf(table, key) == {i \in DOMAIN rows : rows[i].table = table.name /\ rows[i].key = key}

\* INSERT: the unique constraint of the table.
Taken(op) == op.table.unique # <<>> /\ RowsOf(op.table, op.key) # {}

\* A new row: the columns that are given no value are NULL.
Inserted(op) ==
  [table |-> op.table.name, key |-> op.key, metrics |-> op.metrics,
   cols |-> [c \in Columns |-> IF c \in DOMAIN op.set THEN op.set[c]
                               ELSE IF c \in DOMAIN op.give THEN op.give[c]
                               ELSE IF c \in DOMAIN op.first THEN op.first[c]
                               ELSE Null]]

OnlyBlanks(op, row) ==                                                \* mutant
  [row EXCEPT
     !.cols = [c \in Columns |-> IF row.cols[c] # Null THEN row.cols[c]
                                 ELSE IF c \in DOMAIN op.set THEN op.set[c]
                                 ELSE IF c \in DOMAIN op.give THEN op.give[c] ELSE Null],
     !.metrics = @ \cup op.metrics]

\* The attributes of the row object after the assignments of the method.
Assigned(op, row) ==
  [row EXCEPT
     !.cols = [c \in Columns |-> IF c \in DOMAIN op.set THEN op.set[c]
                                 ELSE IF c \in DOMAIN op.give /\ op.give[c] # Null THEN op.give[c]
                                 ELSE row.cols[c]],
     !.metrics = IF op.how = "merge" THEN @ \cup op.metrics
                 ELSE IF op.metrics # {} THEN op.metrics ELSE @]

WholeRow(row, old, new) == new                                        \* mutant
\* UPDATE: only the attributes that differ from what the SELECT found.
Updated(row, old, new) ==
  [row EXCEPT !.cols = [c \in Columns |-> IF new.cols[c] # old.cols[c] THEN new.cols[c] ELSE row.cols[c]],
              !.metrics = IF new.metrics # old.metrics THEN new.metrics ELSE row.metrics]

\* The end of a write: whether it returned an id or, in soft mode, a warning and None.
Returns(c, ok) ==
  /\ todo' = [todo EXCEPT ![c] = Tail(@)]
  /\ seen' = [seen EXCEPT ![c] = Nothing]
  /\ stored' = [stored EXCEPT ![c] = IF ok THEN Append(@, Head(todo[c])) ELSE @]
  /\ missed' = [missed EXCEPT ![c] = IF ok THEN @ ELSE @ + 1]

\* _ensure_..._or_warn and the SELECT (an insert looks for nothing).
Look(c) ==
  /\ todo[c] # <<>> /\ seen[c] = Nothing
  /\ LET op == Head(todo[c])
         found == IF op.how = "insert" THEN {} ELSE RowsOf(op.table, op.key)
     IN  IF ~online
         THEN Returns(c, FALSE) /\ UNCHANGED rows
         ELSE /\ \E i \in IF found = {} THEN {0} ELSE found :
                   seen' = [seen EXCEPT ![c] = IF i = 0 THEN [at |-> 0]
                                               ELSE [at |-> i, row |-> rows[i]]]
              /\ UNCHANGED <<rows, todo, stored, missed>>
  /\ UNCHANGED online

Commit(c) ==
  /\ seen[c] # Nothing
  /\ LET op == Head(todo[c])
         at == seen[c].at
         ok == online /\ (at = 0 => ~Taken(op))
     IN  /\ rows' = IF ~ok THEN rows
                    ELSE IF at = 0 THEN Append(rows, Inserted(op))
                    ELSE [rows EXCEPT ![at] = Updated(@, seen[c].row, Assigned(op, seen[c].row))]
         /\ Returns(c, ok)
  /\ UNCHANGED online

StoreInit ==
  /\ rows = <<>> /\ online = TRUE
  /\ todo = [c \in Clients |-> <<>>] /\ seen = [c \in Clients |-> Nothing]
  /\ stored = [c \in Clients |-> <<>>] /\ missed = [c \in Clients |-> 0]

Busy(c) == todo[c] # <<>>

\* A client starts on the writes of a program.
Launch(c, program) ==
  /\ ~Busy(c)
  /\ todo' = [todo EXCEPT ![c] = program]
  /\ stored' = [stored EXCEPT ![c] = <<>>] /\ missed' = [missed EXCEPT ![c] = 0]
  /\ UNCHANGED <<rows, seen, online>>

\* The process dies, or what it does between two writes raises.
Abandon(c) ==
  /\ Busy(c)
  /\ todo' = [todo EXCEPT ![c] = <<>>] /\ seen' = [seen EXCEPT ![c] = Nothing]
  /\ UNCHANGED <<rows, stored, missed, online>>

DatabaseFlips == online' = ~online /\ UNCHANGED <<rows, todo, seen, stored, missed>>

-----------------------------------------------------------------------------
(* What a reader is given.                                                 *)

\* A listing holds the newest rows of the table whose keys pass the filters, "limit" at most.
Listing(table, limit, keys) ==
  LET newest == Reverse(rows)
      hits == FlattenSeq([k \in DOMAIN newest |->
                            IF newest[k].table = table.name /\ newest[k].key \in keys THEN <<newest[k]>> ELSE <<>>])
  IN  SubSeq(hits, 1, IF Len(hits) < limit THEN Len(hits) ELSE limit)

-----------------------------------------------------------------------------
(* Properties.                                                             *)

\* However the sessions of two processes interleave, a key has one row: both may find
\* none, but the unique constraint of the table turns the second INSERT into a failed
\* write (select-then-insert in WarehouseService and PlatformWarehouse).
OneRowPerKey ==
  \A i, j \in DOMAIN rows :
    i # j /\ rows[i].table = rows[j].table /\ rows[i].key = rows[j].key
      => rows[i].table \in {"lineage_edges", "quality_snapshots", "task_heartbeats"}

\* The columns a write cares about, and the value it means them to have.
Meant(op, col) ==
  IF col \in DOMAIN op.set THEN op.set[col]
  ELSE IF col \in DOMAIN op.give THEN op.give[col] ELSE Null
Cares(op, col) == col \in DOMAIN op.set \/ (col \in DOMAIN op.give /\ op.give[col] # Null)
SameRow(op, other) == op.table = other.table /\ op.key = other.key
=============================================================================
