---------------------------- MODULE RegistryScan ----------------------------
(***************************************************************************)
(* Validation runs and the registry: `validate`, `scan`, `gate`, `compare`.*)
(*                                                                         *)
(* A validation loads a dataset, grades it, evaluates the gate, stores     *)
(* report and artifacts, and registers dataset and run in two              *)
(* transactions.  Run ids are made of the second of the clock, and a run   *)
(* that is registered under an id replaces the run that had it.  The cron  *)
(* job scans all datasets with --only-new; nothing that a validation       *)
(* raises is caught, so the first one ends the scan.                       *)
(***************************************************************************)
EXTENDS ValidationRules, SequencesExt

CONSTANTS
  Dirs,          \* the dataset directories, in the order of their names; the names stand
                 \* for the dataset ids too: no two directories hold one dataset
  Contents,      \* what a directory may hold: recordings with their version
  MaxSeconds,    \* bound: the clock
  MaxUploads,    \* bound: changes of the data
  MaxRequests,   \* bound: `validate` commands and API requests
  MaxRaises      \* bound: transient failures and kills

ASSUME ScanAssumption ==
  /\ MaxSeconds \in Nat /\ MaxUploads \in Nat /\ MaxRequests \in Nat /\ MaxRaises \in Nat

VARIABLES
  second,     \* the clock
  content,    \* what each directory holds
  datasets,   \* the registry's datasets: [id, version, status, run]
  recorded,   \* its runs: [run, id, version, status]
  scanAt,     \* "cron" and "client": where each is: idle, peek, load, dataset, run, write
  left,       \* the directories each still has to look at
  bundle,     \* the validation under way: [run, id, version, report, gate]
  summary,    \* the entries of the scan's summary
  passed,     \* dataset versions that a validation has found good
  uploads, requests, raises

scanVars == <<second, content, datasets, recorded, scanAt, left, bundle, summary, passed,
              uploads, requests, raises>>

Validators == {"cron", "client"}
NoBundle == [run |-> <<>>]

-----------------------------------------------------------------------------
(* Decisions.                                                              *)

ReportOnly(report, gate) == report                                    \* mutant
\* record_validation_run and scan: the gate can only make the report's status worse.
Combined(report, gate) ==
  IF gate = "FAIL" THEN "FAIL" ELSE IF gate = "WARN" /\ report # "FAIL" THEN "WARN" ELSE report

-----------------------------------------------------------------------------
(* The registry.                                                           *)

LastStatus(id, version) ==                                            \* mutant
  \E d \in datasets : d.id = id /\ d.version = version /\ d.status \in {"PASS", "WARN"}
HasSuccessfulRun(id, version) ==
  \E r \in recorded : r.id = id /\ r.version = version /\ r.status \in {"PASS", "WARN"}

\* The row of the key gets the values, or is inserted.
UpsertDataset(id, version, status, run) ==
  datasets' = {d \in datasets : <<d.id, d.version>> # <<id, version>>}
                \cup {[id |-> id, version |-> version, status |-> status, run |-> run]}

\* update of a dataset that is there
UpdateLastRun(id, version, status, run) ==
  datasets' = {IF <<d.id, d.version>> = <<id, version>> THEN [d EXCEPT !.status = status, !.run = run]
               ELSE d : d \in datasets}

\* _delete_run_related, _create_run_row: what was recorded under the run id goes.
CreateRunRow(b, status) ==
  recorded' = {r \in recorded : r.run # b.run}
                \cup {[run |-> b.run, id |-> b.id, version |-> b.version, status |-> status]}

\* One transaction.
RecordValidationRun(b) ==
  LET status == Combined(b.report, b.gate)
  IN  /\ CreateRunRow(b, status)
      /\ UpdateLastRun(b.id, b.version, status, b.run)

-----------------------------------------------------------------------------
(* A scan, and the validation of one directory.                            *)

ScanGoto(p, place) == scanAt' = [scanAt EXCEPT ![p] = place]

\* discover_datasets
ScanStarts ==
  /\ scanAt["cron"] = "idle"
  /\ left' = [left EXCEPT !["cron"] = Dirs] /\ summary' = {}
  /\ ScanGoto("cron", "peek")
  /\ UNCHANGED <<second, content, datasets, recorded, bundle, passed, uploads, requests, raises>>

\* _peek_dataset_identity, and --only-new
Peek ==
  /\ scanAt["cron"] = "peek" /\ left["cron"] # <<>>
  /\ LET id == Head(left["cron"])
         version == content[id].version
     IN  IF HasSuccessfulRun(id, version)
         THEN /\ summary' = summary \cup {[id |-> id, version |-> version, status |-> "SKIPPED"]}
              /\ left' = [left EXCEPT !["cron"] = Tail(@)]
              /\ UNCHANGED <<scanAt, bundle>>
         ELSE /\ bundle' = [bundle EXCEPT !["cron"] = [run |-> <<"scan", id, second>>, policy |-> TRUE]]
              /\ ScanGoto("cron", "load")
              /\ UNCHANGED <<summary, left>>
  /\ UNCHANGED <<second, content, datasets, recorded, passed, uploads, requests, raises>>

\* run_validation on a request: the run id is the client's, or of the second it started;
\* it may name a policy or none.
Request(k) ==
  /\ scanAt["client"] = "idle" /\ requests < MaxRequests
  /\ requests' = requests + 1
  /\ left' = [left EXCEPT !["client"] = <<Dirs[k]>>]
  /\ \E run \in {<<"given">>, <<"run", second>>}, policy \in BOOLEAN :
       bundle' = [bundle EXCEPT !["client"] = [run |-> run, policy |-> policy]]
  /\ ScanGoto("client", "load")
  /\ UNCHANGED <<second, content, datasets, recorded, summary, passed, uploads, raises>>

\* The validation raises: the process ends there, and so does the whole scan.
Gone(p) ==
  /\ ScanGoto(p, "idle")
  /\ left' = [left EXCEPT ![p] = <<>>] /\ bundle' = [bundle EXCEPT ![p] = NoBundle]
  /\ summary' = IF p = "cron" THEN {} ELSE summary

\* Neither the report nor, with a policy, the gate fails.
Good(c, policy) == ReportStatus(c) # "FAIL" /\ GateStatus(policy, c) # "FAIL"

\* DatasetLoader.load, the validators, the gate, and the report with its artifacts.
Load(p) ==
  LET id == Head(left[p])
      c == content[id]
  IN  /\ scanAt[p] = "load"
      /\ IF ~Loadable(c)
         THEN Gone(p) /\ UNCHANGED passed
         ELSE /\ bundle' = [bundle EXCEPT ![p] =
                   [run |-> bundle[p].run, id |-> id, version |-> c.version,
                    report |-> ReportStatus(c), gate |-> GateStatus(bundle[p].policy, c)]]
              /\ passed' = IF Good(c, bundle[p].policy) THEN passed \cup {<<id, c.version>>} ELSE passed
              /\ ScanGoto(p, "dataset")
              /\ UNCHANGED <<left, summary>>
      /\ UNCHANGED <<second, content, datasets, recorded, uploads, requests, raises>>

\* The first transaction knows the status of the report, not that of the gate.
RegisterDataset(p) ==
  /\ scanAt[p] = "dataset"
  /\ UpsertDataset(bundle[p].id, bundle[p].version, bundle[p].report, bundle[p].run)
  /\ ScanGoto(p, "run")
  /\ UNCHANGED <<second, content, recorded, left, bundle, summary, passed, uploads, requests, raises>>

RegisterRun(p) ==
  /\ scanAt[p] = "run"
  /\ RecordValidationRun(bundle[p])
  /\ ScanGoto(p, "write")
  /\ UNCHANGED <<second, content, left, bundle, summary, passed, uploads, requests, raises>>

\* The report is written and stored once more, now with its row id.
WriteAgain(p) ==
  /\ scanAt[p] = "write"
  /\ bundle' = [bundle EXCEPT ![p] = NoBundle]
  /\ left' = [left EXCEPT ![p] = Tail(@)]
  /\ ScanGoto(p, IF p = "cron" THEN "peek" ELSE "idle")
  /\ summary' = IF p = "client" THEN summary
                ELSE summary \cup {[id |-> bundle[p].id, version |-> bundle[p].version,
                                    status |-> Combined(bundle[p].report, bundle[p].gate)]}
  /\ UNCHANGED <<second, content, datasets, recorded, passed, uploads, requests, raises>>

\* The summary is written and the scan job recorded.
ScanEnds ==
  /\ scanAt["cron"] = "peek" /\ left["cron"] = <<>>
  /\ summary' = {}
  /\ ScanGoto("cron", "idle")
  /\ UNCHANGED <<second, content, datasets, recorded, left, bundle, passed, uploads, requests, raises>>

\* A store, the database or the process fails.
Raises(p) ==
  /\ scanAt[p] # "idle" /\ raises < MaxRaises
  /\ raises' = raises + 1
  /\ Gone(p)
  /\ UNCHANGED <<second, content, datasets, recorded, passed, uploads, requests>>

Upload(k) ==
  /\ uploads < MaxUploads
  /\ uploads' = uploads + 1
  /\ \E c \in Contents \ {content[Dirs[k]]} : content' = [content EXCEPT ![Dirs[k]] = c]
  /\ UNCHANGED <<second, datasets, recorded, scanAt, left, bundle, summary, passed, requests, raises>>

NextSecond ==
  /\ second < MaxSeconds
  /\ second' = second + 1
  /\ UNCHANGED <<content, datasets, recorded, scanAt, left, bundle, summary, passed, uploads, requests, raises>>

ScanInit ==
  /\ second = 0 /\ datasets = {} /\ recorded = {} /\ summary = {} /\ passed = {}
  /\ content \in [ToSet(Dirs) -> Contents]
  /\ scanAt = [p \in Validators |-> "idle"]
  /\ left = [p \in Validators |-> <<>>] /\ bundle = [p \in Validators |-> NoBundle]
  /\ uploads = 0 /\ requests = 0 /\ raises = 0

Validate(p) == Load(p) \/ RegisterDataset(p) \/ RegisterRun(p) \/ WriteAgain(p)
Scan == ScanStarts \/ Peek \/ ScanEnds \/ Validate("cron")

ScanNext ==
  \/ Scan \/ Validate("client") \/ NextSecond
  \/ \E k \in DOMAIN Dirs : Request(k) \/ Upload(k)
  \/ \E p \in Validators : Raises(p)

\* k8s/scan-cronjob.yaml starts a scan every hour and never two at once.
ScanSpec == ScanInit /\ [][ScanNext]_scanVars /\ WF_scanVars(Scan)

-----------------------------------------------------------------------------
(* Properties.                                                             *)

\* A scan leaves a dataset out only if a validation has found that very version good, its
\* report and, where it had a policy, its gate, whichever runs have replaced each other
\* under one run id and whatever was uploaded between the look and the load
\* (has_successful_run, record_validation_run).
SkippedWasEarned ==
  \A e \in summary : e.status = "SKIPPED" => <<e.id, e.version>> \in passed

Sound(k) == Loadable(content[Dirs[k]])
GoodRun(id, version) ==
  \E r \in recorded : r.id = id /\ r.version = version /\ r.status # "FAIL"

\* Every good dataset gets its successful run, whatever clients validate meanwhile and
\* whichever runs they replace, unless a directory of an earlier name cannot be loaded
\* (scan_datasets: the exception ends the scan).
ScanReachesAll ==
  \A k \in DOMAIN Dirs :
    <>[](LET c == content[Dirs[k]]
         IN  (\A j \in 1 .. k : Sound(j)) /\ Good(c, TRUE) => GoodRun(Dirs[k], c.version))
=============================================================================
