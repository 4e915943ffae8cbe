--------------------------- MODULE MCServicesLive ---------------------------
(***************************************************************************)
(* One instance for the services with a liveness property that share no    *)
(* state: the pending perf records, the registry scan and the exporter.    *)
(* A behaviour is that of one of them, "service"; the others keep still.   *)
(***************************************************************************)
EXTENDS PerfPending, RegistryScan, Exporter

VARIABLE service

liveVars == <<service, vars, scanVars, exporterVars>>

\* The step runs normalize and build_features.
CONSTANTS e1, n1, f1
MCBatch == e1 :> <<n1, f1>>

MCFamilies == <<"datasets", "etl_jobs", "sla_checks">>

\* The default limits of the validators, speeds in tenths of m/s, shares in percent; the
\* policy asks for a better silhouette than the validator.
MCLimits == [samples |-> 10, speed |-> 20, fewest |-> 5, most |-> 100, buttons |-> 5, points |-> 2,
             silhouette |-> 70, outside |-> 10, outsideFails |-> FALSE]
MCPolicy ==
  {[metric |-> "quat_max_norm_error", low |-> 0, high |-> 0, severity |-> "fail"],
   [metric |-> "max_velocity_mps", low |-> 0, high |-> 20, severity |-> "fail"],
   [metric |-> "cluster_silhouette", low |-> 80, high |-> 100, severity |-> "fail"],
   [metric |-> "detected_press_count", low |-> 20, high |-> 30, severity |-> "warn"]}

\* A recording the gate warns of, one of the next version that only the gate fails, and
\* one that cannot be loaded.
MCDirs == <<"a", "b">>
Plain == [version |-> "v1", shape |-> "N,7", finite |-> TRUE, video |-> "none", samples |-> 500,
          unit |-> TRUE, steady |-> TRUE, speed |-> 9, presses |-> 15, expected |-> None,
          smallest |-> 3, silhouette |-> 85, outside |-> 4]
Broken == [Plain EXCEPT !.shape = "7,7,7"]
MCContents == {Plain, [Plain EXCEPT !.version = "v2", !.silhouette = 75, !.outside = 20], Broken}

-----------------------------------------------------------------------------
(* A service that keeps still is in one initial state.                     *)

PerfStill == db = "ok" /\ Init
ExporterStill == answers = TRUE /\ ExporterInit

LiveInit ==
  /\ service \in {"perf", "scan", "exporter"}
  /\ IF service = "perf" THEN Init ELSE PerfStill
  /\ content = [d \in ToSet(MCDirs) |-> IF service = "scan" THEN Plain ELSE Broken] /\ ScanInit
  /\ IF service = "exporter" THEN ExporterInit ELSE ExporterStill

InPerf == service = "perf" /\ UNCHANGED <<service, scanVars, exporterVars>>
InScan == service = "scan" /\ UNCHANGED <<service, vars, exporterVars>>
InExporter == service = "exporter" /\ UNCHANGED <<service, vars, scanVars>>

Perf == InPerf /\ Next
Scans == InScan /\ ScanNext
Exporting == InExporter /\ ExporterNext

LiveNext == Perf \/ Scans \/ Exporting

\* The fairness of FairSpec, ScanSpec and ExporterSpec.
LiveSpec ==
  /\ LiveInit /\ [][LiveNext]_liveVars
  /\ \A e \in Emitters : WF_liveVars(InPerf /\ Emit(e))
  /\ \A p \in Reingests : WF_liveVars(InPerf /\ List(p)) /\ WF_liveVars(InPerf /\ Handle(p))
  /\ WF_liveVars(InScan /\ Scan)
  /\ WF_liveVars(InExporter /\ Exports) /\ WF_liveVars(InExporter /\ Minute)
=============================================================================
