----------------------------- MODULE MCServices -----------------------------
(***************************************************************************)
(* One instance for the services that share no state: batch inference, the *)
(* metadata tables under their programs and under an Argo workflow, the    *)
(* heartbeats, the download cache, the quality gate and the shard planner. *)
(* A behaviour is that of one of them, "service"; the others keep still.   *)
(***************************************************************************)
EXTENDS RunInference, WorkflowMetadata, Heartbeat, InputCache, MCQualityGate, ShardPlanner

VARIABLE service

serviceVars == <<service, infVars, metaVars, hbVars, cacheVars, gateVars, vars>>

\* The ML-ready directory: three samples of train, one of them without a text, one of val.
Row(e, text) == [episode |-> e, sid |-> <<>>, text |-> text]
MCInput == [train |-> <<Row("e1", "t1"), Row("e2", "t2"), Row("e3", "")>>, val |-> <<Row("e4", "t4")>>]

\* Both tasks normalize.
MCStepOf == [t \in HbTasks |-> "normalize"]

\* The second generation of an object has another size than the first.
MCSizes == <<10, 20>>

-----------------------------------------------------------------------------
(* A part that keeps still is in one initial state.                        *)

HbStill == hbWritable = [t \in HbTasks |-> TRUE] /\ hbDb = TRUE /\ HbInit
PlannerStill == size = [d \in Datasets |-> 0] /\ target = 0 /\ cap = 0 /\ Init

ServicesInit ==
  /\ service \in {"answers", "files", "programs", "workflow", "heartbeat", "cache", "gate", "planner"}
  /\ InfInit /\ MetaInit /\ CacheInit /\ GateInit
  /\ IF service = "heartbeat" THEN HbInit ELSE HbStill
  /\ IF service = "planner" THEN Init ELSE PlannerStill

Inference == service \in {"answers", "files"} /\ InfNext
             /\ UNCHANGED <<service, metaVars, hbVars, cacheVars, gateVars, vars>>
Metadata == \/ service = "programs" /\ ProgramsNext
            \/ service = "workflow" /\ WorkflowNext
Tables == Metadata /\ UNCHANGED <<service, infVars, hbVars, cacheVars, gateVars, vars>>
Heart == service = "heartbeat" /\ HbNext
         /\ UNCHANGED <<service, infVars, metaVars, cacheVars, gateVars, vars>>
Cache == service = "cache" /\ CacheNext
         /\ UNCHANGED <<service, infVars, metaVars, hbVars, gateVars, vars>>
Gate == service = "gate" /\ GateNext
        /\ UNCHANGED <<service, infVars, metaVars, hbVars, cacheVars, vars>>
Planner == service = "planner" /\ Next
           /\ UNCHANGED <<service, infVars, metaVars, hbVars, cacheVars, gateVars>>

ServicesNext == Inference \/ Tables \/ Heart \/ Cache \/ Gate \/ Planner

ServicesSpec == ServicesInit /\ [][ServicesNext]_serviceVars

\* Bounds on batch inference.  "answers": a run of three samples and a retry of what failed,
\* one after the other, with an outage and every order of the answers.  "files": a run
\* that is alone at the output uri, then two of one sample that may overlap there, a death
\* and one build of distillation data.
FewRuns ==
  /\ service = "answers" =>
       /\ shared = {} /\ cuts = 0 /\ build = NoBuild /\ iPc[3] = "idle" /\ iFrom[2] # "train"
       /\ \A r \in Runs : iFrom[r] # "val"
  /\ service = "files" =>
       /\ 1 \notin shared /\ outages = 0 /\ (distilled.rows # 0 => build = NoBuild)
       /\ \A r \in Runs : /\ iFrom[r] \in {"none", "val"} /\ ~iFast[r] /\ iPc[r] # "error"
                         /\ \A b \in DOMAIN iTries[r] : iTries[r][b] = 0

\* Bounds on the gate: exports up to the first that ends, with a change of the lake beside
\* a read that fails or a process that ends; the other --split without any of these.
FewExports ==
  /\ mlManifest = {} /\ (qcLosses = 0 \/ qcCuts = 0)
  /\ taken.ratio = "half" => qcLosses + changes + qcCuts = 0

\* Bounds: one fault around the inference runs and around the tables; two loaders at a time
\* do without losses.
FewFaults ==
  /\ FewRuns /\ FewExports /\ outages + cuts <= 1 /\ flips + deaths <= 1
  /\ crowded # {} => losses = 0
=============================================================================
