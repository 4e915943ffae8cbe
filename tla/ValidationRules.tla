-------------------------- MODULE ValidationRules --------------------------
(***************************************************************************)
(* What a validation makes of a recording: the loader, the seven           *)
(* validators, the report's status and the gate.                           *)
(*                                                                         *)
(* A recording is abstracted to what the numeric code finds in it: its     *)
(* form, and the quantities that are compared with a limit (press points   *)
(* found by the peak search, the smallest cluster and the silhouette of    *)
(* the clustering, ...), in whole units: hundredths of a silhouette,       *)
(* percent outside, tenths of m/s.  None stands for a missing metric.      *)
(***************************************************************************)
EXTENDS Integers, Sequences, FiniteSets

CONSTANTS
  Limits,   \* configs/default.yaml: [samples, speed, fewest, most, buttons, points, silhouette,
            \* outside, outsideFails]
  Policy    \* configs/gate_policy.yaml: the rules [metric, low, high, severity]

None == -1

-----------------------------------------------------------------------------
(* DatasetLoader.load raises on anything else: poses [N, 7], [7, N] or one *)
(* pose, finite, and a video, if there is one, whose frames can be counted.*)

Pose(r) == r.shape \in {"N,7", "7,N", "7"} /\ r.finite
Timed(r) == r.video # "broken" /\ r.samples > 0
Loadable(r) == Pose(r) /\ Timed(r)

-----------------------------------------------------------------------------
(* The validators, in their order; the later ones read what the earlier    *)
(* ones left in the shared state.                                          *)

Schema(r) == IF r.samples < Limits.samples THEN "FAIL" ELSE "PASS"
Quaternion(r) == IF r.unit THEN "PASS" ELSE "FAIL"
EulerStability(r) == IF r.steady THEN "PASS" ELSE "FAIL"

Speed(r) == IF r.samples < 2 THEN 0 ELSE r.speed
VelocityJump(r) == IF Speed(r) <= Limits.speed THEN "PASS" ELSE "FAIL"

\* The window of the smoothing filter: odd, longer than the polynomial, 0 for no smoothing.
Window(length, preferred, polyorder) ==
  LET shorter == IF length < preferred THEN length ELSE preferred
      odd == IF shorter % 2 = 0 THEN shorter - 1 ELSE shorter
      window == IF odd > polyorder THEN odd
                ELSE IF (polyorder + 2) % 2 = 1 THEN polyorder + 2 ELSE polyorder + 3
  IN  IF window >= 5 /\ window <= length THEN window ELSE 0

\* expected: meta.yaml's num_presses, or None.
PressEvent(r) ==
  IF r.presses \notin Limits.fewest .. Limits.most THEN "FAIL"
  ELSE IF r.expected \notin {None, r.presses} THEN "WARN" ELSE "PASS"

\* press_event leaves the press points, xy_cluster the centers, if it has enough of them.
Clustered(r) == r.presses >= Limits.buttons
Silhouette(r) == IF r.presses > Limits.buttons THEN r.silhouette ELSE None
XYCluster(r) ==
  CASE ~Clustered(r) \/ r.smallest < Limits.points -> "FAIL"
    [] OTHER -> IF Silhouette(r) = None THEN "WARN"
                ELSE IF Silhouette(r) < Limits.silhouette THEN "FAIL" ELSE "PASS"

WorkspaceBBox(r) ==
  CASE ~Clustered(r) -> "FAIL"
    [] Clustered(r) /\ r.outside > Limits.outside -> IF Limits.outsideFails THEN "FAIL" ELSE "WARN"
    [] OTHER -> "PASS"

-----------------------------------------------------------------------------
(* The report and the gate.                                                *)

Worst(statuses) ==
  IF "FAIL" \in statuses THEN "FAIL" ELSE IF "WARN" \in statuses THEN "WARN" ELSE "PASS"

ReportStatus(r) ==
  Worst({Schema(r), Quaternion(r), EulerStability(r), VelocityJump(r), PressEvent(r),
         XYCluster(r), WorkspaceBBox(r)})

\* _aggregate_metrics, of the metrics that rules are about; a quaternion error within the
\* tolerance counts as 0.
Metrics(r) ==
  [quat_max_norm_error |-> IF r.unit THEN 0 ELSE 1,
   max_velocity_mps |-> Speed(r),
   detected_press_count |-> r.presses,
   cluster_silhouette |-> Silhouette(r),
   outside_ratio |-> IF Clustered(r) THEN r.outside ELSE 100]

\* A metric that is missing breaks its rule.
RulePassed(rule, r) == Metrics(r)[rule.metric] # None /\ Metrics(r)[rule.metric] \in rule.low .. rule.high

\* evaluate_gate, when a policy is given.
GateStatus(policy, r) ==
  IF ~policy THEN "SKIP"
  ELSE Worst({IF rule.severity = "fail" THEN "FAIL" ELSE "WARN" : rule \in {p \in Policy : ~RulePassed(p, r)}})
=============================================================================
