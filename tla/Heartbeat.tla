----------------------------- MODULE Heartbeat -----------------------------
(***************************************************************************)
(* Heartbeats of long tasks and the check for stale ones.                  *)
(*                                                                         *)
(* A reporter beats when it is entered, at the steps of the task's phases, *)
(* whenever the task asks for a beat and the interval is over, and when it *)
(* is left; a beat is a line of the local log and a row of task_heartbeats,*)
(* each best effort.  `runtime heartbeat check` reads the log of one       *)
(* directory and grades the latest beat of every (workflow, phase, step).  *)
(***************************************************************************)
EXTENDS Integers, FiniteSets, FiniteSetsExt

CONSTANTS
  HbTasks,     \* tasks with a reporter
  StepOf,      \* the step each task runs (several tasks may run one step)
  HbPhases,    \* number of phases of a task
  Interval,    \* interval_sec
  WarnAfter,   \* --warn-after-sec
  StaleAfter,  \* --stale-after-sec
  MaxTime      \* bound: the clock

ASSUME HeartbeatAssumption ==
  /\ WarnAfter \in Nat /\ StaleAfter \in Nat /\ WarnAfter <= StaleAfter
  /\ HbPhases \in Nat \ {0} /\ Interval \in Nat /\ MaxTime \in Nat

VARIABLES
  clock,
  hbState,     \* idle, running, or how the task ended
  hbPhase,     \* the phase of its reporter
  hbBeat,      \* the time of its last beat
  hbLog,       \* lines of the log the check reads: [task, phase, at]
  hbRows,      \* tasks with rows in task_heartbeats
  hbWritable,  \* whether the reporter can write the log
  hbDb         \* whether the database takes rows

hbVars == <<clock, hbState, hbPhase, hbBeat, hbLog, hbRows, hbWritable, hbDb>>

Beats == [task : HbTasks, phase : 1 .. HbPhases, at : 0 .. MaxTime]

\* emit: the log, or stderr when it cannot be written; then the database, if it answers.
Emit(t, phase) ==
  LET beat == [task |-> t, phase |-> phase, at |-> clock]
  IN  /\ hbLog' = IF hbWritable[t] THEN hbLog \cup {beat} ELSE hbLog
      /\ hbRows' = IF hbDb THEN hbRows \cup {t} ELSE hbRows
      /\ hbBeat' = [hbBeat EXCEPT ![t] = clock]

\* __enter__ beats at once.
Enter(t) ==
  /\ hbState[t] = "idle"
  /\ hbState' = [hbState EXCEPT ![t] = "running"]
  /\ Emit(t, 1)
  /\ UNCHANGED <<clock, hbPhase, hbWritable, hbDb>>

\* update_phase takes effect with the next beat, which the task makes at once.
UpdatePhase(t) ==
  /\ hbState[t] = "running" /\ hbPhase[t] < HbPhases
  /\ hbPhase' = [hbPhase EXCEPT ![t] = @ + 1]
  /\ Emit(t, hbPhase[t] + 1)
  /\ UNCHANGED <<clock, hbState, hbWritable, hbDb>>

\* maybe_emit: nothing before the interval is over.
MaybeEmit(t) ==
  /\ hbState[t] = "running" /\ clock - hbBeat[t] >= Interval
  /\ Emit(t, hbPhase[t])
  /\ UNCHANGED <<clock, hbState, hbPhase, hbWritable, hbDb>>

\* __exit__ beats phase_finish or phase_failed.
Exit(t) ==
  /\ hbState[t] = "running"
  /\ \E end \in {"finished", "failed"} : hbState' = [hbState EXCEPT ![t] = end]
  /\ Emit(t, hbPhase[t])
  /\ UNCHANGED <<clock, hbPhase, hbWritable, hbDb>>

\* The pod is killed.
HbDies(t) ==
  /\ hbState[t] = "running"
  /\ hbState' = [hbState EXCEPT ![t] = "dead"]
  /\ UNCHANGED <<clock, hbPhase, hbBeat, hbLog, hbRows, hbWritable, hbDb>>

Tick ==
  /\ clock < MaxTime
  /\ clock' = clock + 1
  /\ UNCHANGED <<hbState, hbPhase, hbBeat, hbLog, hbRows, hbWritable, hbDb>>

HbInit ==
  /\ clock = 0 /\ hbLog = {} /\ hbRows = {}
  /\ hbState = [t \in HbTasks |-> "idle"] /\ hbPhase = [t \in HbTasks |-> 1]
  /\ hbBeat = [t \in HbTasks |-> 0]
  /\ hbWritable \in [HbTasks -> BOOLEAN] /\ hbDb \in BOOLEAN

HbNext ==
  \/ \E t \in HbTasks : Enter(t) \/ UpdatePhase(t) \/ MaybeEmit(t) \/ Exit(t) \/ HbDies(t)
  \/ Tick

HbSpec == HbInit /\ [][HbNext]_hbVars

-----------------------------------------------------------------------------
(* check_stale_heartbeats at this moment.  The warehouse is asked only if  *)
(* it has list_task_heartbeats, which PlatformWarehouse has not, and the   *)
(* command passes none: the source is the log.                             *)

HbKeys == {<<StepOf[b.task], b.phase>> : b \in hbLog}
Of(key) == {b.at : b \in {x \in hbLog : <<StepOf[x.task], x.phase>> = key}}

FirstBeat(key) == Min(Of(key))                                        \* mutant
\* A later line replaces the one kept for its key.
LatestBeat(key) == Max(Of(key))

Graded(key) ==
  LET age == clock - LatestBeat(key)
  IN  IF age >= StaleAfter THEN "stale" ELSE IF age >= WarnAfter THEN "warn" ELSE "ok"

Overall ==
  IF \E key \in HbKeys : Graded(key) = "stale" THEN "stale"
  ELSE IF \E key \in HbKeys : Graded(key) = "warn" THEN "warn" ELSE "ok"

\* --fail-on
CheckExit(failOn) ==
  IF \/ failOn = "warn" /\ Overall \in {"warn", "stale"}
     \/ failOn = "stale" /\ Overall = "stale"
  THEN 1 ELSE 0

-----------------------------------------------------------------------------
(* Properties.                                                             *)

InPhase(t) == hbState[t] # "idle"
Peers(t) == {u \in HbTasks : StepOf[u] = StepOf[t]}

\* A task that went silent is noticed: when no task of its step can have beaten in its
\* phase or a later one for StaleAfter seconds, the check with --fail-on stale exits 1,
\* provided the task could write the log it reads.
SilenceIsReported ==
  \A t \in HbTasks :
    /\ InPhase(t) /\ hbWritable[t]
    /\ \A u \in Peers(t) : InPhase(u) => clock - hbBeat[u] >= StaleAfter
    => CheckExit("stale") = 1

\* The phase a task is in is graded by its last beat, or by one of a task of the same
\* step: a task that still beats is never graded stale for the phase it is in.
BeatingIsOk ==
  \A t \in HbTasks :
    /\ InPhase(t) /\ hbWritable[t] /\ clock - hbBeat[t] < WarnAfter
    => Graded(<<StepOf[t], hbPhase[t]>>) = "ok"

\* The check neither misses a silent task nor blames one that beats (runtime heartbeat check).
CheckIsRight == SilenceIsReported /\ BeatingIsOk
=============================================================================
