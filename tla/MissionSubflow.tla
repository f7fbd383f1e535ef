---------------------------- MODULE MissionSubflow ----------------------------
(***************************************************************************)
(* One subflow of a mission: mission_subflow.c with the two alignments it  *)
(* runs (xz_vision_align.c, xy_vision_align.c). Mission composes it with    *)
(* the mission task, the loop's pass and the rest of the machine.          *)
(*                                                                         *)
(* The functions of the source work on global state, so its helpers are    *)
(* operators from a state s (Now, or a later one) to the next; a poll is   *)
(* an action that becomes one of them. late tells that the deadlines of    *)
(* the state polled have passed: time itself is not modelled.              *)
(***************************************************************************)
EXTENDS Naturals, FiniteSets

CONSTANTS
  MaxAttempts,    \* SUBFLOW_MAX_ATTEMPTS, at least 3: a pose moves three axes
  MaxRecoveries,  \* SUBFLOW_Z_MAX_RECOVERIES
  StableSamples,  \* SUBFLOW_STABLE_SAMPLES and SUBFLOW_TOF3_STABLE_SAMPLES
  MaxSegments,    \* segments that max_descent_pulses allows the descent
  Unhomed         \* axes without a position reference

Axes == {"X", "Y", "Z"}

ASSUME FlowAssumption ==
  /\ MaxAttempts \in Nat /\ MaxAttempts >= 3
  /\ MaxRecoveries \in Nat /\ StableSamples \in Nat \ {0} /\ MaxSegments \in Nat
  /\ Unhomed \subseteq Axes

VARIABLES
  co,     \* the coordinator: owner, latch, abort request, unified stop
  axis,   \* the state of each axis
  news,   \* z.fault_count differs from z_fault_count_seen
  sub,    \* MissionSubflowRuntime g_subflow and the flags beside it
  align,  \* the vision alignment: at most one of the two is active
  k,      \* the C552's command
  busy    \* who has no free line: "XY" (a query is outstanding), "Z" (UART)

flowvars == <<co, axis, news, sub, align, k, busy>>

MissionTasks == {"RED_PICK", "TAG_PUT", "RED_FIND", "FRAME_PUT"}
ObserveTypes == {"OBSERVE_RED", "OBSERVE_TAG", "OBSERVE_FRAME"}
AlignTypes == {"ALIGN_XZ", "ALIGN_XY"}
GripTypes == {"GRIP_OPEN", "GRIP_CLOSE"}
PoseTypes == {"RETURN", "RETREAT", "PRESET"}
FlowTypes == ObserveTypes \cup AlignTypes \cup GripTypes \cup PoseTypes
               \cup {"BLIND_Y", "DESCEND", "RECORD"}
FlowStates == {"IDLE", "STARTING", "WAIT_APPLIED", "WAIT_SAMPLE", "RUNNING",
               "WAIT_IDLE", "RETRY_WAIT", "COMPLETE", "FAULT"}
AxisStates == {"unref", "idle", "moving", "stopping", "fault", "recovering"}
\* The alignments' states; "see" stands for waiting for a sample and judging it.
AlignStates == {"off", "mode", "see", "x", "waitx", "z", "waitz", "done", "fault"}
\* A failure's reason, as far as anybody looks at it: "FINAL" stands for those that
\* fault_retryable refuses, "Z_EXHAUSTED" for AXIS_Z:RETRY_EXHAUSTED.
Reasons == {"NONE", "TRANSIENT", "FINAL", "Z_EXHAUSTED"}
AlignFaults == {"NONE", "AXIS", "LIMIT", "MOVE_Z", "OTHER"}

NoFlow == [type |-> "NONE", task |-> "RED_PICK", state |-> "IDLE", attempt |-> 0,
           recoveries |-> 0, stage |-> 0, issued |-> FALSE, stable |-> 0,
           left |-> MaxSegments, reason |-> "NONE", cancel |-> FALSE,
           retain |-> FALSE, recorded |-> FALSE]

FlowInit ==
  /\ co = [owner |-> "NONE", latch |-> FALSE, abort |-> FALSE, stop |-> "none"]
  /\ axis = [a \in Axes |-> IF a \in Unhomed THEN "unref" ELSE "idle"]
  /\ news = FALSE
  /\ sub = NoFlow
  /\ align = [state |-> "off", why |-> "NONE"]
  /\ k = [what |-> "NONE", state |-> "idle"]
  /\ busy = {}

Now == [co |-> co, axis |-> axis, news |-> news, sub |-> sub, align |-> align, k |-> k,
        busy |-> busy]

Become(s) ==
  /\ co' = s.co /\ axis' = s.axis /\ news' = s.news
  /\ sub' = s.sub /\ align' = s.align /\ k' = s.k

-----------------------------------------------------------------------------
(* The axes, as the subflow sees and commands them.                        *)

InMotion(s) == \E a \in Axes : s.axis[a] \in {"moving", "stopping", "recovering"}
AllIdle(s) == \A a \in Axes : s.axis[a] = "idle"

\* XY_Stop and ZAxisControl_Stop on the moving ones among them; the stop of Z is lost
\* when its UART is busy.
StopThese(s, axes) ==
  [s EXCEPT !.axis = [a \in Axes |->
     IF a \in axes /\ s.axis[a] = "moving" /\ ~(a = "Z" /\ "Z" \in s.busy)
     THEN "stopping" ELSE s.axis[a]]]

StopAxes(s) == StopThese(s, Axes)

MayMove(s, a) == s.axis[a] = "idle" /\ (IF a = "Z" THEN "Z" ELSE "XY") \notin s.busy
Moved(s, a) == [s EXCEPT !.axis[a] = "moving"]

\* axes_faulted: the axis it reports, X and Y before Z.
FaultSource(s) ==
  IF s.axis["X"] = "fault" THEN "X"
  ELSE IF s.axis["Y"] = "fault" THEN "Y"
  ELSE IF s.axis["Z"] = "fault" \/ s.news THEN "Z"
  ELSE "NONE"

Seen(s) == IF FaultSource(s) = "Z" THEN [s EXCEPT !.news = FALSE] ELSE s

\* recover_z_fault
RecoverZ(s) ==
  IF s.axis["Z"] = "fault" /\ "Z" \notin s.busy THEN [s EXCEPT !.axis["Z"] = "recovering"]
  ELSE s

-----------------------------------------------------------------------------
(* The life of a subflow.                                                  *)

Active(f) == f.state \notin {"IDLE", "COMPLETE", "FAULT"}

Released(s) == IF s.co.owner = "MISSION" THEN [s EXCEPT !.co.owner = "NONE"] ELSE s

\* Mutant: the ownership is released although the mission retains it.
FinishReleasing(s, state, reason) ==
  Released([s EXCEPT !.sub.state = state, !.sub.reason = reason])

\* finish
Finish(s, state, reason) ==
  LET t == [s EXCEPT !.sub.state = state, !.sub.reason = reason]
  IN IF s.sub.retain THEN t ELSE Released(t)

Complete(s) == Finish(s, "COMPLETE", "NONE")

\* fail
Fail(s, reason) == Finish(StopAxes(s), "FAULT", reason)

\* MotionCoordinator_Acquire for MISSION.
MayAcquire(s) == ~s.co.abort /\ ~s.co.latch /\ s.co.owner \in {"NONE", "MISSION"}

\* begin, when it is not refused.
MayBegin(s) == ~Active(s.sub) /\ MayAcquire(s)

Begun(s, type, task) ==
  [s EXCEPT !.co.owner = "MISSION", !.news = FALSE,
            !.sub = [NoFlow EXCEPT !.type = type, !.task = task, !.state = "STARTING",
                                   !.retain = s.sub.retain, !.recorded = s.sub.recorded]]

\* MissionSubflow_Start...: those that move to a pose want a snapshot of it first.
MayStart(s, type) ==
  /\ MayBegin(s)
  /\ type \in PoseTypes => AllIdle(s)
  /\ type = "RETURN" => s.sub.recorded

Waiting(s) ==
  [s EXCEPT !.sub.state = "RETRY_WAIT", !.sub.stable = 0, !.sub.issued = FALSE]

\* retry_or_fail
RetryOrFail(s) ==
  IF s.sub.attempt < MaxAttempts THEN Waiting(s) ELSE Fail(s, "TRANSIENT")

\* retry_axis_fault: refund gives the attempt back.
RetryFault(s, source, refund) ==
  IF source = "Z" /\ s.sub.recoveries < MaxRecoveries
  THEN Waiting([s EXCEPT !.sub.recoveries = @ + 1,
                         !.sub.attempt = IF refund /\ @ > 0 THEN @ - 1 ELSE @])
  ELSE Fail(s, IF source = "Z" THEN "Z_EXHAUSTED" ELSE "TRANSIENT")

\* stop_axes, recover_z_fault and retry_axis_fault after axes_faulted.
Recover(s, refund) ==
  LET source == FaultSource(s)
      t == StopAxes(Seen(s))
  IN RetryFault(IF source = "Z" THEN RecoverZ(t) ELSE t, source, refund)

Attempt(s) == [s EXCEPT !.sub.attempt = @ + 1]

\* Mutant: one attempt more than there are.
ExhaustedLate(s) == s.sub.attempt > MaxAttempts

Exhausted(s) == s.sub.attempt >= MaxAttempts

\* C552_SetK230Mode and C552_SetGripper are BUSY while a command is under way.
Commanded(s, what) ==
  IF s.k.state = "active" THEN RetryOrFail(s)
  ELSE [s EXCEPT !.k = [what |-> what, state |-> "active"], !.sub.state = "WAIT_APPLIED"]

Applied(s, what) == s.k = [what |-> what, state |-> "applied"]

-----------------------------------------------------------------------------
(* The alignments.                                                         *)

AlignActive(s) == s.align.state \notin {"off", "done", "fault"}
AlignAxes(type) == IF type = "ALIGN_XZ" THEN {"X", "Z"} ELSE {"X", "Y"}

\* XZVisionAlign_Abort or XY_VisionAlign_Abort, whichever the subflow's type names.
AlignAborted(s) ==
  IF s.sub.type \notin AlignTypes THEN s
  ELSE [(IF AlignActive(s) THEN StopThese(s, AlignAxes(s.sub.type)) ELSE s)
          EXCEPT !.align = [state |-> "off", why |-> "NONE"]]

\* align_fault
AlignFaulted(s, why) ==
  [StopThese(s, AlignAxes(s.sub.type)) EXCEPT !.align = [state |-> "fault", why |-> why]]

AlignAt(s, state) == [s EXCEPT !.align.state = state]

\* What the XZ alignment has the front camera look for.
AlignMode(f) == IF f.task = "TAG_PUT" THEN "OBSERVE_TAG" ELSE "OBSERVE_RED"

\* XZVisionAlign_StartOwned and XY_VisionAlign_StartOwned. free: nothing else is
\* active and the calibration is there; both are out of this module.
AlignStarted(s, free) ==
  LET ready == \A a \in AlignAxes(s.sub.type) : s.axis[a] = "idle"
      mode == AlignMode(s.sub)
      started == [s EXCEPT !.sub.state = "RUNNING", !.align.why = "NONE"]
  IN IF ~MayAcquire(s) THEN RetryOrFail(s)
     ELSE IF ~(free /\ ready)
     THEN RetryOrFail([s EXCEPT !.align = [state |-> "fault", why |-> "OTHER"]])
     ELSE IF s.sub.type = "ALIGN_XY" \/ Applied(s, mode) THEN AlignAt(started, "see")
     ELSE IF s.k.state = "active"
     THEN RetryOrFail([s EXCEPT !.align = [state |-> "fault", why |-> "OTHER"]])
     ELSE [AlignAt(started, "mode") EXCEPT !.k = [what |-> mode, state |-> "active"]]

\* A move of the alignment: while the axis' line is busy it is repeated, by XY's first one
\* with another sample, and other refusals end it.
AlignMoves(a, next) ==
  \/ sub.type = "ALIGN_XY" /\ align.state = "x" /\ ~MayMove(Now, a) /\ Become(AlignAt(Now, "see"))
  \/ Become(IF MayMove(Now, a) THEN AlignAt(Moved(Now, a), next)
            ELSE IF axis[a] = "fault"
            THEN AlignFaulted(Now, IF a = "Z" THEN "MOVE_Z" ELSE "OTHER")
            ELSE Now)
  \/ MayMove(Now, a)
     /\ \E why \in IF sub.type = "ALIGN_XZ" THEN {"LIMIT", IF a = "Z" THEN "MOVE_Z" ELSE "OTHER"}
                   ELSE {"OTHER"} : Become(AlignFaulted(Now, why))

\* The wait for the end of a move: XZ looks at the axis, XY at both of its axes.
Rested(a) == \A b \in IF sub.type = "ALIGN_XZ" THEN {a} ELSE AlignAxes(sub.type) : axis[b] = "idle"

\* XZVisionAlign_Poll and XY_VisionAlign_Poll. A step of no pulses is skipped, and without
\* a sample nothing is done.
AlignPoll(late) ==
  \/ ~AlignActive(Now) /\ Become(Now)
  \/ /\ AlignActive(Now)
     /\ late \/ \E a \in AlignAxes(sub.type) : axis[a] = "fault"
     /\ Become(AlignFaulted(Now, IF late THEN "OTHER" ELSE "AXIS"))
  \/ /\ AlignActive(Now) /\ ~late
     /\ \A a \in AlignAxes(sub.type) : axis[a] # "fault"
     /\ \/ /\ align.state = "mode"
           /\ Become(IF Applied(Now, AlignMode(sub)) THEN AlignAt(Now, "see")
                     ELSE IF k.state = "failed" THEN AlignFaulted(Now, "OTHER") ELSE Now)
        \/ align.state # "mode" /\ Become(Now)
        \/ /\ align.state = "see"
           /\ \E state \in {"see", "x", "z", "done"} : Become(AlignAt(Now, state))
        \/ align.state = "see" /\ sub.type = "ALIGN_XZ" /\ Become(AlignFaulted(Now, "LIMIT"))
        \/ align.state = "x" /\ AlignMoves("X", "waitx")
        \/ /\ align.state = "waitx"
           /\ \E state \in {"z", "see"} : Become(IF Rested("X") THEN AlignAt(Now, state) ELSE Now)
        \/ align.state = "z" /\ AlignMoves(IF sub.type = "ALIGN_XZ" THEN "Z" ELSE "Y", "waitz")
        \/ /\ align.state = "waitz"
           /\ Become(IF Rested(IF sub.type = "ALIGN_XZ" THEN "Z" ELSE "Y")
                     THEN AlignAt(Now, "see") ELSE Now)

-----------------------------------------------------------------------------
(* MissionSubflow_Poll.                                                    *)

Polled(types) ==
  Active(sub) /\ ~sub.cancel /\ co.owner = "MISSION" /\ sub.type \in types

\* Before any other subflow than these is polled, a faulted axis ends it.
OwnFaults == AlignTypes \cup {"BLIND_Y", "DESCEND"}
PolledHealthy(types) == Polled(types) /\ FaultSource(Now) = "NONE"

\* cancel_now
CancelNow(s) ==
  Finish(StopAxes(AlignAborted([s EXCEPT !.sub.cancel = FALSE])), "FAULT", "FINAL")

\* Nothing to do, a cancellation, the ownership gone, or a faulted axis.
PollEnds ==
  \/ ~Active(sub) /\ Become(Now)
  \/ Active(sub) /\ sub.cancel /\ Become(CancelNow(Now))
  \/ /\ Active(sub) /\ ~sub.cancel /\ co.owner # "MISSION"
     /\ Become([StopAxes(Now) EXCEPT !.sub.state = "FAULT", !.sub.reason = "FINAL"])
  \/ /\ Polled(FlowTypes \ OwnFaults) /\ FaultSource(Now) # "NONE"
     /\ Become(Fail(Seen(Now), "TRANSIENT"))

\* start_observe_attempt
ObserveAttempt(s) ==
  IF Exhausted(s) THEN Fail(s, "TRANSIENT") ELSE Commanded(Attempt(s), s.sub.type)

\* poll_observe. A sample that agrees with the ones before counts up, one that does
\* not starts anew.
Observe(late) ==
  /\ PolledHealthy(ObserveTypes)
  /\ \/ sub.state = "STARTING" /\ Become(ObserveAttempt(Now))
     \/ sub.state = "RETRY_WAIT" /\ Become(IF late THEN ObserveAttempt(Now) ELSE Now)
     \/ /\ sub.state = "WAIT_APPLIED"
        /\ Become(IF Applied(Now, sub.type) THEN [Now EXCEPT !.sub.state = "WAIT_SAMPLE"]
                  ELSE IF k.state = "failed" \/ late THEN RetryOrFail(Now) ELSE Now)
     \/ sub.state = "WAIT_SAMPLE" /\ late /\ Become(RetryOrFail(Now))
     \/ /\ sub.state = "WAIT_SAMPLE" /\ ~late
        /\ \E n \in {sub.stable, 1, sub.stable + 1} :
             LET t == [Now EXCEPT !.sub.stable = n]
             IN Become(IF n >= StableSamples THEN Complete(t) ELSE t)

\* start_align_attempt
AlignAttempt(s, free) ==
  IF FaultSource(s) # "NONE" THEN Recover(s, FALSE)
  ELSE IF \E a \in AlignAxes(s.sub.type) : s.axis[a] # "idle"
  THEN [s EXCEPT !.sub.state = "RETRY_WAIT"]
  ELSE IF Exhausted(s) THEN Fail(s, "TRANSIENT")
  ELSE AlignStarted(Attempt(s), free)

\* The alignment has failed. XZ takes any faulted axis for a fault of Z.
AlignFailed(s) ==
  LET t == AlignAborted(s)
  IN IF s.align.why \in {"AXIS", "MOVE_Z"} /\ s.sub.type = "ALIGN_XZ"
     THEN RetryFault(RecoverZ(t), "Z", TRUE)
     ELSE IF s.align.why = "AXIS" THEN Fail(t, "TRANSIENT")
     ELSE IF s.align.why = "LIMIT" THEN Fail(t, "FINAL")
     ELSE RetryOrFail(t)

\* Mutant: a faulted axis ends the attempt, but not the alignment.
AlignGoesOn(late) ==
  /\ Polled(AlignTypes)
  /\ \/ \E free \in BOOLEAN :
          /\ sub.state \in {"STARTING", "RETRY_WAIT"}
          /\ Become(IF late \/ sub.state = "STARTING" THEN AlignAttempt(Now, free) ELSE Now)
     \/ /\ sub.state = "RUNNING"
        /\ Become(IF FaultSource(Now) # "NONE" THEN Recover(Now, TRUE)
                  ELSE IF align.state = "done" THEN Complete(Now)
                  ELSE IF align.state = "fault" THEN AlignFailed(Now) ELSE Now)

\* poll_align
Align(late) ==
  /\ Polled(AlignTypes)
  /\ \/ \E free \in BOOLEAN :
          /\ sub.state \in {"STARTING", "RETRY_WAIT"}
          /\ Become(IF late \/ sub.state = "STARTING" THEN AlignAttempt(Now, free) ELSE Now)
     \/ /\ sub.state = "RUNNING"
        /\ Become(IF FaultSource(Now) # "NONE" THEN Recover(AlignAborted(Now), TRUE)
                  ELSE IF align.state = "done" THEN Complete(Now)
                  ELSE IF align.state = "fault" THEN AlignFailed(Now) ELSE Now)

\* poll_blind_y: the attempt. What the distance sensor and the move come to: no
\* reading, close enough, a move, a target beyond the limits, a frame refused. A busy
\* line gives the attempt back.
BlindAttempt(s, reading) ==
  LET t == Attempt(s)
  IN IF FaultSource(s) # "NONE" THEN Recover(s, FALSE)
     ELSE IF InMotion(s) THEN [s EXCEPT !.sub.state = "RETRY_WAIT"]
     ELSE IF ~AllIdle(s) THEN Fail(s, "FINAL")
     ELSE IF Exhausted(s) THEN Fail(s, "TRANSIENT")
     ELSE IF reading = "near" THEN Complete(t)
     ELSE IF reading = "limit" THEN Fail(t, "FINAL")
     ELSE IF reading \in {"none", "refused"} THEN RetryOrFail(t)
     ELSE IF ~MayMove(s, "Y") THEN [s EXCEPT !.sub.state = "RETRY_WAIT"]
     ELSE [Moved(t, "Y") EXCEPT !.sub.state = "WAIT_IDLE"]

\* poll_blind_y
BlindY(late) ==
  /\ Polled({"BLIND_Y"})
  /\ \/ /\ sub.state = "RETRY_WAIT"
        /\ Become(IF late THEN [Now EXCEPT !.sub.state = "STARTING"] ELSE Now)
     \/ /\ sub.state = "STARTING"
        /\ \E reading \in {"none", "near", "far", "limit", "refused"} :
             Become(BlindAttempt(Now, reading))
     \/ /\ sub.state = "WAIT_IDLE"
        /\ Become(IF axis["Y"] = "idle" THEN Complete(Now)
                  ELSE IF FaultSource(Now) # "NONE" THEN Recover(Now, TRUE)
                  ELSE IF late THEN RetryOrFail(StopAxes(Now)) ELSE Now)

\* poll_tof3_descend, one segment: no pulses left, a target beyond the limits, a busy
\* line (tried again), or the move.
Segment(s, limit) ==
  IF s.sub.left = 0 \/ limit THEN Fail(s, "FINAL")
  ELSE IF ~MayMove(s, "Z") THEN s
  ELSE [Moved(s, "Z") EXCEPT !.sub.left = @ - 1, !.sub.state = "RUNNING"]

\* poll_tof3_descend after its opening part. quiet: the sensor has been silent too
\* long. Below the limit the axis is stopped, and nothing but samples is looked at.
Descended(s, fresh, quiet, late, limit) ==
  LET still == s.axis["Z"] = "idle"
      halt == [StopThese(s, {"Z"}) EXCEPT !.sub.state = "WAIT_IDLE"]
      t == IF s.sub.state = "WAIT_IDLE" /\ still THEN [s EXCEPT !.sub.state = "RUNNING"] ELSE s
  IN IF quiet /\ s.sub.state # "RETRY_WAIT" THEN RetryOrFail(StopAxes(s))
     ELSE IF s.sub.stable > 0
     THEN IF s.axis["Z"] = "moving" THEN halt
          ELSE IF still /\ s.sub.stable >= StableSamples THEN Complete(s) ELSE s
     ELSE IF t.sub.state = "RETRY_WAIT"
     THEN IF late THEN [t EXCEPT !.sub.state = "STARTING"] ELSE t
     ELSE IF FaultSource(t) # "NONE" THEN Recover(t, TRUE)
     ELSE IF t.sub.state = "STARTING" \/ (t.sub.state = "RUNNING" /\ still)
     THEN IF ~still THEN t
          ELSE IF fresh THEN Segment(t, limit)
          ELSE IF late THEN RetryOrFail(t) ELSE t
     ELSE IF late THEN RetryOrFail(StopAxes(t)) ELSE t

\* poll_tof3_descend
Descend(late) ==
  /\ Polled({"DESCEND"})
  /\ LET opens == sub.state = "STARTING" /\ ~sub.issued
         opened == IF opens THEN [Attempt(Now) EXCEPT !.sub.issued = TRUE] ELSE Now
     IN \/ opens /\ FaultSource(Now) # "NONE" /\ Become(Recover(Now, TRUE))
        \/ /\ opens /\ FaultSource(Now) = "NONE" /\ InMotion(Now)
           /\ Become([Now EXCEPT !.sub.state = "RETRY_WAIT"])
        \/ /\ opens /\ FaultSource(Now) = "NONE" /\ ~InMotion(Now)
           /\ ~AllIdle(Now) \/ Exhausted(Now)
           /\ Become(Fail(Now, IF AllIdle(Now) THEN "TRANSIENT" ELSE "FINAL"))
        \/ /\ opens => AllIdle(Now) /\ ~Exhausted(Now) /\ FaultSource(Now) = "NONE"
           /\ \E sample \in {"none", "below", "above"}, limit \in BOOLEAN,
                 quiet \in {FALSE, late} :
                /\ quiet => sample = "none"
                /\ Become(Descended(
                     [opened EXCEPT !.sub.stable =
                        IF sample = "above" THEN 0
                        ELSE IF sample = "below" /\ @ < StableSamples THEN @ + 1 ELSE @],
                     sample # "none", quiet, late, limit))

\* Mutant: a command that is not answered in time is taken for done.
GripPresumes(late) ==
  /\ PolledHealthy(GripTypes)
  /\ \/ /\ sub.state = "RETRY_WAIT"
        /\ Become(IF late THEN [Now EXCEPT !.sub.state = "STARTING"] ELSE Now)
     \/ /\ sub.state = "STARTING"
        /\ Become(IF Exhausted(Now) THEN Fail(Now, "TRANSIENT")
                  ELSE Commanded(Attempt(Now), sub.type))
     \/ /\ sub.state = "WAIT_APPLIED"
        /\ Become(IF Applied(Now, sub.type) \/ late THEN Complete(Now)
                  ELSE IF k.state = "failed" THEN RetryOrFail(Now) ELSE Now)

\* poll_grip
Grip(late) ==
  /\ PolledHealthy(GripTypes)
  /\ \/ /\ sub.state = "RETRY_WAIT"
        /\ Become(IF late THEN [Now EXCEPT !.sub.state = "STARTING"] ELSE Now)
     \/ /\ sub.state = "STARTING"
        /\ Become(IF Exhausted(Now) THEN Fail(Now, "TRANSIENT")
                  ELSE Commanded(Attempt(Now), sub.type))
     \/ /\ sub.state = "WAIT_APPLIED"
        /\ Become(IF Applied(Now, sub.type) THEN Complete(Now)
                  ELSE IF k.state = "failed" \/ late THEN RetryOrFail(Now) ELSE Now)

\* poll_pose, RECORD_POSE.
Record(late) ==
  /\ PolledHealthy({"RECORD"})
  /\ LET t == Attempt(Now)
     IN Become(IF sub.state = "RETRY_WAIT" /\ ~late THEN Now
               ELSE IF AllIdle(t) THEN Complete([t EXCEPT !.sub.recorded = TRUE])
               ELSE IF Exhausted(t) THEN Fail(t, "FINAL")
               ELSE [t EXCEPT !.sub.state = "RETRY_WAIT"])

\* pose_axis_for_stage
PoseAxis(f) ==
  LET order == IF f.type = "RETURN" THEN <<"X", "Y", "Z">>
               ELSE IF f.type = "RETREAT" /\ f.task = "TAG_PUT" THEN <<"Y", "Z", "X">>
               ELSE <<"Z", "X", "Y">>
  IN order[f.stage + 1]

\* Mutant: the next axis is started without waiting for the last.
PoseInOneGo(late) ==
  /\ PolledHealthy(PoseTypes)
  /\ \/ /\ sub.state = "RETRY_WAIT"
        /\ Become(IF late THEN [Now EXCEPT !.sub.state = "STARTING"] ELSE Now)
     \/ /\ sub.state = "STARTING"
        /\ \E there \in BOOLEAN :
             Become(IF Exhausted(Now) THEN Fail(Now, "TRANSIENT")
                    ELSE IF there THEN [Attempt(Now) EXCEPT !.sub.state = "WAIT_IDLE"]
                    ELSE IF ~MayMove(Now, PoseAxis(sub)) THEN RetryOrFail(Attempt(Now))
                    ELSE [Moved(Attempt(Now), PoseAxis(sub)) EXCEPT !.sub.state = "WAIT_IDLE"])
     \/ /\ sub.state = "WAIT_IDLE"
        /\ LET t == [Now EXCEPT !.sub.stage = @ + 1, !.sub.state = "STARTING"]
           IN Become(IF t.sub.stage >= 3 THEN Complete(t) ELSE t)

\* poll_pose: one axis after the other. An axis that is already there is not moved.
Pose(late) ==
  /\ PolledHealthy(PoseTypes)
  /\ \/ /\ sub.state = "RETRY_WAIT"
        /\ Become(IF late THEN [Now EXCEPT !.sub.state = "STARTING"] ELSE Now)
     \/ /\ sub.state = "STARTING"
        /\ \E there \in BOOLEAN :
             Become(IF Exhausted(Now) THEN Fail(Now, "TRANSIENT")
                    ELSE IF there THEN [Attempt(Now) EXCEPT !.sub.state = "WAIT_IDLE"]
                    ELSE IF ~MayMove(Now, PoseAxis(sub)) THEN RetryOrFail(Attempt(Now))
                    ELSE [Moved(Attempt(Now), PoseAxis(sub)) EXCEPT !.sub.state = "WAIT_IDLE"])
     \/ /\ sub.state = "WAIT_IDLE"
        /\ LET t == [Now EXCEPT !.sub.stage = @ + 1, !.sub.state = "STARTING"]
           IN Become(IF axis[PoseAxis(sub)] = "idle"
                     THEN IF t.sub.stage >= 3 THEN Complete(t) ELSE t
                     ELSE IF late THEN Fail(Now, "TRANSIENT") ELSE Now)

\* MissionSubflow_Poll
FlowPoll(late) ==
  \/ PollEnds
  \/ Observe(late) \/ Align(late) \/ BlindY(late) \/ Descend(late)
  \/ Grip(late) \/ Record(late) \/ Pose(late)
=============================================================================
