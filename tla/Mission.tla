------------------------------- MODULE Mission -------------------------------
(***************************************************************************)
(* The four missions: mission_task.c over the subflows of MissionSubflow,  *)
(* with the part of the loop, the coordinator, the operator and the        *)
(* devices that they meet.                                                 *)
(*                                                                         *)
(* A pass of the LegacyIo loop is four steps in a fixed order (pc): the    *)
(* coordinator, the subflow, the mission task, the alignment. Commands     *)
(* need the application mutex, so they come between two passes, and so do  *)
(* the answers of the devices, which other polls of the same loop take in. *)
(* Only the request of an abort comes at any moment.                       *)
(***************************************************************************)
EXTENDS MissionSubflow

CONSTANTS
  Tasks,        \* the missions that are requested
  Flows,        \* the subflows that the shell starts by themselves
  MaxRestarts,  \* MISSION_MAX_RESTARTS, 10 in the firmware
  MaxRequests,  \* bound: commands of the operator
  MaxTrouble    \* bound: faults of an axis and lost lines

ASSUME MissionAssumption ==
  /\ Tasks \subseteq MissionTasks
  /\ Flows \subseteq FlowTypes \ {"PRESET"}
  /\ MaxRestarts \in Nat /\ MaxRequests \in Nat /\ MaxTrouble \in Nat

VARIABLES
  pc,        \* the next poll of the pass
  job,       \* g_task, g_start_request, g_cancel_request
  grip,      \* the gripper itself
  requests, trouble

vars == <<flowvars, pc, job, grip, requests, trouble>>

Resting == {"IDLE", "COMPLETE", "FAULT"}
MissionStates == Resting \cup
  {"PRECHECK", "PRECHECK_HELD", "PREPARE_GRIP_OPEN", "PRESET_POSE", "RED_OBSERVE",
   "TAG_OBSERVE", "FRAME_OBSERVE", "FRONT_RED_READY", "FRONT_TAG_READY",
   "DOWN_FRAME_READY", "ALIGN_XZ", "ALIGN_XY", "STABLE", "RECORD_XYZ", "BLIND_Y",
   "OPTIONAL_Z_DROP", "TOF3_Z_DESCEND", "GRIP_CLOSE", "GRIP_OPEN",
   "RETURN_RECORDED_POSE", "VERIFY", "SAFE_RETREAT", "RECOVERY_WAIT_IDLE",
   "RECOVER_PRESET", "ABORTING"}

Puts == {"TAG_PUT", "FRAME_PUT"}

\* Missions may have gone before: what they have left held is in a closed gripper. Without
\* a payload the gripper is in any position.
Init ==
  /\ FlowInit
  /\ pc = "coord"
  /\ \E payload \in {"EMPTY", "HELD"} :
       job = [task |-> "RED_PICK", state |-> "IDLE", payload |-> payload, restarts |-> 0,
              started |-> FALSE, cancel |-> FALSE, issued |-> FALSE, start |-> "NONE"]
  /\ grip \in IF job.payload = "HELD" THEN {"closed"} ELSE {"open", "closed"}
  /\ requests = 0 /\ trouble = 0

Rest == UNCHANGED <<grip, requests, trouble>>

\* MissionTask_IsActive
MissionActive == job.state \notin Resting \/ job.start # "NONE"

-----------------------------------------------------------------------------
(* The coordinator, as far as a mission meets it.                          *)

\* begin_stop and poll_stop: the stop of X and Y is sent once, that of Z until it takes.
Stopped(s) ==
  LET xy == IF s.co.stop = "begun"
            THEN [s EXCEPT !.axis["X"] = "stopping", !.axis["Y"] = "stopping",
                           !.co.stop = "sent"]
            ELSE s
      t == StopThese(xy, {"Z"})
  IN IF InMotion(t) THEN t ELSE [t EXCEPT !.co.stop = "none"]

\* Mutant: the alignment is forgotten.
AbortTakenHalf(s) ==
  [s EXCEPT !.co.abort = FALSE, !.co.latch = TRUE, !.co.owner = "NONE",
            !.co.stop = IF @ = "none" THEN "begun" ELSE @]

\* The abort that has been asked for: alignment, latch, owner, stop.
AbortTaken(s) ==
  [(IF AlignActive(s) THEN AlignAborted(s) ELSE s)
     EXCEPT !.co.abort = FALSE, !.co.latch = TRUE, !.co.owner = "NONE",
            !.co.stop = IF @ = "none" THEN "begun" ELSE @]

\* MotionCoordinator_Poll
CoordPoll ==
  LET s == IF co.abort THEN AbortTaken(Now) ELSE Now
      t == IF s.co.stop = "none" THEN s ELSE Stopped(s)
      free == t.co.owner = "MANUAL" /\ t.co.stop = "none" /\ ~InMotion(t)
                /\ t.k.state # "active"
  IN /\ pc = "coord" /\ pc' = "subflow"
     /\ Become(IF free THEN [t EXCEPT !.co.owner = "NONE"] ELSE t)
     /\ UNCHANGED <<busy, job>> /\ Rest

\* MotionCoordinator_PollEmergency, also while the shell has the mutex.
Emergency ==
  /\ pc = "coord" /\ co.abort
  /\ ~co.latch \/ co.stop # "none"
  /\ Become(Stopped(IF co.latch THEN Now
                    ELSE [Now EXCEPT !.co.latch = TRUE, !.co.stop = "begun"]))
  /\ UNCHANGED <<busy, job, pc>> /\ Rest

-----------------------------------------------------------------------------
(* MissionTask_Poll. Its operators give the next value of s with s.job.    *)

World == [co |-> co, axis |-> axis, news |-> news, sub |-> sub, align |-> align, k |-> k,
          busy |-> busy, job |-> job]

\* enter_state
Enter(s, state) == [s EXCEPT !.job.state = state, !.job.started = FALSE]

\* release_mission
ReleaseMission(s) ==
  Released(IF Active(s.sub) THEN s ELSE [s EXCEPT !.sub.retain = FALSE])

\* finish_complete
FinishComplete(s) == ReleaseMission(Enter(s, "COMPLETE"))

\* MissionSubflow_AbortAll
AbortAll(s, reason) ==
  Finish([StopAxes(AlignAborted(s)) EXCEPT !.sub.type = "ABORT_ALL"], "FAULT", reason)

Ended(s, reason) == IF Active(s.sub) THEN AbortAll(s, reason) ELSE s

\* finish_terminal_fault
FinishTerminal(s, reason) == ReleaseMission(Enter(Ended(s, reason), "FAULT"))

\* fault_retryable
Retryable(s, reason) ==
  /\ s.job.restarts < MaxRestarts /\ reason # "FINAL"
  /\ s.job.state \notin {"PRECHECK", "PRECHECK_HELD", "VERIFY"}
  /\ s.job.task \in Puts => s.job.payload = "HELD"
  /\ s.co.owner = "MISSION" /\ ~s.co.latch

\* Mutant: the subflow under way is left to itself.
HandleFaultLeaving(s, reason) ==
  IF ~Retryable(s, reason) THEN FinishTerminal(s, reason)
  ELSE Enter([s EXCEPT !.job.restarts = @ + 1], "RECOVERY_WAIT_IDLE")

\* handle_fault
HandleFault(s, reason) ==
  IF ~Retryable(s, reason) THEN FinishTerminal(s, reason)
  ELSE Enter([Ended(s, reason) EXCEPT !.job.restarts = @ + 1], "RECOVERY_WAIT_IDLE")

\* Mutant: a mission that puts something down sets out with an empty gripper.
PrecheckUnheld(s, configured) ==
  IF s.co.latch \/ ~configured \/ ~AllIdle(s) THEN HandleFault(s, "FINAL")
  ELSE Enter(s, IF s.job.task \in Puts THEN "PRESET_POSE" ELSE "PREPARE_GRIP_OPEN")

\* poll_precheck. config_valid is a choice of the caller.
Precheck(s, configured) ==
  IF s.co.latch \/ ~configured
     \/ (s.job.state = "PRECHECK_HELD" /\ s.job.payload # "HELD") \/ ~AllIdle(s)
  THEN HandleFault(s, "FINAL")
  ELSE Enter(s, IF s.job.task \in Puts THEN "PRESET_POSE" ELSE "PREPARE_GRIP_OPEN")

\* expected_subflow
Expected(state) ==
  CASE state \in {"PREPARE_GRIP_OPEN", "GRIP_OPEN"} -> "GRIP_OPEN"
    [] state \in {"PRESET_POSE", "RECOVER_PRESET"} -> "PRESET"
    [] state = "RED_OBSERVE" -> "OBSERVE_RED"
    [] state = "TAG_OBSERVE" -> "OBSERVE_TAG"
    [] state = "FRAME_OBSERVE" -> "OBSERVE_FRAME"
    [] state \in {"OPTIONAL_Z_DROP", "TOF3_Z_DESCEND"} -> "DESCEND"
    [] state = "RECORD_XYZ" -> "RECORD"
    [] state = "RETURN_RECORDED_POSE" -> "RETURN"
    [] state = "SAFE_RETREAT" -> "RETREAT"
    [] state \in {"ALIGN_XZ", "ALIGN_XY", "BLIND_Y", "GRIP_CLOSE"} -> state
    [] OTHER -> "NONE"

\* advance_after_subflow, its state; SAFE_RETREAT completes the mission.
NextState(state, task) ==
  CASE state = "PREPARE_GRIP_OPEN" -> "PRESET_POSE"
    [] state = "PRESET_POSE" ->
         IF task \notin Puts THEN "RED_OBSERVE"
         ELSE IF task = "TAG_PUT" THEN "TAG_OBSERVE" ELSE "FRAME_OBSERVE"
    [] state = "RED_OBSERVE" -> "FRONT_RED_READY"
    [] state = "TAG_OBSERVE" -> "FRONT_TAG_READY"
    [] state = "FRAME_OBSERVE" -> "DOWN_FRAME_READY"
    [] state \in {"ALIGN_XZ", "ALIGN_XY"} -> "STABLE"
    [] state = "RECORD_XYZ" -> "BLIND_Y"
    [] state = "BLIND_Y" -> IF task = "TAG_PUT" THEN "OPTIONAL_Z_DROP" ELSE "GRIP_CLOSE"
    [] state \in {"OPTIONAL_Z_DROP", "TOF3_Z_DESCEND"} -> "GRIP_OPEN"
    [] state = "GRIP_CLOSE" -> "RETURN_RECORDED_POSE"
    [] state = "GRIP_OPEN" -> "SAFE_RETREAT"
    [] state = "RETURN_RECORDED_POSE" -> "VERIFY"
    [] state = "RECOVER_PRESET" -> IF task \in Puts THEN "PRECHECK_HELD" ELSE "PRECHECK"

\* advance_after_subflow
Advance(s) ==
  LET payload == CASE s.job.state \in {"PREPARE_GRIP_OPEN", "GRIP_OPEN"} -> "EMPTY"
                   [] s.job.state = "GRIP_CLOSE" -> "HELD"
                   [] OTHER -> s.job.payload
      t == [s EXCEPT !.job.payload = payload]
  IN IF s.job.state = "SAFE_RETREAT" THEN FinishComplete(t)
     ELSE Enter(t, NextState(s.job.state, s.job.task))

\* start_subflow
StartSubflow(s) ==
  LET type == Expected(s.job.state)
  IN IF MayStart(s, type) THEN [Begun(s, type, s.job.task) EXCEPT !.job.started = TRUE]
     ELSE HandleFault(s, "TRANSIENT")

\* poll_subflow_state
SubflowState(s, late) ==
  IF ~s.job.started THEN StartSubflow(s)
  ELSE IF s.sub.task # s.job.task \/ s.sub.type # Expected(s.job.state)
  THEN HandleFault(s, "TRANSIENT")
  ELSE IF s.sub.state = "COMPLETE" THEN Advance(s)
  ELSE IF s.sub.state = "FAULT" THEN HandleFault(s, s.sub.reason)
  ELSE IF late THEN HandleFault(s, "TRANSIENT")
  ELSE s

\* The states that wait a moment for whoever looks on.
AfterMarker(s) ==
  CASE s.job.state \in {"FRONT_RED_READY", "FRONT_TAG_READY"} -> "ALIGN_XZ"
    [] s.job.state = "DOWN_FRAME_READY" -> "ALIGN_XY"
    [] s.job.state = "STABLE" ->
         IF s.job.task \notin Puts THEN "RECORD_XYZ"
         ELSE IF s.job.task = "TAG_PUT" THEN "BLIND_Y" ELSE "TOF3_Z_DESCEND"
Markers == {"FRONT_RED_READY", "FRONT_TAG_READY", "DOWN_FRAME_READY", "STABLE"}

\* The wait for the axes to rest before a restart.
AwaitIdle(s, late) ==
  IF \E a \in Axes : s.axis[a] \in {"fault", "unref"} THEN FinishTerminal(s, "TRANSIENT")
  ELSE IF AllIdle(s) THEN Enter(s, "RECOVER_PRESET")
  ELSE IF late THEN FinishTerminal(s, "TRANSIENT")
  ELSE s

\* A cancellation: first that of the subflow, then that of the mission.
Aborting(s) ==
  IF ~Active(s.sub) THEN FinishTerminal(s, "FINAL")
  ELSE [s EXCEPT !.sub.cancel = @ \/ ~s.job.issued, !.job.issued = TRUE]

\* process_start_request
ProcessStart(s) ==
  LET t == [s EXCEPT !.job.start = "NONE", !.job.task = s.job.start]
  IN IF Active(s.sub) \/ s.co.owner # "NONE" \/ s.co.latch \/ s.co.abort
     THEN Enter(t, "FAULT")
     ELSE Enter([t EXCEPT !.co.owner = "MISSION", !.sub.retain = TRUE,
                          !.job.restarts = 0, !.job.issued = FALSE],
                IF t.job.task \in Puts THEN "PRECHECK_HELD" ELSE "PRECHECK")

\* The state machine, in a pass without cancellation, fault of the owner or time-out.
StateStep(s, late, configured, drop) ==
  CASE s.job.state = "RECOVERY_WAIT_IDLE" -> AwaitIdle(s, late)
    [] s.job.state \in {"PRECHECK", "PRECHECK_HELD"} -> Precheck(s, configured)
    [] s.job.state \in Markers -> IF late THEN Enter(s, AfterMarker(s)) ELSE s
    [] s.job.state = "VERIFY" ->
         IF s.job.payload = "HELD" THEN Enter(s, "SAFE_RETREAT") ELSE HandleFault(s, "TRANSIENT")
    [] s.job.state = "OPTIONAL_Z_DROP" /\ ~drop -> Enter(s, "GRIP_OPEN")
    [] OTHER -> SubflowState(s, late)

\* MissionTask_Poll of an active mission.
ActiveStep(s, late, expired, configured, drop) ==
  LET t == IF s.job.cancel
           THEN Enter([s EXCEPT !.job.cancel = FALSE, !.job.issued = FALSE], "ABORTING")
           ELSE s
  IN IF t.job.state = "ABORTING" THEN Aborting(t)
     ELSE IF t.co.latch \/ t.co.owner # "MISSION" THEN FinishTerminal(t, "FINAL")
     ELSE IF expired THEN FinishTerminal(t, "TRANSIENT")
     ELSE StateStep(t, late, configured, drop)

\* MissionTask_Poll
Task(late, expired, configured, drop) ==
  LET s == IF job.start # "NONE" /\ job.state \in Resting THEN ProcessStart(World) ELSE World
      t == IF s.job.state \in Resting THEN s
           ELSE ActiveStep(s, late, expired, configured, drop)
  IN Become(t) /\ job' = t.job

\* The task's configuration is there or not; a TAG_PUT has a descent or has none, and
\* that does not change while it is active. Without a mission there is nothing to be late.
TaskPoll(late, expired) ==
  /\ pc = "task" /\ pc' = "align"
  /\ \E configured, drop \in BOOLEAN :
       /\ job.started => drop
       /\ ~MissionActive => configured /\ drop /\ ~late /\ ~expired
       /\ Task(late, expired, configured, drop)
  /\ UNCHANGED busy /\ Rest

SubflowPoll(late) ==
  /\ pc = "subflow" /\ pc' = "task"
  /\ late => Active(sub)
  /\ FlowPoll(late)
  /\ UNCHANGED <<busy, job>> /\ Rest

VisionPoll(late) ==
  /\ pc = "align" /\ pc' = "coord"
  /\ late => AlignActive(Now)
  /\ AlignPoll(late)
  /\ UNCHANGED <<busy, job>> /\ Rest

-----------------------------------------------------------------------------
(* The axes and the C552.                                                  *)

Between == pc = "coord" /\ UNCHANGED pc

\* An axis comes to the end of its motion or recovery.
AxisEnds(a) ==
  /\ Between
  /\ axis[a] \in {"moving", "stopping", "recovering"}
  /\ axis' = [axis EXCEPT ![a] = IF a \in Unhomed THEN "unref" ELSE "idle"]
  /\ UNCHANGED <<co, news, sub, align, k, busy, job>> /\ Rest

\* An axis in motion fails: an alarm, a refusal, a deadline.
AxisFaults(a) ==
  /\ Between /\ trouble < MaxTrouble /\ trouble' = trouble + 1
  /\ axis[a] \in {"moving", "stopping", "recovering"}
  /\ axis' = [axis EXCEPT ![a] = "fault"]
  /\ news' = (news \/ a = "Z")
  /\ UNCHANGED <<co, sub, align, k, busy, job, grip, requests>>

\* A line is taken by somebody else's frame.
LineBusy(line) ==
  /\ Between /\ trouble < MaxTrouble /\ trouble' = trouble + 1
  /\ busy' = busy \cup {line} /\ line \notin busy
  /\ UNCHANGED <<co, axis, news, sub, align, k, job, grip, requests>>

LineFree(line) ==
  /\ Between
  /\ line \in busy /\ busy' = busy \ {line}
  /\ UNCHANGED <<co, axis, news, sub, align, k, job>> /\ Rest

\* What the gripper does for a command.
Position(what) == IF what = "GRIP_CLOSE" THEN "closed" ELSE "open"

\* The C552 answers, or its answer fails to come; the command may be done even then.
C552Settles ==
  /\ Between /\ k.state = "active"
  /\ \E state \in {"applied", "failed"}, done \in BOOLEAN :
       /\ state = "applied" => done
       /\ k' = [k EXCEPT !.state = state]
       /\ grip' = IF done /\ k.what \in GripTypes THEN Position(k.what) ELSE grip
  /\ UNCHANGED <<co, axis, news, sub, align, busy, job, requests, trouble>>

-----------------------------------------------------------------------------
(* The operator, from the shell or the network.                            *)

Request == requests < MaxRequests /\ requests' = requests + 1

RequestAbort ==
  /\ Request /\ ~co.abort
  /\ co' = [co EXCEPT !.abort = TRUE]
  /\ UNCHANGED <<axis, news, sub, align, k, busy, pc, job, grip, trouble>>

\* MissionTask_RequestStart
RequestStart(t) ==
  /\ Between /\ Request
  /\ ~MissionActive /\ ~Active(sub) /\ co.owner = "NONE" /\ ~co.latch
  /\ job' = [job EXCEPT !.start = t]
  /\ UNCHANGED <<flowvars, grip, trouble>>

\* MissionTask_RequestCancel
RequestCancel ==
  /\ Between /\ Request /\ MissionActive
  /\ job' = [job EXCEPT !.cancel = TRUE]
  /\ UNCHANGED <<flowvars, grip, trouble>>

\* MissionTask_SetPayload
SetPayload(payload) ==
  /\ Between /\ Request /\ ~MissionActive
  /\ job' = [job EXCEPT !.payload = payload]
  /\ UNCHANGED <<flowvars, grip, trouble>>

\* execute_axis_stop: under a mission it asks for the cancellation and stops the axis.
AxisStop(a) ==
  /\ Between /\ Request
  /\ job' = [job EXCEPT !.cancel = @ \/ (co.owner = "MISSION" /\ MissionActive)]
  /\ Become(StopThese(Now, {a}))
  /\ UNCHANGED <<busy, grip, trouble>>

\* The shell starts a subflow by itself.
StartFlow(type, task) ==
  /\ Between /\ Request /\ ~MissionActive /\ MayStart(Now, type)
  /\ type = "BLIND_Y" => task # "FRAME_PUT"
  /\ Become(Begun(Now, type, task))
  /\ UNCHANGED <<busy, job, grip, trouble>>

\* sf_abort
CancelFlow ==
  /\ Between /\ Request /\ ~MissionActive /\ Active(sub)
  /\ sub' = [sub EXCEPT !.cancel = TRUE]
  /\ UNCHANGED <<co, axis, news, align, k, busy, job, grip, trouble>>

\* A manual move: the ownership is taken and given back at rest.
ManualMove(a) ==
  /\ Between /\ Request
  /\ ~co.abort /\ ~co.latch /\ co.owner \in {"NONE", "MANUAL"} /\ MayMove(Now, a)
  /\ Become([Moved(Now, a) EXCEPT !.co.owner = "MANUAL"])
  /\ UNCHANGED <<busy, job, grip, trouble>>

\* A manual gripper command.
ManualGrip(what) ==
  /\ Between /\ Request
  /\ ~co.abort /\ ~co.latch /\ co.owner \in {"NONE", "MANUAL"} /\ k.state # "active"
  /\ Become([Now EXCEPT !.co.owner = "MANUAL", !.k = [what |-> what, state |-> "active"]])
  /\ UNCHANGED <<busy, job, grip, trouble>>

-----------------------------------------------------------------------------
Pass ==
  \/ CoordPoll
  \/ \E late \in BOOLEAN : SubflowPoll(late)
  \/ \E late, expired \in BOOLEAN : TaskPoll(late, expired)
  \/ \E late \in BOOLEAN : VisionPoll(late)

Devices ==
  \/ \E a \in Axes : AxisEnds(a) \/ AxisFaults(a)
  \/ \E line \in {"XY", "Z"} : LineBusy(line) \/ LineFree(line)
  \/ C552Settles

Operator ==
  \/ Emergency \/ RequestAbort \/ RequestCancel \/ CancelFlow
  \/ \E t \in Tasks : RequestStart(t)
  \/ \E payload \in {"EMPTY", "HELD"} : SetPayload(payload)
  \/ \E a \in Axes : AxisStop(a) \/ ManualMove(a)
  \/ \E type \in Flows, task \in Tasks : StartFlow(type, task)
  \/ \E what \in GripTypes : ManualGrip(what)

Next == Pass \/ Devices \/ Operator

Spec == Init /\ [][Next]_vars

-----------------------------------------------------------------------------
SubType == [type : FlowTypes \cup {"NONE", "ABORT_ALL"}, task : MissionTasks,
            state : FlowStates, attempt : 0 .. MaxAttempts, recoveries : 0 .. MaxRecoveries,
            stage : 0 .. 3, issued : BOOLEAN, stable : 0 .. StableSamples,
            left : 0 .. MaxSegments, reason : Reasons, cancel : BOOLEAN,
            retain : BOOLEAN, recorded : BOOLEAN]
JobType == [task : MissionTasks, state : MissionStates, payload : {"EMPTY", "HELD"},
            restarts : 0 .. MaxRestarts, started : BOOLEAN, cancel : BOOLEAN,
            issued : BOOLEAN, start : MissionTasks \cup {"NONE"}]
CoType == [owner : {"NONE", "MANUAL", "MISSION"}, latch : BOOLEAN, abort : BOOLEAN,
           stop : {"none", "begun", "sent"}]
CommandType == [what : ObserveTypes \cup GripTypes \cup {"NONE"},
                state : {"idle", "active", "applied", "failed"}]

\* The variables stay within their types; attempts and recoveries within their budgets.
TypeOK ==
  /\ co \in CoType
  /\ axis \in [Axes -> AxisStates]
  /\ news \in BOOLEAN
  /\ sub \in SubType
  /\ align \in [state : AlignStates, why : AlignFaults]
  /\ k \in CommandType
  /\ busy \subseteq {"XY", "Z"}
  /\ pc \in {"coord", "subflow", "task", "align"}
  /\ job \in JobType
  /\ grip \in {"open", "closed"}
  /\ requests \in 0 .. MaxRequests /\ trouble \in 0 .. MaxTrouble

\* From its start to its end, through every gap between subflows and every restart, a
\* mission owns the axes; only the abort takes them away.
MissionOwns == job.state \notin Resting => co.owner = "MISSION" \/ co.latch

\* The subflow that runs under a mission is the one its state stands for: no restart,
\* cancellation or fault leaves one behind, and the shell starts none beside it.
FlowBelongs ==
  job.state \notin Resting /\ Active(sub) =>
    /\ sub.task = job.task /\ sub.retain
    /\ job.state = "ABORTING" \/ (job.started /\ sub.type = Expected(job.state))

\* No alignment goes on moving axes when its subflow has ended, is being tried again or
\* has become another one.
NoOrphanAlign == AlignActive(Now) => sub.type \in AlignTypes /\ sub.state = "RUNNING"

\* A mission sets one axis in motion at a time, also after a fault, a recovery or a stop
\* that its line has swallowed.
OneAxisMoves ==
  job.state \notin Resting => Cardinality({a \in Axes : axis[a] = "moving"}) <= 1

\* A mission that puts something down holds it until it opens the gripper, over any
\* number of restarts.
Carrying == {"PRESET_POSE", "TAG_OBSERVE", "FRAME_OBSERVE", "FRONT_TAG_READY",
             "DOWN_FRAME_READY", "ALIGN_XZ", "ALIGN_XY", "STABLE", "BLIND_Y",
             "OPTIONAL_Z_DROP", "TOF3_Z_DESCEND", "GRIP_OPEN", "RECOVERY_WAIT_IDLE",
             "RECOVER_PRESET"}
PutHolds == job.task \in Puts /\ job.state \in Carrying => job.payload = "HELD"

\* What a mission records of its payload is what the gripper did: no time-out, restart or
\* answer to another command is taken for the motion.
RecordsTruth ==
  [][job.state \notin Resting /\ job'.payload # job.payload =>
       (job'.payload = "HELD" <=> grip = "closed")]_vars

\* After the abort has latched nothing is set in motion any more.
NothingAfterLatch ==
  [][\A a \in Axes : co.latch /\ axis'[a] = "moving" => axis[a] = "moving"]_vars
=============================================================================
