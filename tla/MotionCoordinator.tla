-------------------------- MODULE MotionCoordinator --------------------------
(***************************************************************************)
(* Who may move the gantry, and how it is stopped: motion_coordinator.c    *)
(* with the X and Y axes of xy_motor.c, the four automatic tasks and the   *)
(* shell that compete for the axes, and the Z axis as ZPromise gives it.   *)
(*                                                                         *)
(* Two contexts interleave. Everything that moves an axis or a task runs   *)
(* under the application mutex: the shell during a command, and the        *)
(* LegacyIo loop during its main part, which is skipped while a command is *)
(* running. The emergency part of the loop (Emergency) and RequestAbort    *)
(* take no mutex: they preempt a shell command between any two steps.      *)
(***************************************************************************)
EXTENDS Naturals, FiniteSets

CONSTANTS
  Tasks,        \* the automatic owners modelled, out of AutomaticOwners
  Homed,        \* TRUE: behaviours begin when the startup homing has completed,
                \* FALSE: at power-on
  MaxCommands,  \* bound: shell commands and requests in one behaviour
  MaxTrouble    \* bound: bus outages and driver alarms in one behaviour

AutomaticOwners == {"P2_CALIBRATION", "P3_CALIBRATION", "XY_ALIGN", "P4_XZ_ALIGN"}
Calibrations == {"P2_CALIBRATION", "P3_CALIBRATION"}
AxisNames == {"X", "Y"}

ASSUME ConstantsAssumption ==
  /\ Tasks \subseteq AutomaticOwners
  /\ Homed \in BOOLEAN
  /\ MaxCommands \in Nat
  /\ MaxTrouble \in Nat

VARIABLES
  m,         \* MotionCoordinatorStatus g_motion and the flags beside it
  xy,        \* XY_AxisRuntime of X and Y, and the motors they command
  stage,     \* g_stop_all_stage
  startup,   \* XY_StartupState
  task,      \* the state of each automatic task
  z,         \* the Z axis
  shell,     \* the command the shell is executing, with the mutex held
  bus,       \* the CAN bus to the two drivers: "ok", "lossy" or "off"
  late,      \* history: axes commanded to move after the latch was set
  manual,    \* history: axes whose last motion command was the shell's
  commands, trouble

vars == <<m, xy, stage, startup, task, z, shell, bus, late, manual, commands, trouble>>

Z == INSTANCE ZPromise

-----------------------------------------------------------------------------
Owners == {"NONE", "MANUAL"} \cup Tasks
XYStates == {"UNREFERENCED", "IDLE", "STARTING", "MOVING", "STOPPING", "HOMING", "FAULT"}
StartupStates == {"WAITING_REPLIES", "WAITING_TO_HOME_X", "HOMING_X",
                  "WAITING_TO_HOME_Y", "HOMING_Y", "COMPLETE", "SKIPPED", "FAILED"}
Acks == {"MOVE", "STOP", "HOME"}

\* A task is "running" while it may move its axes, "manual" in MANUAL_ALIGN, then
\* "waiting" for the axes to be idle and "capturing" the reference.
TaskStates == {"off", "running", "manual", "waiting", "capturing"}

ShellIdle == [step |-> "idle", op |-> "move", axis |-> "X"]

Init ==
  /\ m = [owner |-> "NONE", latch |-> FALSE, abort |-> FALSE, cancel |-> "NONE",
          stop |-> FALSE, hold |-> FALSE, sent |-> FALSE, zFaulted |-> FALSE]
  /\ xy = [x \in AxisNames |->
             [state |-> IF Homed THEN "IDLE" ELSE "UNREFERENCED", valid |-> Homed, waiting |-> {},
              replies |-> {}, home |-> "none", motor |-> FALSE]]
  /\ stage = 0
  /\ startup = IF Homed THEN "COMPLETE" ELSE "WAITING_REPLIES"
  /\ task = [o \in Tasks |-> "off"]
  /\ z = "REST"
  /\ shell = ShellIdle
  /\ bus = "ok"
  /\ late = {} /\ manual = {}
  /\ commands = 0 /\ trouble = 0

\* Mutant: a shell command does not take the mutex.
MutexAlways == TRUE

MutexFree == shell.step = "idle"

Command == commands < MaxCommands /\ commands' = commands + 1
Trouble == trouble < MaxTrouble /\ trouble' = trouble + 1

-----------------------------------------------------------------------------
(* The X and Y axes. A frame reaches the driver, is lost on the way, or is *)
(* refused by the CAN controller, as the bus has it; the driver answers a  *)
(* frame that reaches it.                                                  *)

Refused == bus = "off"
Answered(a, ack) == IF bus = "ok" THEN a.replies \cup {ack} ELSE a.replies

RestState(a) == IF a.valid THEN "IDLE" ELSE "UNREFERENCED"
Busy(a) == a.state \in {"STARTING", "MOVING", "STOPPING", "HOMING"}
AckPending == \E x \in AxisNames : xy[x].waiting # {}

\* xy_set_fault_internal
Faulted(a) ==
  IF a.state = "FAULT" THEN a
  ELSE [a EXCEPT !.state = "FAULT", !.waiting = {}, !.home = "none"]

\* XY_Stop. It has no guard: an axis in FAULT is stopped, and leaves FAULT, too.
Stopped(a) ==
  IF Refused THEN Faulted(a)
  ELSE [a EXCEPT !.state = "STOPPING",
                 !.waiting = (@ \ {"MOVE", "HOME"}) \cup {"STOP"},
                 !.replies = Answered(a, "STOP"),
                 !.motor = @ /\ bus # "ok"]

\* XY_MoveRelative: the frame, and what is written after it.
MoveFrame(a) == [a EXCEPT !.replies = Answered(a, "MOVE"), !.motor = @ \/ bus = "ok"]
MoveRecord(a) == [a EXCEPT !.state = "STARTING", !.waiting = @ \cup {"MOVE"}]

\* XY_HomeSensorless: ORIGIN_BREAK, which does not move the motor.
HomeFrame(a) == [a EXCEPT !.replies = Answered(a, "HOME")]
HomeRecord(a) == [a EXCEPT !.state = "HOMING", !.valid = FALSE, !.home = "prepare",
                           !.waiting = @ \cup {"HOME"}]

\* xy_validate_move and the guards of XY_HomeSensorless.
MayMove(x) == ~AckPending /\ xy[x].state = "IDLE" /\ xy[x].valid
MayHome(x) == ~AckPending /\ xy[x].state \in {"IDLE", "UNREFERENCED"}

-----------------------------------------------------------------------------
(* The coordinator works on the whole motion state at once: s holds m, xy, *)
(* stage, task and z; halted tells whether ZAxisControl_Stop gets through, *)
(* which it does not while the UART is busy.                               *)

Now == [m |-> m, xy |-> xy, stage |-> stage, task |-> task, z |-> z]

Become(s) ==
  /\ m' = s.m /\ xy' = s.xy /\ stage' = s.stage /\ task' = s.task /\ z' = s.z

\* Mutant: an axis in FAULT is waited for.
AxesStoppedHealthy(s) ==
  /\ \A x \in AxisNames : s.xy[x].state \in {"IDLE", "UNREFERENCED"}
  /\ s.z \notin {"MOVING", "STOPPING", "RECOVERING"}

\* axes_stopped: an axis in FAULT counts as stopped.
AxesStopped(s) ==
  /\ \A x \in AxisNames : ~Busy(s.xy[x])
  /\ s.z \notin {"MOVING", "STOPPING", "RECOVERING"}

\* xy_stop_all: X at once, Y after the bus guard time (StopAllY); nothing at all
\* while an earlier unified stop is still under way.
StopAll(s) ==
  IF s.stage # 0 THEN s
  ELSE [s EXCEPT !.xy["X"] = Stopped(@), !.stage = 1]

StopMoving(s, axes, states) ==
  [s EXCEPT !.xy = [x \in AxisNames |->
     IF x \in axes /\ s.xy[x].state \in states THEN Stopped(s.xy[x]) ELSE s.xy[x]]]

StopZ(s, phases, halted) ==
  IF halted /\ s.z \in phases THEN [s EXCEPT !.z = "STOPPING"] ELSE s

Released(s, o) == IF s.m.owner = o THEN [s EXCEPT !.m.owner = "NONE"] ELSE s

Axes(o) == IF o \in {"P2_CALIBRATION", "XY_ALIGN"} THEN {"X", "Y"} ELSE {"X"}
UsesZ(o) == o \in {"P3_CALIBRATION", "P4_XZ_ALIGN"}

\* What the four *_Abort functions do to the axes of an active task.
TaskStop(s, o, halted) ==
  CASE o = "P2_CALIBRATION" ->
         IF s.task[o] \in {"running", "waiting"} THEN StopAll(s) ELSE s
    [] o = "P3_CALIBRATION" ->
         StopZ(StopMoving(s, {"X"}, {"STARTING", "MOVING", "STOPPING"}),
               {"MOVING", "STOPPING"}, halted)
    [] o = "XY_ALIGN" -> StopMoving(s, {"X", "Y"}, {"STARTING", "MOVING"})
    [] OTHER -> StopZ(StopMoving(s, {"X"}, {"STARTING", "MOVING"}), {"MOVING"}, halted)

\* VisionCalibration_Abort, XZCalibration_Abort, XY_VisionAlign_Abort and
\* XZVisionAlign_Abort; the last two release their ownership themselves.
TaskAbort(s, o, halted) ==
  IF o \notin Tasks \/ s.task[o] = "off" THEN s
  ELSE LET t == [TaskStop(s, o, halted) EXCEPT !.task[o] = "off"]
       IN IF o \in Calibrations THEN t ELSE Released(t, o)

\* abort_all_tasks
AbortAllTasks(s, halted) ==
  LET p2 == TaskAbort(s, "P2_CALIBRATION", halted)
      p3 == TaskAbort(p2, "P3_CALIBRATION", halted)
      align == TaskAbort(p3, "XY_ALIGN", halted)
  IN TaskAbort(align, "P4_XZ_ALIGN", halted)

\* begin_stop. Its reset of g_z_fault_count_at_acquire is never read again: an
\* owner is only acquired, and the count taken anew, when no latch is set.
BeginStop(s) == [s EXCEPT !.m.stop = TRUE, !.m.sent = FALSE]

\* Mutant: only the axis that xy_stop_all has reached is waited for.
PollStopX(s, halted) ==
  LET t == IF s.m.sent THEN s ELSE [StopAll(s) EXCEPT !.m.sent = TRUE]
      u == StopZ(t, {"MOVING"}, halted)
  IN [u EXCEPT !.m.stop = Busy(u.xy["X"])]

\* poll_stop
PollStop(s, halted) ==
  LET t == IF s.m.sent THEN s ELSE [StopAll(s) EXCEPT !.m.sent = TRUE]
      u == StopZ(t, {"MOVING"}, halted)
  IN [u EXCEPT !.m.stop = ~AxesStopped(u)]

\* owner_axis_faulted
OwnerAxisFaulted(s, o) ==
  \/ \E x \in Axes(o) : s.xy[x].state = "FAULT"
  \/ UsesZ(o) /\ (s.z = "FAULT" \/ s.m.zFaulted)

\* Mutant: an abort leaves the owner to the automatic release.
AbortOwnerKept(s, halted) ==
  LET t == AbortAllTasks([s EXCEPT !.m.abort = FALSE, !.m.cancel = "NONE",
                                   !.m.latch = TRUE], halted)
  IN IF t.m.stop THEN t ELSE BeginStop(t)

AbortBranch(s, halted) ==
  LET t == [AbortAllTasks([s EXCEPT !.m.abort = FALSE, !.m.cancel = "NONE",
                                    !.m.latch = TRUE], halted)
              EXCEPT !.m.owner = "NONE"]
  IN IF t.m.stop THEN t ELSE BeginStop(t)

FaultBranch(s, halted) ==
  [AbortAllTasks([s EXCEPT !.m.cancel = "NONE"], halted) EXCEPT !.m.owner = "NONE"]

\* A cancellation is dropped when somebody else owns the axes.
CancelPhase(s, halted) ==
  LET o == s.m.cancel
      t == [s EXCEPT !.m.cancel = "NONE"]
  IN IF o \in Tasks /\ s.m.owner \in {o, "NONE"}
     THEN Released(TaskAbort(t, o, halted), o)
     ELSE t

\* Mutant: a manual owner is released although it is held.
AutoReleaseHeld(s) ==
  IF s.m.owner \in Tasks /\ s.task[s.m.owner] = "off" THEN Released(s, s.m.owner)
  ELSE IF s.m.owner = "MANUAL" /\ ~s.m.stop /\ AxesStopped(s)
  THEN Released(s, "MANUAL")
  ELSE s

\* The release of an owner whose task is over, or whose manual motion is. (That
\* C552_CommandIsActive may delay the latter is left out.)
AutoRelease(s) ==
  IF s.m.owner \in Tasks /\ s.task[s.m.owner] = "off" THEN Released(s, s.m.owner)
  ELSE IF s.m.owner = "MANUAL" /\ ~s.m.hold /\ ~s.m.stop /\ AxesStopped(s)
  THEN Released(s, "MANUAL")
  ELSE s

\* MotionCoordinator_Poll
CoordPoll(halted) ==
  /\ MutexFree
  /\ LET a == IF m.abort THEN AbortBranch(Now, halted)
              ELSE IF m.owner \in Tasks /\ OwnerAxisFaulted(Now, m.owner)
              THEN FaultBranch(Now, halted)
              ELSE Now
         c == CancelPhase(a, halted)
         p == IF c.m.stop THEN PollStop(c, halted) ELSE c
     IN Become(AutoRelease(p))
  /\ UNCHANGED <<startup, shell, bus, late, manual, commands, trouble>>

\* MotionCoordinator_PollEmergency, with or without the mutex.
Emergency(halted) ==
  /\ m.abort
  /\ ~m.latch \/ m.stop
  /\ Become(PollStop(IF m.latch THEN Now ELSE BeginStop([Now EXCEPT !.m.latch = TRUE]),
                     halted))
  /\ UNCHANGED <<startup, shell, bus, late, manual, commands, trouble>>

-----------------------------------------------------------------------------
(* XY_Motor_Poll and xy_response_callback.                                 *)

\* The axis x becomes a, and nothing else but the histories changes.
XYStep(x, a) ==
  /\ xy' = [xy EXCEPT ![x] = a]
  /\ UNCHANGED <<m, stage, startup, task, z, shell, bus, commands>>

Moved(axes, who) ==
  /\ late' = IF m.latch THEN late \cup axes ELSE late
  /\ manual' = IF who = "shell" THEN manual \cup axes ELSE manual \ axes

\* xy_poll_stop_all
StopAllY ==
  /\ MutexFree /\ stage = 1
  /\ xy' = [xy EXCEPT !["Y"] = Stopped(@)]
  /\ stage' = 2
  /\ UNCHANGED <<m, startup, task, z, shell, bus, late, manual, commands, trouble>>

\* Mutant: the stage is not reset.
StopAllDoneCounting ==
  /\ MutexFree /\ stage = 2
  /\ \A x \in AxisNames : "STOP" \notin xy[x].waiting /\ xy[x].state # "STOPPING"
  /\ stage' = stage + 1
  /\ UNCHANGED <<m, xy, startup, task, z, shell, bus, late, manual, commands, trouble>>

StopAllDone ==
  /\ MutexFree /\ stage = 2
  /\ \A x \in AxisNames : "STOP" \notin xy[x].waiting /\ xy[x].state # "STOPPING"
  /\ stage' = 0
  /\ UNCHANGED <<m, xy, startup, task, z, shell, bus, late, manual, commands, trouble>>

\* FCT_POS_REL_MODE answered.
MoveAck(x) ==
  /\ MutexFree /\ "MOVE" \in xy[x].replies
  /\ XYStep(x, [xy[x] EXCEPT !.replies = @ \ {"MOVE"}, !.waiting = @ \ {"MOVE"},
                             !.state = IF @ = "STARTING" THEN "MOVING" ELSE @])
  /\ UNCHANGED <<late, manual, trouble>>

\* FCT_STOP_NOW answered: the axis is at rest, whatever it was doing.
StopAck(x) ==
  /\ MutexFree /\ "STOP" \in xy[x].replies
  /\ LET a == [xy[x] EXCEPT !.replies = @ \ {"STOP"}]
     IN XYStep(x, IF "STOP" \in a.waiting
                  THEN [a EXCEPT !.waiting = @ \ {"STOP"}, !.state = RestState(a)]
                  ELSE a)
  /\ UNCHANGED <<late, manual, trouble>>

\* A step of the homing sequence answered: "prepare" stands for ORIGIN_BREAK up to
\* the parameters, "running" for ORIGIN_LIMIT_HOME and what follows it.
HomeAck(x) ==
  /\ MutexFree /\ "HOME" \in xy[x].replies
  /\ XYStep(x, [xy[x] EXCEPT !.replies = @ \ {"HOME"}, !.waiting = @ \ {"HOME"}])
  /\ UNCHANGED <<late, manual, trouble>>

\* xy_poll_home_action: ORIGIN_LIMIT_HOME, after which the motor runs.
HomeRun(x) ==
  /\ MutexFree /\ stage = 0 /\ ~AckPending
  /\ xy[x].state = "HOMING" /\ xy[x].home = "prepare"
  /\ XYStep(x, IF Refused THEN Faulted(xy[x])
               ELSE [HomeFrame(xy[x]) EXCEPT !.home = "running", !.waiting = {"HOME"},
                                             !.motor = @ \/ bus = "ok"])
  /\ Moved(IF bus = "ok" THEN {x} ELSE {}, IF x \in manual THEN "shell" ELSE "task")
  /\ UNCHANGED trouble

HomeDone(x) ==
  /\ MutexFree
  /\ xy[x].state = "HOMING" /\ xy[x].home = "running" /\ xy[x].waiting = {}
  /\ ~xy[x].motor
  /\ XYStep(x, [xy[x] EXCEPT !.state = "IDLE", !.valid = TRUE, !.home = "none"])
  /\ UNCHANGED <<late, manual, trouble>>

\* The driver reports that it has arrived or stands still, or the position that it
\* has settled: all taken as the end of the motion.
Arrived(x) ==
  /\ MutexFree /\ ~xy[x].motor
  /\ \/ xy[x].state = "MOVING"
        /\ XYStep(x, [xy[x] EXCEPT !.state = "IDLE"])
     \/ xy[x].state = "STOPPING"
        /\ XYStep(x, [xy[x] EXCEPT !.state = RestState(xy[x])])
  /\ UNCHANGED <<late, manual, trouble>>

\* A deadline of XY_Motor_Poll passes, or the driver answers with an error. Time is
\* not modelled: a deadline may pass at any moment.
AxisTimeout(x) ==
  /\ MutexFree
  /\ xy[x].waiting # {} \/ Busy(xy[x])
  /\ XYStep(x, Faulted(xy[x]))
  /\ UNCHANGED <<late, manual, trouble>>

\* A preparation step of the homing is repeated; what it waited for was lost.
HomeRetry(x) ==
  /\ MutexFree
  /\ xy[x].state = "HOMING" /\ xy[x].home = "prepare" /\ "HOME" \in xy[x].waiting
  /\ XYStep(x, [xy[x] EXCEPT !.waiting = @ \ {"HOME"}])
  /\ UNCHANGED <<late, manual, trouble>>

\* Stall or undervoltage, reported in any state.
DriverAlarm(x) ==
  /\ MutexFree
  /\ xy[x].state # "FAULT"
  /\ XYStep(x, Faulted(xy[x]))
  /\ Trouble
  /\ UNCHANGED <<late, manual>>

\* xy_poll_startup_homing. It runs whoever owns the axes and whatever is latched.
StartupHome(x, next) ==
  IF ~MayHome(x) THEN UNCHANGED <<xy, startup, manual>>
  ELSE IF Refused THEN startup' = "FAILED" /\ UNCHANGED <<xy, manual>>
  ELSE /\ xy' = [xy EXCEPT ![x] = HomeRecord(HomeFrame(@))]
       /\ startup' = next
       /\ manual' = manual \ {x}

StartupHoming(x, next) ==
  /\ startup' = CASE xy[x].state = "IDLE" -> next
                  [] xy[x].state = "FAULT" -> "FAILED"
                  [] OTHER -> startup
  /\ UNCHANGED <<xy, manual>>

StartupPoll ==
  /\ MutexFree /\ stage = 0
  /\ CASE startup = "WAITING_REPLIES" ->
            /\ IF \E x \in AxisNames : xy[x].state = "HOMING" THEN startup' = "FAILED"
               ELSE startup' \in {"WAITING_TO_HOME_X", "SKIPPED"}
            /\ UNCHANGED <<xy, manual>>
       [] startup = "WAITING_TO_HOME_X" -> StartupHome("X", "HOMING_X")
       [] startup = "HOMING_X" -> StartupHoming("X", "WAITING_TO_HOME_Y")
       [] startup = "WAITING_TO_HOME_Y" -> StartupHome("Y", "HOMING_Y")
       [] startup = "HOMING_Y" -> StartupHoming("Y", "COMPLETE")
       [] OTHER -> UNCHANGED <<xy, startup, manual>>
  /\ UNCHANGED <<m, stage, task, z, shell, bus, late, commands, trouble>>

\* The motor comes to the end of its motion.
MotorDone(x) ==
  /\ xy[x].motor
  /\ XYStep(x, [xy[x] EXCEPT !.motor = FALSE])
  /\ UNCHANGED <<late, manual, trouble>>

\* Frames are lost or refused while the bus is disturbed.
BusDown ==
  /\ bus = "ok" /\ bus' \in {"lossy", "off"}
  /\ Trouble
  /\ UNCHANGED <<m, xy, stage, startup, task, z, shell, late, manual, commands>>

BusUp ==
  /\ bus # "ok" /\ bus' = "ok"
  /\ UNCHANGED <<m, xy, stage, startup, task, z, shell, late, manual, commands, trouble>>

\* The Z axis settles by itself; z.fault_count moves on with every fault.
ZSettle ==
  /\ MutexFree
  /\ \/ Z!ZEnd /\ UNCHANGED m
     \/ Z!ZRecovered /\ UNCHANGED m
     \/ Z!ZFail /\ z # "FAULT" /\ m' = [m EXCEPT !.zFaulted = TRUE]
  /\ UNCHANGED <<xy, stage, startup, task, shell, bus, late, manual, commands, trouble>>

-----------------------------------------------------------------------------
(* Ownership.                                                              *)

\* MotionCoordinator_Acquire
MayAcquire(o) ==
  ~m.abort /\ m.cancel # o /\ ~m.latch /\ m.owner \in {"NONE", o}

Acquired(o) ==
  [m EXCEPT !.owner = o, !.zFaulted = IF m.owner = "NONE" THEN FALSE ELSE @]

\* shell_acquire_manual: also sets or clears the hold.
ManualAcquired(hold) == [Acquired("MANUAL") EXCEPT !.hold = hold]

\* MotionCoordinator_RequestAbort: the abort command, the emergency key of either
\* console or an emergency stop from the network.
RequestAbort ==
  /\ Command
  /\ m' = [m EXCEPT !.abort = TRUE]
  /\ UNCHANGED <<xy, stage, startup, task, z, shell, bus, late, manual, trouble>>

\* MotionCoordinator_RequestCancel: p2_abort, p3_abort, align_stop and p4_abort.
RequestCancel(o) ==
  /\ MutexFree /\ Command
  /\ m' = [m EXCEPT !.cancel = o]
  /\ UNCHANGED <<xy, stage, startup, task, z, shell, bus, late, manual, trouble>>

-----------------------------------------------------------------------------
(* The shell. A motion command acquires MANUAL, checks, sends its frame    *)
(* and records it; the emergency part of the loop may run in between.      *)

Inactive(o) == o \in Tasks => task[o] = "off"
ManualMotionAllowed(o) == o \in Tasks => task[o] \in {"off", "manual"}

\* The checks of cmd_xy_move_axis, cmd_x_home, cmd_y_home and cmd_z_move.
Allowed(op, x) ==
  /\ Inactive("P4_XZ_ALIGN")
  /\ x = "Z" => ManualMotionAllowed("P3_CALIBRATION")
  /\ x # "Z" => /\ ManualMotionAllowed("P2_CALIBRATION")
                /\ Inactive("XY_ALIGN")
                /\ IF op = "move" /\ x = "X" THEN ManualMotionAllowed("P3_CALIBRATION")
                   ELSE Inactive("P3_CALIBRATION")

Ready(op, x) ==
  IF x = "Z" THEN z = "REST" ELSE IF op = "move" THEN MayMove(x) ELSE MayHome(x)

\* x_move, y_move, z_move, x_home, y_home: up to the last check ...
ShellCheck(op, x) ==
  /\ MutexFree /\ Command
  /\ MayAcquire("MANUAL")
  /\ m' = ManualAcquired(FALSE)
  /\ x = "Z" => op = "move"
  /\ shell' = IF Allowed(op, x) /\ Ready(op, x)
              THEN [step |-> "checked", op |-> op, axis |-> x] ELSE shell
  /\ UNCHANGED <<xy, stage, startup, task, z, bus, late, manual, trouble>>

\* ... the frame ...
ShellSend ==
  /\ shell.step = "checked" /\ shell.axis # "Z"
  /\ LET x == shell.axis
         sent == IF Refused THEN xy[x]
                 ELSE IF shell.op = "move" THEN MoveFrame(xy[x]) ELSE HomeFrame(xy[x])
     IN /\ xy' = [xy EXCEPT ![x] = sent]
        /\ shell' = IF Refused THEN ShellIdle ELSE [shell EXCEPT !.step = "sent"]
        /\ Moved(IF Refused THEN {} ELSE {x}, "shell")
  /\ UNCHANGED <<m, stage, startup, task, z, bus, commands, trouble>>

\* ... and its record, whatever has become of the axis in between.
ShellRecord ==
  /\ shell.step = "sent"
  /\ xy' = [xy EXCEPT ![shell.axis] =
              IF shell.op = "move" THEN MoveRecord(@) ELSE HomeRecord(@)]
  /\ shell' = ShellIdle
  /\ UNCHANGED <<m, stage, startup, task, z, bus, late, manual, commands, trouble>>

\* ZAxisControl_MoveRelative after its checks; a busy UART refuses the move.
ShellMoveZ ==
  /\ shell.step = "checked" /\ shell.axis = "Z"
  /\ Z!ZStart \/ UNCHANGED z
  /\ shell' = ShellIdle
  /\ UNCHANGED <<m, xy, stage, startup, task, bus, late, manual, commands, trouble>>

\* Every other manual command, as far as it concerns the coordinator: grip, the
\* K230 modes, and the raw driver commands, which hold the ownership.
ShellOther(hold) ==
  /\ MutexFree /\ Command
  /\ MayAcquire("MANUAL")
  /\ m' = ManualAcquired(hold)
  /\ UNCHANGED <<xy, stage, startup, task, z, shell, bus, late, manual, trouble>>

\* xy_stop and z_stop
ShellStopXY ==
  /\ MutexFree /\ Command
  /\ MayAcquire("MANUAL")
  /\ m' = ManualAcquired(FALSE)
  /\ xy' = [x \in AxisNames |-> Stopped(xy[x])]
  /\ UNCHANGED <<stage, startup, task, z, shell, bus, late, manual, trouble>>

ShellStopZ ==
  /\ MutexFree /\ Command
  /\ MayAcquire("MANUAL")
  /\ m' = ManualAcquired(FALSE)
  /\ Z!ZHalt \/ UNCHANGED z
  /\ UNCHANGED <<xy, stage, startup, task, shell, bus, late, manual, trouble>>

\* z_clear: the only motion command that does not acquire anything.
ShellClearZ ==
  /\ MutexFree /\ Command
  /\ m.owner = "NONE"
  /\ Z!ZRecover
  /\ UNCHANGED <<m, xy, stage, startup, task, shell, bus, late, manual, trouble>>

-----------------------------------------------------------------------------
(* The automatic tasks.                                                    *)

AxesReady(o) ==
  /\ \A x \in Axes(o) : xy[x].state = "IDLE" /\ xy[x].valid
  /\ UsesZ(o) => z = "REST"

\* Which tasks the shell looks at before it starts one.
CheckedFirst(o) ==
  CASE o = "P2_CALIBRATION" -> {"P3_CALIBRATION", "XY_ALIGN", "P4_XZ_ALIGN"}
    [] o = "XY_ALIGN" -> {"P2_CALIBRATION", "P3_CALIBRATION", "P4_XZ_ALIGN"}
    [] OTHER -> {}

\* VisionCalibration_Start, XZCalibration_Start, XY_VisionAlign_StartOwned and
\* XZVisionAlign_StartOwned, with the shell commands that call them. A start that
\* is refused releases the ownership, also when it was the task's own; XZVisionAlign
\* moreover leaves its active state.
TaskStart(o, accepted) ==
  /\ MutexFree /\ Command
  /\ \A p \in CheckedFirst(o) : Inactive(p)
  /\ MayAcquire(o)
  /\ accepted => AxesReady(o) /\ \A p \in Tasks : Inactive(p)
  /\ IF accepted
     THEN m' = Acquired(o) /\ task' = [task EXCEPT ![o] = "running"]
     ELSE /\ m' = [Acquired(o) EXCEPT !.owner = "NONE"]
          /\ task' = IF o = "P4_XZ_ALIGN" THEN [task EXCEPT ![o] = "off"] ELSE task
  /\ UNCHANGED <<xy, stage, startup, z, shell, bus, late, manual, trouble>>

\* VisionCalibration_CaptureReference and XZCalibration_CaptureReference: take over
\* from a manual owner that does not hold, which stays released if they fail.
CaptureReference(o) ==
  /\ MutexFree /\ Command
  /\ o \in Calibrations /\ task[o] = "manual"
  /\ ~(m.owner = "MANUAL" /\ m.hold)
  /\ LET free == IF m.owner = "MANUAL" THEN "NONE" ELSE m.owner
     IN IF ~m.abort /\ ~m.latch /\ m.cancel # o /\ free \in {"NONE", o}
        THEN /\ m' = [m EXCEPT !.owner = o,
                               !.zFaulted = IF free = "NONE" THEN FALSE ELSE @]
             /\ task' = [task EXCEPT ![o] = "waiting"]
        ELSE m' = [m EXCEPT !.owner = free] /\ UNCHANGED task
  /\ UNCHANGED <<xy, stage, startup, z, shell, bus, late, manual, trouble>>

\* A task awaits the end of its own move before it goes on.
MoveOver(o) ==
  /\ \A x \in Axes(o) : xy[x].state \notin {"STARTING", "MOVING"}
  /\ UsesZ(o) => z # "MOVING"

\* A running task moves one of its axes. It does not ask who owns them.
TaskMove(o) ==
  /\ MutexFree
  /\ task[o] = "running" /\ MoveOver(o)
  /\ \/ \E x \in Axes(o) :
          /\ MayMove(x) /\ ~Refused
          /\ xy' = [xy EXCEPT ![x] = MoveRecord(MoveFrame(@))]
          /\ Moved({x}, "task")
          /\ UNCHANGED z
     \/ /\ UsesZ(o)
        /\ Z!ZStart
        /\ UNCHANGED <<xy, late, manual>>
  /\ UNCHANGED <<m, stage, startup, task, shell, bus, commands, trouble>>

\* The work is done: an alignment is over, a calibration waits for the operator and
\* gives its ownership back.
TaskDone(o) ==
  /\ MutexFree
  /\ task[o] = "running" /\ MoveOver(o)
  /\ task' = [task EXCEPT ![o] = IF o \in Calibrations THEN "manual" ELSE "off"]
  /\ m' = IF o \in Calibrations THEN Released(Now, o).m ELSE m
  /\ UNCHANGED <<xy, stage, startup, z, shell, bus, late, manual, commands, trouble>>

TaskCapture(o) ==
  /\ MutexFree
  /\ \/ task[o] = "waiting" /\ AxesReady(o) /\ task' = [task EXCEPT ![o] = "capturing"]
     \/ task[o] = "capturing" /\ task' = [task EXCEPT ![o] = "off"]
  /\ UNCHANGED <<m, xy, stage, startup, z, shell, bus, late, manual, commands, trouble>>

\* vision_set_fault, set_fault and the two align_fault: a timeout, a refused move or
\* a faulted axis. Only the alignments stop their axes.
TaskFault(o, halted) ==
  /\ MutexFree
  /\ \/ task[o] \in {"running", "capturing"}
     \/ task[o] # "off" /\ \E x \in Axes(o) : xy[x].state = "FAULT"
     \/ task[o] # "off" /\ UsesZ(o) /\ z = "FAULT"
  /\ LET s == IF o \in Calibrations THEN Now ELSE TaskStop(Now, o, halted)
     IN Become([s EXCEPT !.task[o] = "off"])
  /\ UNCHANGED <<startup, shell, bus, late, manual, commands, trouble>>

-----------------------------------------------------------------------------
Axis(x) ==
  \/ MoveAck(x) \/ StopAck(x) \/ HomeAck(x) \/ HomeRun(x) \/ HomeDone(x) \/ Arrived(x)
  \/ AxisTimeout(x) \/ HomeRetry(x) \/ DriverAlarm(x) \/ MotorDone(x)

Shell ==
  \/ \E op \in {"move", "home"}, x \in AxisNames \cup {"Z"} : ShellCheck(op, x)
  \/ ShellSend \/ ShellRecord \/ ShellMoveZ
  \/ \E hold \in BOOLEAN : ShellOther(hold)
  \/ ShellStopXY \/ ShellStopZ \/ ShellClearZ
  \/ \E o \in Tasks : RequestCancel(o) \/ CaptureReference(o)
  \/ \E o \in Tasks, accepted \in BOOLEAN : TaskStart(o, accepted)

TaskPoll(o) ==
  \/ TaskMove(o) \/ TaskDone(o) \/ TaskCapture(o)
  \/ \E halted \in BOOLEAN : TaskFault(o, halted)

Coordinator == \E halted \in BOOLEAN : CoordPoll(halted) \/ Emergency(halted)

Next ==
  \/ Coordinator \/ RequestAbort \/ Shell
  \/ \E x \in AxisNames : Axis(x)
  \/ StopAllY \/ StopAllDone \/ StartupPoll \/ ZSettle \/ BusDown \/ BusUp
  \/ \E o \in Tasks : TaskPoll(o)

\* The LegacyIo loop and a shell command go on; deadlines pass; the Z axis comes to
\* rest by itself (Settles in ZAxis). Nothing is assumed of drivers, bus and operator.
Fairness ==
  /\ WF_vars(\E halted \in BOOLEAN : CoordPoll(halted))
  /\ WF_vars(ZSettle)
  /\ WF_vars(ShellSend \/ ShellRecord \/ ShellMoveZ)
  /\ \A x \in AxisNames : WF_vars(AxisTimeout(x))

Spec == Init /\ [][Next]_vars

FairSpec == Spec /\ Fairness

-----------------------------------------------------------------------------
CoordType == [owner : Owners, latch : BOOLEAN, abort : BOOLEAN,
              cancel : {"NONE"} \cup Tasks, stop : BOOLEAN, hold : BOOLEAN,
              sent : BOOLEAN, zFaulted : BOOLEAN]
AxisType == [state : XYStates, valid : BOOLEAN, waiting : SUBSET Acks,
             replies : SUBSET Acks, home : {"none", "prepare", "running"},
             motor : BOOLEAN]
ShellType == [step : {"idle", "checked", "sent"}, op : {"move", "home"},
              axis : AxisNames \cup {"Z"}]

\* Types, and the bounds of the counters.
TypeOK ==
  /\ m \in CoordType /\ xy \in [AxisNames -> AxisType] /\ stage \in 0 .. 2
  /\ startup \in StartupStates /\ task \in [Tasks -> TaskStates] /\ z \in Z!ZPhases
  /\ shell \in ShellType /\ bus \in {"ok", "lossy", "off"}
  /\ late \subseteq AxisNames /\ manual \subseteq AxisNames
  /\ commands \in 0 .. MaxCommands /\ trouble \in 0 .. MaxTrouble

\* Once an abort has been taken, nobody owns the axes and no task is active, for
\* good: no start, capture or manual command that was under way when the abort came
\* survives it or slips in after it.
AbortLocksOut ==
  m.latch /\ ~m.abort => m.owner = "NONE" /\ \A o \in Tasks : task[o] = "off"

\* When the coordinator holds the stop of an abort to be over, an X or Y motor that
\* was running when the abort came and still runs has its axis in FAULT, or its own
\* stop frame not yet answered: a lost or refused stop frame, an earlier unified
\* stop or a late acknowledgement never passes for a motor at rest.
StopCovers ==
  m.latch /\ ~m.stop /\ ~m.abort =>
    \A x \in AxisNames : xy[x].motor /\ x \notin late =>
      xy[x].state = "FAULT" \/ "STOP" \in xy[x].waiting

\* Under a running task its X and Y axes only move on the task's command (or the
\* startup homing's), whatever the shell was doing when the task began, and even
\* when the task has lost its ownership.
NoManualUnderTask ==
  \A o \in Tasks : task[o] = "running" =>
    \A x \in Axes(o) : Busy(xy[x]) /\ xy[x].state # "STOPPING" => x \notin manual

\* A held manual ownership is only ended by an abort: neither standing axes nor a
\* capture, a task start or a cancellation takes it away.
HoldSurvives ==
  [][m.owner = "MANUAL" /\ m.hold /\ m'.owner # "MANUAL" => m.abort]_vars

\* An abort comes to an end: latched, without owner, and with nothing left to stop.
AbortCompletes ==
  m.abort ~> m.latch /\ m.owner = "NONE" /\ ~m.stop

\* legacy-migration-status.md:333: while a task runs it owns the axes, so that any
\* other motion command is refused. A second start of a running task is refused too,
\* but releases the ownership of the first.
ActiveTaskOwns ==
  \A o \in Tasks : task[o] \in {"running", "waiting", "capturing"} => m.owner = o

\* The command reference says of abort: it stops the three axes and latches until a
\* restart. Yet an axis can be set in motion after the stop is over.
StoppedAfterAbort ==
  m.latch /\ ~m.stop /\ ~m.abort =>
    \A x \in AxisNames : xy[x].motor => xy[x].state = "FAULT"
=============================================================================
