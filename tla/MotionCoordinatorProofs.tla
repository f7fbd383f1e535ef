----------------------- MODULE MotionCoordinatorProofs -----------------------
(***************************************************************************)
(* Proofs about the motion coordinator for every set of tasks, any number  *)
(* of commands and any number of outages and alarms: the types, that an    *)
(* abort is final, that the shell keeps away from a running task and a     *)
(* held ownership is kept, and that the stop of an abort covers every      *)
(* motor. Each is shown for the operators of the coordinator on the whole  *)
(* motion state, and then for the steps of the specification.              *)
(***************************************************************************)
EXTENDS MotionCoordinator, TLAPS

\* The motion state the coordinator's operators work on.
Motion == [m : CoordType, xy : [AxisNames -> AxisType], stage : 0 .. 2,
           task : [Tasks -> TaskStates], z : Z!ZPhases]

\* AbortLocksOut, of a motion state.
Locked(s) ==
  s.m.latch /\ ~s.m.abort => s.m.owner = "NONE" /\ \A o \in Tasks : s.task[o] = "off"

\* What stopping axes leaves alone.
SameTasks(s, t) == t.m = s.m /\ t.task = s.task

\* What every part of the coordinator's poll respects once an abort is accounted for.
SameLatch(s, t) ==
  /\ t.m.latch = s.m.latch /\ t.m.abort = s.m.abort
  /\ t.m.owner \in {s.m.owner, "NONE"}

-----------------------------------------------------------------------------
(* One axis.                                                               *)

\* XY_Stop leaves a well-typed axis, whatever the bus does with the frame.
LEMMA StoppedType == ASSUME NEW a \in AxisType PROVE Stopped(a) \in AxisType
<1>1. Faulted(a) \in AxisType
  BY DEF Faulted, AxisType, XYStates
<1>2. (a.waiting \ {"MOVE", "HOME"}) \cup {"STOP"} \in SUBSET Acks
  BY DEF AxisType, Acks
<1>3. Answered(a, "STOP") \in SUBSET Acks
  BY DEF Answered, AxisType, Acks
<1>4. (a.motor /\ bus # "ok") \in BOOLEAN
  OBVIOUS
<1>5. [a EXCEPT !.state = "STOPPING",
                !.waiting = (@ \ {"MOVE", "HOME"}) \cup {"STOP"},
                !.replies = Answered(a, "STOP"),
                !.motor = @ /\ bus # "ok"] \in AxisType
  BY <1>2, <1>3, <1>4 DEF AxisType, XYStates
<1> QED
  BY <1>1, <1>5 DEF Stopped

\* A fault leaves a well-typed axis.
LEMMA FaultedType == ASSUME NEW a \in AxisType PROVE Faulted(a) \in AxisType
BY DEF Faulted, AxisType, XYStates

\* So do the frame and the record of a move ...
LEMMA MoveType ==
  ASSUME NEW a \in AxisType
  PROVE  MoveFrame(a) \in AxisType /\ MoveRecord(a) \in AxisType
<1>1. Answered(a, "MOVE") \in SUBSET Acks /\ a.waiting \cup {"MOVE"} \in SUBSET Acks
  BY DEF Answered, AxisType, Acks
<1>2. (a.motor \/ bus = "ok") \in BOOLEAN
  OBVIOUS
<1>3. MoveFrame(a) \in AxisType
  BY <1>1, <1>2 DEF MoveFrame, AxisType
<1>4. MoveRecord(a) \in AxisType
  BY <1>1 DEF MoveRecord, AxisType, XYStates
<1> QED
  BY <1>3, <1>4

\* ... and of a homing.
LEMMA HomeType ==
  ASSUME NEW a \in AxisType
  PROVE  HomeFrame(a) \in AxisType /\ HomeRecord(a) \in AxisType
<1>1. Answered(a, "HOME") \in SUBSET Acks /\ a.waiting \cup {"HOME"} \in SUBSET Acks
  BY DEF Answered, AxisType, Acks
<1>2. HomeFrame(a) \in AxisType
  BY <1>1 DEF HomeFrame, AxisType
<1>3. HomeRecord(a) \in AxisType
  BY <1>1 DEF HomeRecord, AxisType, XYStates
<1> QED
  BY <1>2, <1>3

-----------------------------------------------------------------------------
(* Stopping.                                                               *)

\* xy_stop_all touches nothing but the axes and its own stage.
LEMMA StopAllMotion ==
  ASSUME NEW s \in Motion PROVE StopAll(s) \in Motion /\ SameTasks(s, StopAll(s))
<1> DEFINE f == [s.xy EXCEPT !["X"] = Stopped(s.xy["X"])]
<1>1. s.xy \in [AxisNames -> AxisType] /\ "X" \in AxisNames
  BY DEF Motion, AxisNames
<1>2. f \in [AxisNames -> AxisType]
  BY <1>1, StoppedType
<1> HIDE DEF f
<1>a. 1 \in 0 .. 2
  OBVIOUS
<1>3. [s EXCEPT !.xy = f, !.stage = 1] \in Motion
      /\ SameTasks(s, [s EXCEPT !.xy = f, !.stage = 1])
  <2>1. [s EXCEPT !.xy = f, !.stage = 1] \in Motion
    BY <1>2, <1>a DEF Motion
  <2>2. SameTasks(s, [s EXCEPT !.xy = f, !.stage = 1])
    BY DEF Motion, SameTasks
  <2> QED
    BY <2>1, <2>2
<1>4. StopAll(s) \in {s, [s EXCEPT !.xy = f, !.stage = 1]}
  BY DEF StopAll, f
<1> QED
  BY <1>3, <1>4 DEF SameTasks

\* Nor does stopping the axes that are in certain states ...
LEMMA StopMovingMotion ==
  ASSUME NEW s \in Motion, NEW axes, NEW states
  PROVE  StopMoving(s, axes, states) \in Motion /\ SameTasks(s, StopMoving(s, axes, states))
<1> DEFINE f == [x \in AxisNames |->
     IF x \in axes /\ s.xy[x].state \in states THEN Stopped(s.xy[x]) ELSE s.xy[x]]
<1>1. s.xy \in [AxisNames -> AxisType]
  BY DEF Motion
<1>2. f \in [AxisNames -> AxisType]
  BY <1>1, StoppedType
<1> HIDE DEF f
<1>3. [s EXCEPT !.xy = f] \in Motion /\ SameTasks(s, [s EXCEPT !.xy = f])
  BY <1>2 DEF Motion, SameTasks
<1> QED
  BY <1>3 DEF StopMoving, f

\* ... or the Z axis.
LEMMA StopZMotion ==
  ASSUME NEW s \in Motion, NEW phases, NEW halted
  PROVE  StopZ(s, phases, halted) \in Motion /\ SameTasks(s, StopZ(s, phases, halted))
BY DEF StopZ, Motion, SameTasks, Z!ZPhases

\* A task's own way of stopping its axes.
LEMMA TaskStopMotion ==
  ASSUME NEW s \in Motion, NEW o \in Tasks, NEW halted
  PROVE  TaskStop(s, o, halted) \in Motion /\ SameTasks(s, TaskStop(s, o, halted))
<1> DEFINE p3 == StopMoving(s, {"X"}, {"STARTING", "MOVING", "STOPPING"})
           p4 == StopMoving(s, {"X"}, {"STARTING", "MOVING"})
           align == StopMoving(s, {"X", "Y"}, {"STARTING", "MOVING"})
<1>1. p3 \in Motion /\ p4 \in Motion /\ align \in Motion
      /\ SameTasks(s, p3) /\ SameTasks(s, p4) /\ SameTasks(s, align)
  BY StopMovingMotion
<1> HIDE DEF p3, p4, align
<1>2. /\ StopZ(p3, {"MOVING", "STOPPING"}, halted) \in Motion
      /\ SameTasks(p3, StopZ(p3, {"MOVING", "STOPPING"}, halted))
      /\ StopZ(p4, {"MOVING"}, halted) \in Motion
      /\ SameTasks(p4, StopZ(p4, {"MOVING"}, halted))
  BY <1>1, StopZMotion
<1>3. StopAll(s) \in Motion /\ SameTasks(s, StopAll(s)) /\ SameTasks(s, s)
  BY StopAllMotion DEF SameTasks
<1>4. TaskStop(s, o, halted) \in
        {StopAll(s), s, StopZ(p3, {"MOVING", "STOPPING"}, halted), align,
         StopZ(p4, {"MOVING"}, halted)}
  BY Zenon DEF TaskStop, p3, p4, align
<1> QED
  BY <1>1, <1>2, <1>3, <1>4 DEF SameTasks

\* Releasing an owner changes at most the owner.
LEMMA ReleasedMotion ==
  ASSUME NEW s \in Motion, NEW o
  PROVE  /\ Released(s, o) \in Motion /\ SameLatch(s, Released(s, o))
         /\ Released(s, o).task = s.task
BY DEF Released, Motion, CoordType, Owners, SameLatch

-----------------------------------------------------------------------------
(* Aborting tasks.                                                         *)

\* The abort of a task ends it, touches no other task, and releases at most the owner.
LEMMA TaskAbortMotion ==
  ASSUME NEW s \in Motion, NEW o \in AutomaticOwners, NEW halted
  PROVE  LET t == TaskAbort(s, o, halted)
         IN /\ t \in Motion /\ SameLatch(s, t)
            /\ \A p \in Tasks : t.task[p] = IF p = o THEN "off" ELSE s.task[p]
<1>1. CASE o \notin Tasks \/ s.task[o] = "off"
  BY <1>1 DEF TaskAbort, SameLatch
<1>2. CASE o \in Tasks /\ s.task[o] # "off"
  <2> DEFINE r == TaskStop(s, o, halted)
             t == [r EXCEPT !.task[o] = "off"]
  <2>1. r \in Motion /\ SameTasks(s, r)
    BY <1>2, TaskStopMotion
  <2> HIDE DEF r
  <2>2. /\ t \in Motion /\ SameLatch(s, t)
        /\ \A p \in Tasks : t.task[p] = IF p = o THEN "off" ELSE s.task[p]
    BY <1>2, <2>1 DEF Motion, SameTasks, SameLatch, TaskStates
  <2> HIDE DEF t
  <2>3. Released(t, o) \in Motion /\ SameLatch(t, Released(t, o)) /\ Released(t, o).task = t.task
    BY <2>2, ReleasedMotion
  <2>4. TaskAbort(s, o, halted) = IF o \in Calibrations THEN t ELSE Released(t, o)
    BY <1>2 DEF TaskAbort, t, r
  <2> QED
    BY <2>2, <2>3, <2>4 DEF SameLatch
<1> QED
  BY <1>1, <1>2

\* abort_all_tasks leaves no task active: its four calls are all the tasks there are.
LEMMA AbortAllMotion ==
  ASSUME ConstantsAssumption, NEW s \in Motion, NEW halted
  PROVE  LET t == AbortAllTasks(s, halted)
         IN t \in Motion /\ SameLatch(s, t) /\ \A p \in Tasks : t.task[p] = "off"
<1> DEFINE a == TaskAbort(s, "P2_CALIBRATION", halted)
           b == TaskAbort(a, "P3_CALIBRATION", halted)
           c == TaskAbort(b, "XY_ALIGN", halted)
           d == TaskAbort(c, "P4_XZ_ALIGN", halted)
<1>1. a \in Motion /\ SameLatch(s, a) /\ \A p \in Tasks : p = "P2_CALIBRATION" => a.task[p] = "off"
  BY TaskAbortMotion DEF AutomaticOwners
<1> HIDE DEF a
<1>2. /\ b \in Motion /\ SameLatch(a, b)
      /\ \A p \in Tasks : p \in {"P2_CALIBRATION", "P3_CALIBRATION"} => b.task[p] = "off"
  BY <1>1, TaskAbortMotion DEF AutomaticOwners
<1> HIDE DEF b
<1>3. /\ c \in Motion /\ SameLatch(b, c)
      /\ \A p \in Tasks : p # "P4_XZ_ALIGN" => c.task[p] = "off"
  BY <1>2, TaskAbortMotion DEF AutomaticOwners, ConstantsAssumption
<1> HIDE DEF c
<1>4. d \in Motion /\ SameLatch(c, d) /\ \A p \in Tasks : d.task[p] = "off"
  BY <1>3, TaskAbortMotion DEF AutomaticOwners, ConstantsAssumption
<1> HIDE DEF d
<1>5. AbortAllTasks(s, halted) = d
  BY DEF AbortAllTasks, a, b, c, d
<1> QED
  BY <1>1, <1>2, <1>3, <1>4, <1>5 DEF SameLatch

-----------------------------------------------------------------------------
(* The coordinator's poll.                                                 *)

\* begin_stop and poll_stop change nothing but the marks of the stop, and stop axes.
LEMMA StopMotion ==
  ASSUME NEW s \in Motion, NEW halted
  PROVE  /\ BeginStop(s) \in Motion /\ SameLatch(s, BeginStop(s))
         /\ BeginStop(s).task = s.task
         /\ PollStop(s, halted) \in Motion /\ SameLatch(s, PollStop(s, halted))
         /\ PollStop(s, halted).task = s.task
<1>1. /\ BeginStop(s) \in Motion /\ SameLatch(s, BeginStop(s))
      /\ BeginStop(s).task = s.task
  BY DEF BeginStop, Motion, CoordType, SameLatch
<1> DEFINE r == StopAll(s)
           t == IF s.m.sent THEN s ELSE [r EXCEPT !.m.sent = TRUE]
           u == StopZ(t, {"MOVING"}, halted)
           v == [u EXCEPT !.m.stop = ~AxesStopped(u)]
<1>2. r \in Motion /\ SameTasks(s, r)
  BY StopAllMotion
<1> HIDE DEF r
<1>3. t \in Motion /\ SameLatch(s, t) /\ t.task = s.task
  BY <1>2 DEF Motion, CoordType, SameLatch, SameTasks
<1> HIDE DEF t
<1>4. u \in Motion /\ SameTasks(t, u)
  BY <1>3, StopZMotion
<1> HIDE DEF u
<1>5. (~AxesStopped(u)) \in BOOLEAN
  BY DEF AxesStopped
<1>6. v \in Motion /\ SameLatch(u, v) /\ v.task = u.task
  BY <1>4, <1>5 DEF Motion, CoordType, SameLatch
<1>7. PollStop(s, halted) = v
  BY DEF PollStop, r, t, u
<1> QED
  BY <1>1, <1>3, <1>4, <1>6, <1>7 DEF SameLatch, SameTasks

\* Ending tasks and releasing owners cannot undo an abort.
LEMMA StaysLocked ==
  ASSUME NEW s \in Motion, NEW t \in Motion, Locked(s), SameLatch(s, t),
         \A o \in Tasks : t.task[o] \in {s.task[o], "off"}
  PROVE  Locked(t)
BY DEF Locked, SameLatch

\* The branch that takes the abort locks everybody out, whoever had the axes.
LEMMA AbortBranchLocks ==
  ASSUME ConstantsAssumption, NEW s \in Motion, NEW halted
  PROVE  AbortBranch(s, halted) \in Motion /\ Locked(AbortBranch(s, halted))
<1> DEFINE q == [s EXCEPT !.m.abort = FALSE, !.m.cancel = "NONE", !.m.latch = TRUE]
           r == AbortAllTasks(q, halted)
           t == [r EXCEPT !.m.owner = "NONE"]
<1>1. q \in Motion
  BY DEF Motion, CoordType
<1> HIDE DEF q
<1>2. r \in Motion /\ \A p \in Tasks : r.task[p] = "off"
  BY <1>1, AbortAllMotion
<1> HIDE DEF r
<1>3. t \in Motion /\ t.m.owner = "NONE" /\ \A p \in Tasks : t.task[p] = "off"
  BY <1>2 DEF Motion, CoordType, Owners
<1> HIDE DEF t
<1>4. /\ BeginStop(t) \in Motion /\ BeginStop(t).m.owner = "NONE"
      /\ \A p \in Tasks : BeginStop(t).task[p] = "off"
  BY <1>3, StopMotion DEF SameLatch
<1>5. AbortBranch(s, halted) \in {t, BeginStop(t)}
  BY DEF AbortBranch, q, r, t
<1> QED
  BY <1>3, <1>4, <1>5 DEF Locked

\* The branch that takes an axis fault ends every task, and keeps the lock.
LEMMA FaultBranchLocks ==
  ASSUME ConstantsAssumption, NEW s \in Motion, NEW halted
  PROVE  FaultBranch(s, halted) \in Motion /\ Locked(FaultBranch(s, halted))
<1> DEFINE q == [s EXCEPT !.m.cancel = "NONE"]
           r == AbortAllTasks(q, halted)
           t == [r EXCEPT !.m.owner = "NONE"]
<1>1. q \in Motion
  BY DEF Motion, CoordType
<1> HIDE DEF q
<1>2. r \in Motion /\ \A p \in Tasks : r.task[p] = "off"
  BY <1>1, AbortAllMotion
<1> HIDE DEF r
<1>3. t \in Motion /\ t.m.owner = "NONE" /\ \A p \in Tasks : t.task[p] = "off"
  BY <1>2 DEF Motion, CoordType, Owners
<1> QED
  BY <1>3 DEF FaultBranch, q, r, Locked

\* A cancellation ends one task and releases one owner.
LEMMA CancelLocks ==
  ASSUME ConstantsAssumption, NEW s \in Motion, Locked(s), NEW halted
  PROVE  CancelPhase(s, halted) \in Motion /\ Locked(CancelPhase(s, halted))
<1> DEFINE o == s.m.cancel
           t == [s EXCEPT !.m.cancel = "NONE"]
           r == TaskAbort(t, o, halted)
<1>1. t \in Motion /\ SameLatch(s, t) /\ t.task = s.task
  BY DEF Motion, CoordType, SameLatch
<1>2. Locked(t)
  BY <1>1, StaysLocked
<1> HIDE DEF t
<1>3. CASE o \in Tasks
  <2>1. r \in Motion /\ Locked(r)
    BY <1>1, <1>2, <1>3, TaskAbortMotion, StaysLocked DEF ConstantsAssumption
  <2> HIDE DEF r
  <2>2. Released(r, o) \in Motion /\ Locked(Released(r, o))
    BY <2>1, ReleasedMotion, StaysLocked
  <2>3. CancelPhase(s, halted) \in {t, Released(r, o)}
    BY DEF CancelPhase, t, r
  <2> QED
    BY <1>1, <1>2, <2>2, <2>3
<1>4. CASE o \notin Tasks
  BY <1>1, <1>2, <1>4 DEF CancelPhase, t
<1> QED
  BY <1>3, <1>4

\* The automatic release releases at most the owner.
LEMMA AutoReleaseLocks ==
  ASSUME NEW s \in Motion, Locked(s)
  PROVE  AutoRelease(s) \in Motion /\ Locked(AutoRelease(s))
<1>1. \A o : Released(s, o) \in Motion /\ Locked(Released(s, o))
  BY ReleasedMotion, StaysLocked
<1>2. AutoRelease(s) \in {s, Released(s, s.m.owner), Released(s, "MANUAL")}
  BY DEF AutoRelease
<1> QED
  BY <1>1, <1>2

-----------------------------------------------------------------------------
(* The steps of the specification.                                         *)

\* The inductive invariant. The types carry the fact that the four calls of
\* abort_all_tasks reach every task.
IInv == TypeOK /\ AbortLocksOut

\* The invariant, of the motion state.
LEMMA NowLocked == ASSUME IInv PROVE Now \in Motion /\ Locked(Now)
BY DEF IInv, TypeOK, AbortLocksOut, Now, Motion, Locked

\* A step to a well-typed and locked motion state has the motion part of the invariant.
LEMMA BecomeLocked ==
  ASSUME NEW s \in Motion, Locked(s), Become(s)
  PROVE  /\ m' \in CoordType /\ xy' \in [AxisNames -> AxisType] /\ stage' \in 0 .. 2
         /\ task' \in [Tasks -> TaskStates] /\ z' \in Z!ZPhases
         /\ AbortLocksOut'
BY DEF Motion, Locked, Become, AbortLocksOut

\* MotionCoordinator_Poll: the branches, then the cancellation, the stop, the release.
LEMMA CoordPollInv ==
  ASSUME ConstantsAssumption, IInv, NEW halted \in BOOLEAN, CoordPoll(halted)
  PROVE  IInv'
<1> DEFINE a == IF m.abort THEN AbortBranch(Now, halted)
                ELSE IF m.owner \in Tasks /\ OwnerAxisFaulted(Now, m.owner)
                THEN FaultBranch(Now, halted)
                ELSE Now
           c == CancelPhase(a, halted)
           p == IF c.m.stop THEN PollStop(c, halted) ELSE c
           r == AutoRelease(p)
<1>0. Now \in Motion /\ Locked(Now)
  BY NowLocked
<1>1. a \in Motion /\ Locked(a)
  BY <1>0, AbortBranchLocks, FaultBranchLocks
<1>2. Become(r) /\ UNCHANGED <<startup, shell, bus, late, manual, commands, trouble>>
  BY DEF CoordPoll
<1> HIDE DEF a
<1>3. c \in Motion /\ Locked(c)
  BY <1>1, CancelLocks
<1> HIDE DEF c
<1>4. p \in Motion /\ Locked(p)
  BY <1>3, StopMotion, StaysLocked
<1> HIDE DEF p
<1>5. r \in Motion /\ Locked(r)
  BY <1>4, AutoReleaseLocks
<1> HIDE DEF r
<1> QED
  BY <1>2, <1>5, BecomeLocked DEF IInv, TypeOK

\* MotionCoordinator_PollEmergency runs under a pending abort, and leaves it pending.
LEMMA EmergencyInv ==
  ASSUME IInv, NEW halted \in BOOLEAN, Emergency(halted)
  PROVE  IInv'
<1> DEFINE q == [Now EXCEPT !.m.latch = TRUE]
           b == IF m.latch THEN Now ELSE BeginStop(q)
           r == PollStop(b, halted)
<1>0. Now \in Motion /\ Now.m.abort
  BY NowLocked DEF Emergency, Now
<1>1. q \in Motion /\ q.m.abort
  BY <1>0 DEF Motion, CoordType
<1>2. Become(r) /\ UNCHANGED <<startup, shell, bus, late, manual, commands, trouble>>
  BY DEF Emergency
<1> HIDE DEF q
<1>3. b \in Motion /\ b.m.abort
  BY <1>0, <1>1, StopMotion DEF SameLatch
<1> HIDE DEF b
<1>4. r \in Motion /\ Locked(r)
  BY <1>3, StopMotion DEF SameLatch, Locked
<1> HIDE DEF r
<1> QED
  BY <1>2, <1>4, BecomeLocked DEF IInv, TypeOK

\* Steps of one axis.
LEMMA XYStepInv ==
  ASSUME IInv, NEW x \in AxisNames, NEW a \in AxisType, XYStep(x, a),
         late' \subseteq AxisNames, manual' \subseteq AxisNames,
         trouble' \in 0 .. MaxTrouble
  PROVE  IInv'
BY DEF IInv, TypeOK, AbortLocksOut, XYStep

\* Answers, deadlines and alarms: every one of them steps a single axis.
LEMMA AxisInv ==
  ASSUME IInv, NEW x \in AxisNames, Axis(x)
  PROVE  IInv'
<1> DEFINE a == xy[x]
<1>0. a \in AxisType /\ late \subseteq AxisNames /\ manual \subseteq AxisNames
      /\ trouble \in 0 .. MaxTrouble
  BY DEF IInv, TypeOK
<1> USE DEF AxisType, XYStates, Acks
<1>1. CASE MoveAck(x)
  <2>1. [a EXCEPT !.replies = @ \ {"MOVE"}, !.waiting = @ \ {"MOVE"},
                  !.state = IF @ = "STARTING" THEN "MOVING" ELSE @] \in AxisType
    BY <1>0
  <2> QED
    BY <1>0, <1>1, <2>1, XYStepInv, ZenonT(40) DEF MoveAck
<1>2. CASE StopAck(x)
  <2> DEFINE b == [a EXCEPT !.replies = @ \ {"STOP"}]
  <2>1. b \in AxisType
    BY <1>0
  <2>2. [b EXCEPT !.waiting = @ \ {"STOP"}, !.state = RestState(b)] \in AxisType
    BY <2>1 DEF RestState
  <2> QED
    BY <1>0, <1>2, <2>1, <2>2, XYStepInv DEF StopAck
<1>3. CASE HomeAck(x)
  <2>1. [a EXCEPT !.replies = @ \ {"HOME"}, !.waiting = @ \ {"HOME"}] \in AxisType
    BY <1>0
  <2> QED
    BY <1>0, <1>3, <2>1, XYStepInv DEF HomeAck
<1>4. CASE HomeRun(x)
  <2> DEFINE h == HomeFrame(a)
  <2>1. Faulted(a) \in AxisType /\ h \in AxisType
    BY <1>0, FaultedType, HomeType
  <2>2. (h.motor \/ bus = "ok") \in BOOLEAN
    OBVIOUS
  <2>3. [h EXCEPT !.home = "running", !.waiting = {"HOME"},
                  !.motor = @ \/ bus = "ok"] \in AxisType
    <3> HIDE DEF h
    <3> QED
      BY <2>1, <2>2
  <2>4. late' \subseteq AxisNames /\ manual' \subseteq AxisNames
    BY <1>0, <1>4 DEF HomeRun, Moved
  <2> QED
    BY <1>0, <1>4, <2>1, <2>3, <2>4, XYStepInv, ZenonT(40) DEF HomeRun
<1>5. CASE HomeDone(x)
  <2>1. [a EXCEPT !.state = "IDLE", !.valid = TRUE, !.home = "none"] \in AxisType
    BY <1>0
  <2> QED
    BY <1>0, <1>5, <2>1, XYStepInv DEF HomeDone
<1>6. CASE Arrived(x)
  <2>1. /\ [a EXCEPT !.state = "IDLE"] \in AxisType
        /\ [a EXCEPT !.state = RestState(a)] \in AxisType
    BY <1>0 DEF RestState
  <2> QED
    BY <1>0, <1>6, <2>1, XYStepInv DEF Arrived
<1>7. CASE AxisTimeout(x) \/ DriverAlarm(x)
  <2>1. Faulted(a) \in AxisType
    BY <1>0, FaultedType
  <2>2. trouble' \in 0 .. MaxTrouble /\ late' = late /\ manual' = manual
    BY <1>0, <1>7, ConstantsAssumption DEF AxisTimeout, DriverAlarm, Trouble, ConstantsAssumption
  <2> QED
    BY <1>0, <1>7, <2>1, <2>2, XYStepInv DEF AxisTimeout, DriverAlarm
<1>8. CASE HomeRetry(x)
  <2>1. [a EXCEPT !.waiting = @ \ {"HOME"}] \in AxisType
    BY <1>0
  <2> QED
    BY <1>0, <1>8, <2>1, XYStepInv DEF HomeRetry
<1>9. CASE MotorDone(x)
  <2>1. [a EXCEPT !.motor = FALSE] \in AxisType
    BY <1>0
  <2> QED
    BY <1>0, <1>9, <2>1, XYStepInv DEF MotorDone
<1> QED
  BY <1>1, <1>2, <1>3, <1>4, <1>5, <1>6, <1>7, <1>8, <1>9 DEF Axis

\* The unified stop, the startup homing, the bus and the Z axis have neither owners
\* nor tasks.
LEMMA BackgroundInv ==
  ASSUME ConstantsAssumption, IInv,
         StopAllY \/ StopAllDone \/ StartupPoll \/ ZSettle \/ BusDown \/ BusUp
  PROVE  IInv'
<1>0. xy \in [AxisNames -> AxisType] /\ AxisNames = {"X", "Y"} /\ stage \in 0 .. 2
  BY DEF IInv, TypeOK, AxisNames
<1>1. CASE StopAllY
  <2>1. xy' \in [AxisNames -> AxisType] /\ stage' \in 0 .. 2
    BY <1>0, <1>1, StoppedType DEF StopAllY
  <2> QED
    BY <1>1, <2>1 DEF StopAllY, IInv, TypeOK, AbortLocksOut
<1>2. CASE StopAllDone
  BY <1>2 DEF StopAllDone, IInv, TypeOK, AbortLocksOut
<1>3. CASE StartupPoll
  <2>h. ASSUME NEW x \in AxisNames, NEW next \in StartupStates, StartupHome(x, next)
        PROVE  /\ xy' \in [AxisNames -> AxisType]
               /\ startup' \in StartupStates \cup {startup} /\ manual' \subseteq manual
    <3>1. HomeRecord(HomeFrame(xy[x])) \in AxisType
      BY <1>0, HomeType
    <3> QED
      BY <1>0, <2>h, <3>1 DEF StartupHome, StartupStates
  <2>r. ASSUME NEW x \in AxisNames, NEW next \in StartupStates, StartupHoming(x, next)
        PROVE  /\ xy' = xy
               /\ startup' \in StartupStates \cup {startup} /\ manual' = manual
    BY <2>r DEF StartupHoming, StartupStates
  <2>1. /\ xy' \in [AxisNames -> AxisType]
        /\ startup' \in StartupStates \cup {startup} /\ manual' \subseteq manual
    <3>1. CASE startup = "WAITING_REPLIES"
      BY <1>0, <1>3, <3>1 DEF StartupPoll, StartupStates
    <3>2. CASE startup = "WAITING_TO_HOME_X"
      BY <1>0, <1>3, <2>h, <3>2 DEF StartupPoll, StartupStates
    <3>3. CASE startup = "HOMING_X"
      BY <1>0, <1>3, <2>r, <3>3 DEF StartupPoll, StartupStates
    <3>4. CASE startup = "WAITING_TO_HOME_Y"
      BY <1>0, <1>3, <2>h, <3>4 DEF StartupPoll, StartupStates
    <3>5. CASE startup = "HOMING_Y"
      BY <1>0, <1>3, <2>r, <3>5 DEF StartupPoll, StartupStates
    <3>6. CASE startup \in {"COMPLETE", "SKIPPED", "FAILED"}
      BY <1>0, <1>3, <3>6 DEF StartupPoll
    <3> QED
      BY <3>1, <3>2, <3>3, <3>4, <3>5, <3>6 DEF IInv, TypeOK, StartupStates
  <2>2. UNCHANGED <<m, stage, task, z, shell, bus, late, commands, trouble>>
    BY <1>3 DEF StartupPoll
  <2> QED
    BY <2>1, <2>2 DEF IInv, TypeOK, AbortLocksOut
<1>4. CASE ZSettle
  <2>1. z' \in Z!ZPhases /\ m' \in {m, [m EXCEPT !.zFaulted = TRUE]}
    BY <1>4 DEF ZSettle, Z!ZEnd, Z!ZRecovered, Z!ZFail, Z!ZPhases
  <2>2. m' \in CoordType /\ m'.latch = m.latch /\ m'.abort = m.abort /\ m'.owner = m.owner
    BY <2>1 DEF IInv, TypeOK, CoordType
  <2> QED
    BY <1>4, <2>1, <2>2 DEF ZSettle, IInv, TypeOK, AbortLocksOut
<1>5. CASE BusDown
  BY <1>5 DEF BusDown, Trouble, IInv, TypeOK, AbortLocksOut, ConstantsAssumption
<1>6. CASE BusUp
  BY <1>6 DEF BusUp, IInv, TypeOK, AbortLocksOut
<1> QED
  BY <1>1, <1>2, <1>3, <1>4, <1>5, <1>6

\* What MotionCoordinator_Acquire grants is typed, and only granted without a latch.
LEMMA AcquiredType ==
  ASSUME m \in CoordType, NEW o \in Owners, NEW hold \in BOOLEAN, MayAcquire(o)
  PROVE  /\ ~m.latch
         /\ Acquired(o) \in CoordType /\ ~Acquired(o).latch
         /\ [Acquired(o) EXCEPT !.hold = hold] \in CoordType
         /\ ~[Acquired(o) EXCEPT !.hold = hold].latch
         /\ [Acquired(o) EXCEPT !.owner = "NONE"] \in CoordType
BY DEF MayAcquire, Acquired, CoordType, Owners

\* A manual command acquires or is refused; what it does to the axes is typed.
LEMMA ShellInv ==
  ASSUME ConstantsAssumption, IInv,
         \/ \E op \in {"move", "home"}, x \in AxisNames \cup {"Z"} : ShellCheck(op, x)
         \/ ShellSend \/ ShellRecord \/ ShellMoveZ
         \/ \E hold \in BOOLEAN : ShellOther(hold)
         \/ ShellStopXY \/ ShellStopZ \/ ShellClearZ
  PROVE  IInv'
<1>0. /\ m \in CoordType /\ xy \in [AxisNames -> AxisType] /\ shell \in ShellType
      /\ commands \in 0 .. MaxCommands /\ "MANUAL" \in Owners /\ z \in Z!ZPhases
  BY DEF IInv, TypeOK, Owners
<1>c. Command => commands' \in 0 .. MaxCommands
  BY <1>0 DEF Command, ConstantsAssumption
<1>m. ASSUME NEW hold \in BOOLEAN, MayAcquire("MANUAL"), m' = ManualAcquired(hold)
      PROVE  m' \in CoordType /\ ~m'.latch
  BY <1>0, <1>m, AcquiredType DEF ManualAcquired
<1>1. ASSUME NEW op \in {"move", "home"}, NEW x \in AxisNames \cup {"Z"}, ShellCheck(op, x)
      PROVE  IInv'
  <2>1. shell' \in ShellType
    BY <1>0, <1>1 DEF ShellCheck, ShellType
  <2>2. m' \in CoordType /\ ~m'.latch /\ commands' \in 0 .. MaxCommands
    BY <1>1, <1>c, <1>m DEF ShellCheck
  <2> QED
    BY <1>1, <2>1, <2>2 DEF ShellCheck, IInv, TypeOK, AbortLocksOut
<1>2. CASE ShellSend
  <2>1. shell.axis \in AxisNames
    BY <1>0, <1>2 DEF ShellSend, ShellType
  <2>2. /\ xy[shell.axis] \in AxisType /\ MoveFrame(xy[shell.axis]) \in AxisType
        /\ HomeFrame(xy[shell.axis]) \in AxisType
    BY <1>0, <2>1, MoveType, HomeType
  <2>3. xy' \in [AxisNames -> AxisType]
    BY <1>0, <1>2, <2>1, <2>2 DEF ShellSend
  <2>4. shell' \in ShellType
    BY <1>0, <1>2 DEF ShellSend, ShellType, ShellIdle, AxisNames
  <2>5. late' \subseteq AxisNames /\ manual' \subseteq AxisNames
    BY <1>2, <2>1 DEF ShellSend, Moved, IInv, TypeOK
  <2> QED
    BY <1>2, <2>3, <2>4, <2>5 DEF ShellSend, IInv, TypeOK, AbortLocksOut
<1>3. CASE ShellRecord
  <2>1. /\ shell.axis \in AxisNames => /\ MoveRecord(xy[shell.axis]) \in AxisType
                                       /\ HomeRecord(xy[shell.axis]) \in AxisType
    BY <1>0, MoveType, HomeType
  <2>2. xy' \in [AxisNames -> AxisType]
    BY <1>0, <1>3, <2>1 DEF ShellRecord
  <2>3. shell' \in ShellType
    BY <1>3 DEF ShellRecord, ShellType, ShellIdle, AxisNames
  <2> QED
    BY <1>3, <2>2, <2>3 DEF ShellRecord, IInv, TypeOK, AbortLocksOut
<1>4. CASE ShellMoveZ
  <2>1. shell' \in ShellType /\ z' \in Z!ZPhases
    BY <1>0, <1>4 DEF ShellMoveZ, ShellType, ShellIdle, AxisNames, Z!ZStart, Z!ZPhases
  <2> QED
    BY <1>4, <2>1 DEF ShellMoveZ, IInv, TypeOK, AbortLocksOut
<1>5. ASSUME NEW hold \in BOOLEAN, ShellOther(hold) PROVE IInv'
  <2>1. m' \in CoordType /\ ~m'.latch /\ commands' \in 0 .. MaxCommands
    BY <1>5, <1>c, <1>m DEF ShellOther
  <2> QED
    BY <1>5, <2>1 DEF ShellOther, IInv, TypeOK, AbortLocksOut
<1>6. CASE ShellStopXY
  <2>1. m' \in CoordType /\ ~m'.latch /\ commands' \in 0 .. MaxCommands
    BY <1>6, <1>c, <1>m DEF ShellStopXY
  <2>2. xy' \in [AxisNames -> AxisType]
    BY <1>0, <1>6, StoppedType DEF ShellStopXY
  <2> QED
    BY <1>6, <2>1, <2>2 DEF ShellStopXY, IInv, TypeOK, AbortLocksOut
<1>7. CASE ShellStopZ
  <2>1. m' \in CoordType /\ ~m'.latch /\ commands' \in 0 .. MaxCommands
    BY <1>7, <1>c, <1>m DEF ShellStopZ
  <2>2. z' \in Z!ZPhases
    BY <1>0, <1>7 DEF ShellStopZ, Z!ZHalt, Z!ZPhases
  <2> QED
    BY <1>7, <2>1, <2>2 DEF ShellStopZ, IInv, TypeOK, AbortLocksOut
<1>8. CASE ShellClearZ
  BY <1>8, <1>c DEF ShellClearZ, Z!ZRecover, Z!ZPhases, IInv, TypeOK, AbortLocksOut
<1> QED
  BY <1>1, <1>2, <1>3, <1>4, <1>5, <1>6, <1>7, <1>8

\* Requests, captures and starts: an abort is only ever added to, and nothing is
\* started or captured once it is latched.
LEMMA RequestInv ==
  ASSUME ConstantsAssumption, IInv,
         \/ RequestAbort
         \/ \E o \in Tasks : RequestCancel(o) \/ CaptureReference(o)
         \/ \E o \in Tasks, accepted \in BOOLEAN : TaskStart(o, accepted)
  PROVE  IInv'
<1>0. /\ m \in CoordType /\ task \in [Tasks -> TaskStates] /\ Tasks \subseteq Owners
      /\ commands \in 0 .. MaxCommands
  BY DEF IInv, TypeOK, Owners
<1>c. Command => commands' \in 0 .. MaxCommands
  BY <1>0 DEF Command, ConstantsAssumption
<1>1. CASE RequestAbort
  BY <1>0, <1>1, <1>c DEF RequestAbort, IInv, TypeOK, AbortLocksOut, CoordType
<1>2. ASSUME NEW o \in Tasks, RequestCancel(o) PROVE IInv'
  BY <1>0, <1>2, <1>c DEF RequestCancel, IInv, TypeOK, AbortLocksOut, CoordType
<1>3. ASSUME NEW o \in Tasks, CaptureReference(o) PROVE IInv'
  <2>1. task[o] = "manual" /\ ~(m.latch /\ ~m.abort)
    BY <1>3 DEF CaptureReference, IInv, AbortLocksOut
  <2>2. m' \in CoordType /\ m'.latch = m.latch /\ m'.abort = m.abort
    <3> DEFINE free == IF m.owner = "MANUAL" THEN "NONE" ELSE m.owner
    <3>1. free \in Owners /\ o \in Owners
      BY <1>0 DEF CoordType, Owners
    <3>2. m' \in {[m EXCEPT !.owner = o, !.zFaulted = IF free = "NONE" THEN FALSE ELSE @],
                 [m EXCEPT !.owner = free]}
      BY <1>3 DEF CaptureReference
    <3> HIDE DEF free
    <3> QED
      BY <1>0, <3>1, <3>2 DEF CoordType
  <2>3. task' \in [Tasks -> TaskStates]
    BY <1>0, <1>3 DEF CaptureReference, TaskStates
  <2>4. commands' \in 0 .. MaxCommands
    BY <1>3, <1>c DEF CaptureReference
  <2> QED
    BY <1>3, <2>1, <2>2, <2>3, <2>4 DEF CaptureReference, IInv, TypeOK, AbortLocksOut
<1>4. ASSUME NEW o \in Tasks, NEW accepted \in BOOLEAN, TaskStart(o, accepted) PROVE IInv'
  <2>1. MayAcquire(o) /\ ~m.latch /\ Acquired(o) \in CoordType /\ ~Acquired(o).latch
        /\ [Acquired(o) EXCEPT !.owner = "NONE"] \in CoordType
    BY <1>0, <1>4, AcquiredType DEF TaskStart
  <2>2. m' \in CoordType /\ ~m'.latch
    BY <1>4, <2>1 DEF TaskStart, CoordType
  <2>3. task' \in [Tasks -> TaskStates]
    BY <1>0, <1>4 DEF TaskStart, TaskStates
  <2>4. commands' \in 0 .. MaxCommands
    BY <1>4, <1>c DEF TaskStart
  <2> QED
    BY <1>4, <2>2, <2>3, <2>4 DEF TaskStart, IInv, TypeOK, AbortLocksOut
<1> QED
  BY <1>1, <1>2, <1>3, <1>4

\* A task that goes on is active, hence not locked out; one that ends stays within it.
LEMMA TaskPollInv ==
  ASSUME IInv, NEW o \in Tasks, TaskPoll(o)
  PROVE  IInv'
<1>0. /\ m \in CoordType /\ task \in [Tasks -> TaskStates] /\ z \in Z!ZPhases
      /\ xy \in [AxisNames -> AxisType] /\ Now \in Motion /\ Locked(Now)
  BY NowLocked DEF IInv, TypeOK
<1>1. CASE TaskMove(o)
  <2>1. xy' \in [AxisNames -> AxisType]
    <3>1. \A x \in AxisNames : MoveRecord(MoveFrame(xy[x])) \in AxisType
      BY <1>0, MoveType
    <3> QED
      BY <1>0, <1>1, <3>1 DEF TaskMove
  <2>2. /\ late' \subseteq AxisNames /\ manual' \subseteq AxisNames /\ z' \in Z!ZPhases
        /\ UNCHANGED <<m, stage, startup, task, shell, bus, commands, trouble>>
    BY <1>0, <1>1 DEF TaskMove, Moved, Axes, AxisNames, Z!ZStart, Z!ZPhases, IInv, TypeOK
  <2> QED
    BY <2>1, <2>2 DEF IInv, TypeOK, AbortLocksOut
<1>2. CASE TaskDone(o)
  <2>1. m' \in CoordType /\ m'.latch = m.latch /\ m'.abort = m.abort
    BY <1>0, <1>2 DEF TaskDone, Released, Now, CoordType, Owners
  <2>2. task' \in [Tasks -> TaskStates] /\ ~(m.latch /\ ~m.abort)
    BY <1>0, <1>2 DEF TaskDone, TaskStates, IInv, AbortLocksOut
  <2> QED
    BY <1>2, <2>1, <2>2 DEF TaskDone, IInv, TypeOK, AbortLocksOut
<1>3. CASE TaskCapture(o)
  <2>1. task' \in [Tasks -> TaskStates] /\ ~(m.latch /\ ~m.abort)
    BY <1>0, <1>3 DEF TaskCapture, TaskStates, IInv, AbortLocksOut
  <2> QED
    BY <1>3, <2>1 DEF TaskCapture, IInv, TypeOK, AbortLocksOut
<1>4. ASSUME NEW halted \in BOOLEAN, TaskFault(o, halted) PROVE IInv'
  <2> DEFINE s == IF o \in Calibrations THEN Now ELSE TaskStop(Now, o, halted)
             t == [s EXCEPT !.task[o] = "off"]
  <2>1. s \in Motion /\ SameTasks(Now, s)
    BY <1>0, TaskStopMotion DEF SameTasks
  <2>2. Become(t) /\ UNCHANGED <<startup, shell, bus, late, manual, commands, trouble>>
    BY <1>4 DEF TaskFault
  <2> HIDE DEF s
  <2>3. /\ t \in Motion /\ SameLatch(Now, t)
        /\ \A p \in Tasks : t.task[p] \in {Now.task[p], "off"}
    BY <2>1 DEF Motion, SameTasks, SameLatch, TaskStates
  <2> HIDE DEF t
  <2>4. Locked(t)
    BY <1>0, <2>3, StaysLocked
  <2> QED
    BY <2>2, <2>3, <2>4, BecomeLocked DEF IInv, TypeOK
<1> QED
  BY <1>1, <1>2, <1>3, <1>4 DEF TaskPoll

-----------------------------------------------------------------------------
\* At power-on, and after the startup homing, nobody owns the axes.
LEMMA InitInv == ASSUME ConstantsAssumption, Init PROVE IInv
<1>1. m \in CoordType /\ ~m.latch
  BY DEF Init, CoordType, Owners
<1>2. xy \in [AxisNames -> AxisType]
  BY DEF Init, AxisType, XYStates, Acks, ConstantsAssumption
<1>3. stage \in 0 .. 2 /\ startup \in StartupStates /\ task \in [Tasks -> TaskStates]
  BY DEF Init, StartupStates, TaskStates
<1>4. /\ z \in Z!ZPhases /\ shell \in ShellType /\ bus \in {"ok", "lossy", "off"}
      /\ late \subseteq AxisNames /\ manual \subseteq AxisNames
  BY DEF Init, Z!ZPhases, ShellType, ShellIdle, AxisNames
<1>5. commands \in 0 .. MaxCommands /\ trouble \in 0 .. MaxTrouble
  BY DEF Init, ConstantsAssumption
<1> QED
  BY <1>1, <1>2, <1>3, <1>4, <1>5 DEF IInv, TypeOK, AbortLocksOut

\* Every step keeps the invariant.
LEMMA NextInv == ASSUME ConstantsAssumption, IInv, [Next]_vars PROVE IInv'
<1>1. CASE Coordinator
  BY <1>1, CoordPollInv, EmergencyInv DEF Coordinator
<1>2. CASE RequestAbort \/ Shell
  BY <1>2, ShellInv, RequestInv DEF Shell
<1>3. CASE \E x \in AxisNames : Axis(x)
  BY <1>3, AxisInv
<1>4. CASE StopAllY \/ StopAllDone \/ StartupPoll \/ ZSettle \/ BusDown \/ BusUp
  BY <1>4, BackgroundInv
<1>5. CASE \E o \in Tasks : TaskPoll(o)
  BY <1>5, TaskPollInv
<1>6. CASE UNCHANGED vars
  BY <1>6 DEF vars, IInv, TypeOK, AbortLocksOut
<1> QED
  BY <1>1, <1>2, <1>3, <1>4, <1>5, <1>6 DEF Next

\* The types, for every set of tasks: in particular the unified stop never leaves its
\* three stages, and no more than the modelled owners ever own the axes.
THEOREM TypeCorrect == Spec => []TypeOK
<1>1. Init => IInv
  BY InitInv, ConstantsAssumption
<1>2. IInv /\ [Next]_vars => IInv'
  BY NextInv, ConstantsAssumption
<1>3. IInv => TypeOK
  BY DEF IInv
<1> QED
  BY <1>1, <1>2, <1>3, PTL DEF Spec

\* An abort is final: after MotionCoordinator_Poll has taken it nobody owns the axes
\* and no task is active, whatever was being started, captured or moved when it came.
THEOREM AbortIsFinal == Spec => []AbortLocksOut
<1>1. Init => IInv
  BY InitInv, ConstantsAssumption
<1>2. IInv /\ [Next]_vars => IInv'
  BY NextInv, ConstantsAssumption
<1>3. IInv => AbortLocksOut
  BY DEF IInv
<1> QED
  BY <1>1, <1>2, <1>3, PTL DEF Spec

-----------------------------------------------------------------------------
(***************************************************************************)
(* Who moves the axes, for any number of commands and troubles: the shell  *)
(* never moves an axis under a running task, whoever the owner is, and a   *)
(* held ownership survives all but an abort.                               *)
(***************************************************************************)

Driving == {"STARTING", "MOVING", "HOMING"}

\* From s to t no axis is set in motion, no task begins to run, and a held manual
\* ownership is kept.
Calmer(s, t) ==
  /\ t \in Motion
  /\ \A x \in AxisNames : t.xy[x].state \in Driving => s.xy[x].state \in Driving
  /\ \A o \in Tasks : t.task[o] = "running" => s.task[o] = "running"
  /\ s.m.owner = "MANUAL" /\ s.m.hold => t.m.owner = "MANUAL" /\ t.m.hold

\* The first two of these.
Quieter(s, t) ==
  /\ t \in Motion
  /\ \A x \in AxisNames : t.xy[x].state \in Driving => s.xy[x].state \in Driving
  /\ \A o \in Tasks : t.task[o] = "running" => s.task[o] = "running"

\* A shell command between its check and its record finds no task running.
ShellApart ==
  shell.step # "idle" /\ shell.axis \in AxisNames => \A o \in Tasks : task[o] # "running"

\* The inductive invariant.
Apart == NoManualUnderTask /\ ShellApart

\* What a step must respect to keep it: no axis begins to move for the shell, no task
\* begins to run, and no shell command gets past its check.
Respects ==
  /\ \A x \in AxisNames : xy'[x].state \in Driving /\ x \in manual'
                            => xy[x].state \in Driving /\ x \in manual
  /\ \A o \in Tasks : task'[o] = "running" => task[o] = "running"
  /\ shell' = shell \/ shell'.step = "idle"

\* A step that leaves a held ownership to the shell, unless an abort is pending.
HoldKept == m.owner = "MANUAL" /\ m.hold /\ m'.owner # "MANUAL" => m.abort

-----------------------------------------------------------------------------
(* The coordinator only calms.                                             *)

LEMMA CalmerTrans ==
  ASSUME NEW r, NEW s, NEW t, Calmer(r, s), Calmer(s, t)
  PROVE  Calmer(r, t)
BY DEF Calmer

LEMMA CalmerSelf == ASSUME NEW s \in Motion PROVE Calmer(s, s)
BY DEF Calmer

\* XY_Stop sets no axis in motion.
LEMMA StoppedCalm == ASSUME NEW a \in AxisType PROVE Stopped(a).state \notin Driving
BY DEF Stopped, Faulted, AxisType, Driving

LEMMA StopAllCalm == ASSUME NEW s \in Motion PROVE Calmer(s, StopAll(s))
<1> DEFINE f == [s.xy EXCEPT !["X"] = Stopped(s.xy["X"])]
<1>1. s.xy \in [AxisNames -> AxisType] /\ "X" \in AxisNames
  BY DEF Motion, AxisNames
<1>2. \A x \in AxisNames : f[x].state \in Driving => s.xy[x].state \in Driving
  BY <1>1, StoppedCalm
<1> HIDE DEF f
<1>3. StopAll(s) \in {s, [s EXCEPT !.xy = f, !.stage = 1]}
  BY DEF StopAll, f
<1>4. StopAll(s).xy \in {s.xy, f}
  BY <1>3 DEF Motion
<1> QED BY <1>2, <1>4, StopAllMotion DEF Calmer, SameTasks

LEMMA StopMovingCalm ==
  ASSUME NEW s \in Motion, NEW axes, NEW states
  PROVE  Calmer(s, StopMoving(s, axes, states))
<1> DEFINE f == [x \in AxisNames |->
     IF x \in axes /\ s.xy[x].state \in states THEN Stopped(s.xy[x]) ELSE s.xy[x]]
<1>1. s.xy \in [AxisNames -> AxisType]
  BY DEF Motion
<1>2. \A x \in AxisNames : f[x].state \in Driving => s.xy[x].state \in Driving
  BY <1>1, StoppedCalm
<1> HIDE DEF f
<1>3. StopMoving(s, axes, states).xy = f
  BY DEF StopMoving, f, Motion
<1> QED BY <1>2, <1>3, StopMovingMotion DEF Calmer, SameTasks

LEMMA StopZCalm ==
  ASSUME NEW s \in Motion, NEW phases, NEW halted
  PROVE  Calmer(s, StopZ(s, phases, halted))
<1>1. StopZ(s, phases, halted).xy = s.xy
  BY DEF StopZ, Motion
<1> QED BY <1>1, StopZMotion DEF Calmer, SameTasks

LEMMA TaskStopCalm ==
  ASSUME NEW s \in Motion, NEW o \in Tasks, NEW halted
  PROVE  Calmer(s, TaskStop(s, o, halted))
<1> DEFINE p3 == StopMoving(s, {"X"}, {"STARTING", "MOVING", "STOPPING"})
           p4 == StopMoving(s, {"X"}, {"STARTING", "MOVING"})
           align == StopMoving(s, {"X", "Y"}, {"STARTING", "MOVING"})
<1>1. Calmer(s, p3) /\ Calmer(s, p4) /\ Calmer(s, align)
  BY StopMovingCalm
<1> HIDE DEF p3, p4, align
<1>2. /\ Calmer(p3, StopZ(p3, {"MOVING", "STOPPING"}, halted))
      /\ Calmer(p4, StopZ(p4, {"MOVING"}, halted))
  BY <1>1, StopZCalm DEF Calmer
<1>3. Calmer(s, StopAll(s)) /\ Calmer(s, s)
  BY StopAllCalm, CalmerSelf
<1>4. TaskStop(s, o, halted) \in
        {StopAll(s), s, StopZ(p3, {"MOVING", "STOPPING"}, halted), align,
         StopZ(p4, {"MOVING"}, halted)}
  BY Zenon DEF TaskStop, p3, p4, align
<1> QED BY <1>1, <1>2, <1>3, <1>4, CalmerTrans

\* Releasing an owner that does not hold MANUAL.
LEMMA ReleasedCalm ==
  ASSUME NEW s \in Motion, NEW o, o # "MANUAL" \/ ~s.m.hold
  PROVE  Calmer(s, Released(s, o))
<1>1. Released(s, o) \in Motion /\ Released(s, o).task = s.task
  BY ReleasedMotion
<1>2. Released(s, o).xy = s.xy
  BY DEF Released, Motion
<1>3. s.m.owner # o => Released(s, o) = s
  BY DEF Released
<1> QED BY <1>1, <1>2, <1>3 DEF Calmer

LEMMA TaskAbortCalm ==
  ASSUME NEW s \in Motion, NEW o \in AutomaticOwners, NEW halted
  PROVE  Calmer(s, TaskAbort(s, o, halted))
<1>1. CASE o \notin Tasks \/ s.task[o] = "off"
  BY <1>1, CalmerSelf DEF TaskAbort
<1>2. CASE o \in Tasks /\ s.task[o] # "off"
  <2> DEFINE r == TaskStop(s, o, halted)
             t == [r EXCEPT !.task[o] = "off"]
  <2>1. r \in Motion /\ Calmer(s, r)
    BY <1>2, TaskStopMotion, TaskStopCalm
  <2> HIDE DEF r
  <2>2. t \in Motion /\ t.m = r.m /\ t.xy = r.xy
    BY <1>2, <2>1 DEF Motion, TaskStates
  <2>3. \A p \in Tasks : t.task[p] = IF p = o THEN "off" ELSE r.task[p]
    BY <1>2, <2>1 DEF Motion
  <2> HIDE DEF t
  <2>4. Calmer(r, t)
    BY <2>1, <2>2, <2>3 DEF Calmer
  <2>5. Calmer(t, Released(t, o))
    BY <2>2, ReleasedCalm DEF AutomaticOwners
  <2>6. TaskAbort(s, o, halted) = IF o \in Calibrations THEN t ELSE Released(t, o)
    BY <1>2 DEF TaskAbort, t, r
  <2> QED BY <2>1, <2>4, <2>5, <2>6, CalmerTrans
<1> QED BY <1>1, <1>2

LEMMA AbortAllCalm ==
  ASSUME NEW s \in Motion, NEW halted
  PROVE  Calmer(s, AbortAllTasks(s, halted))
<1> DEFINE a == TaskAbort(s, "P2_CALIBRATION", halted)
           b == TaskAbort(a, "P3_CALIBRATION", halted)
           c == TaskAbort(b, "XY_ALIGN", halted)
           d == TaskAbort(c, "P4_XZ_ALIGN", halted)
<1>1. Calmer(s, a) /\ a \in Motion
  BY TaskAbortCalm DEF AutomaticOwners, Calmer
<1> HIDE DEF a
<1>2. Calmer(a, b) /\ b \in Motion
  BY <1>1, TaskAbortCalm DEF AutomaticOwners, Calmer
<1> HIDE DEF b
<1>3. Calmer(b, c) /\ c \in Motion
  BY <1>2, TaskAbortCalm DEF AutomaticOwners, Calmer
<1> HIDE DEF c
<1>4. Calmer(c, d)
  BY <1>3, TaskAbortCalm DEF AutomaticOwners
<1> HIDE DEF d
<1>5. AbortAllTasks(s, halted) = d
  BY DEF AbortAllTasks, a, b, c, d
<1> QED BY <1>1, <1>2, <1>3, <1>4, <1>5, CalmerTrans

LEMMA StopCalm ==
  ASSUME NEW s \in Motion, NEW halted
  PROVE  Calmer(s, BeginStop(s)) /\ Calmer(s, PollStop(s, halted))
<1>1. Calmer(s, BeginStop(s))
  BY StopMotion DEF BeginStop, Motion, CoordType, Calmer
<1> DEFINE r == StopAll(s)
           t == IF s.m.sent THEN s ELSE [r EXCEPT !.m.sent = TRUE]
           u == StopZ(t, {"MOVING"}, halted)
           v == [u EXCEPT !.m.stop = ~AxesStopped(u)]
<1>2. r \in Motion /\ Calmer(s, r)
  BY StopAllMotion, StopAllCalm
<1> HIDE DEF r
<1>3. Calmer(s, t) /\ t \in Motion
  BY <1>2 DEF Motion, CoordType, Calmer
<1> HIDE DEF t
<1>4. u \in Motion /\ Calmer(t, u)
  BY <1>3, StopZMotion, StopZCalm
<1> HIDE DEF u
<1>5. (~AxesStopped(u)) \in BOOLEAN
  BY DEF AxesStopped
<1>6. v \in Motion /\ Calmer(u, v)
  BY <1>4, <1>5 DEF Motion, CoordType, Calmer
<1>7. PollStop(s, halted) = v
  BY DEF PollStop, r, t, u
<1> QED BY <1>1, <1>3, <1>4, <1>6, <1>7, CalmerTrans
\* The two branches that take every task away.
LEMMA BranchesCalm ==
  ASSUME NEW s \in Motion, NEW halted
  PROVE  /\ Quieter(s, AbortBranch(s, halted))
         /\ Quieter(s, FaultBranch(s, halted))
         /\ s.m.owner # "MANUAL" => Calmer(s, FaultBranch(s, halted))
<1>1. ASSUME NEW q \in Motion, q.xy = s.xy, q.task = s.task
      PROVE  LET r == AbortAllTasks(q, halted)
                 t == [r EXCEPT !.m.owner = "NONE"]
             IN Quieter(s, t) /\ t \in Motion
  <2> DEFINE r == AbortAllTasks(q, halted)
             t == [r EXCEPT !.m.owner = "NONE"]
  <2>1. Calmer(q, r) /\ r \in Motion
    BY AbortAllCalm DEF Calmer
  <2> HIDE DEF r
  <2>2. t \in Motion /\ t.xy = r.xy /\ t.task = r.task
    BY <2>1 DEF Motion, CoordType, Owners
  <2> HIDE DEF t
  <2>3. Quieter(s, t)
    BY <1>1, <2>1, <2>2 DEF Calmer, Quieter
  <2> QED BY <2>2, <2>3 DEF r, t
<1>2. Quieter(s, FaultBranch(s, halted))
  <2> DEFINE q == [s EXCEPT !.m.cancel = "NONE"]
  <2>1. q \in Motion /\ q.xy = s.xy /\ q.task = s.task
    BY DEF Motion, CoordType
  <2>2. FaultBranch(s, halted) = [AbortAllTasks(q, halted) EXCEPT !.m.owner = "NONE"]
    BY DEF FaultBranch
  <2> HIDE DEF q
  <2> QED BY <1>1, <2>1, <2>2
<1>3. Quieter(s, AbortBranch(s, halted))
  <2> DEFINE q == [s EXCEPT !.m.abort = FALSE, !.m.cancel = "NONE", !.m.latch = TRUE]
             t == [AbortAllTasks(q, halted) EXCEPT !.m.owner = "NONE"]
  <2>1. q \in Motion /\ q.xy = s.xy /\ q.task = s.task
    BY DEF Motion, CoordType
  <2>2. AbortBranch(s, halted) \in {t, BeginStop(t)}
    BY DEF AbortBranch
  <2> HIDE DEF q
  <2>3. Quieter(s, t) /\ t \in Motion
    BY <1>1, <2>1
  <2> HIDE DEF t
  <2>4. Quieter(s, BeginStop(t))
    BY <2>3, StopCalm DEF Quieter, Calmer
  <2> QED BY <2>2, <2>3, <2>4
<1> QED BY <1>2, <1>3 DEF Quieter, Calmer

\* A cancellation is that of a task: it does not release a manual owner.
LEMMA CancelCalm ==
  ASSUME ConstantsAssumption, NEW s \in Motion, NEW halted
  PROVE  Calmer(s, CancelPhase(s, halted))
<1> DEFINE o == s.m.cancel
           t == [s EXCEPT !.m.cancel = "NONE"]
           r == TaskAbort(t, o, halted)
<1>1. t \in Motion /\ Calmer(s, t)
  BY DEF Motion, CoordType, Calmer
<1> HIDE DEF t
<1>2. CASE o \in Tasks
  <2>1. Calmer(t, r) /\ r \in Motion
    BY <1>1, <1>2, TaskAbortCalm DEF ConstantsAssumption, Calmer
  <2> HIDE DEF r
  <2>2. Calmer(r, Released(r, o))
    BY <1>2, <2>1, ReleasedCalm DEF ConstantsAssumption, AutomaticOwners
  <2>3. CancelPhase(s, halted) \in {t, Released(r, o)}
    BY DEF CancelPhase, t, r
  <2> QED BY <1>1, <2>1, <2>2, <2>3, CalmerTrans
<1>3. CASE o \notin Tasks
  BY <1>1, <1>3 DEF CancelPhase, t
<1> QED BY <1>2, <1>3

\* The automatic release lets a held ownership be.
LEMMA AutoReleaseCalm ==
  ASSUME ConstantsAssumption, NEW s \in Motion
  PROVE  Calmer(s, AutoRelease(s))
<1>1. CASE s.m.owner \in Tasks /\ s.task[s.m.owner] = "off"
  BY <1>1, ReleasedCalm DEF AutoRelease, ConstantsAssumption, AutomaticOwners
<1>2. CASE s.m.owner = "MANUAL" /\ ~s.m.hold
  BY <1>2, ReleasedCalm, CalmerSelf DEF AutoRelease, ConstantsAssumption, AutomaticOwners
<1>3. CASE AutoRelease(s) = s
  BY <1>3, CalmerSelf
<1> QED BY <1>1, <1>2, <1>3 DEF AutoRelease

LEMMA QuieterThen ==
  ASSUME NEW r, NEW s, NEW t, Quieter(r, s), Calmer(s, t)
  PROVE  Quieter(r, t)
BY DEF Calmer, Quieter

-----------------------------------------------------------------------------
(* The steps of the specification.                                         *)

LEMMA RespectsApart ==
  ASSUME IInv, Apart, Respects
  PROVE  Apart'
<1>1. ShellApart'
  BY DEF Apart, ShellApart, Respects
<1>2. ASSUME NEW o \in Tasks, task'[o] = "running", NEW x \in Axes(o),
             Busy(xy'[x]), xy'[x].state # "STOPPING"
      PROVE  x \notin manual'
  <2>1. x \in AxisNames
    BY DEF Axes, AxisNames
  <2>2. xy'[x].state \in Driving
    BY <1>2 DEF Busy, Driving
  <2>3. xy[x].state \in Driving => Busy(xy[x]) /\ xy[x].state # "STOPPING"
    BY DEF Busy, Driving
  <2> QED BY <1>2, <2>1, <2>2, <2>3 DEF Respects, Apart, NoManualUnderTask
<1> QED BY <1>1, <1>2 DEF Apart, NoManualUnderTask

\* A step to a quieter motion state.
LEMMA BecomeRespects ==
  ASSUME IInv, NEW t, Quieter(Now, t), Become(t), UNCHANGED <<shell, manual>>
  PROVE  Respects
BY DEF Quieter, Become, Now, Respects

LEMMA CoordPollApart ==
  ASSUME ConstantsAssumption, IInv, NEW halted \in BOOLEAN, CoordPoll(halted)
  PROVE  Respects /\ HoldKept
<1> DEFINE a == IF m.abort THEN AbortBranch(Now, halted)
                ELSE IF m.owner \in Tasks /\ OwnerAxisFaulted(Now, m.owner)
                THEN FaultBranch(Now, halted)
                ELSE Now
           c == CancelPhase(a, halted)
           p == IF c.m.stop THEN PollStop(c, halted) ELSE c
           r == AutoRelease(p)
<1>0. Now \in Motion /\ Now.m = m
  BY NowLocked DEF Now
<1>1. a \in Motion /\ Quieter(Now, a) /\ (~m.abort => Calmer(Now, a))
  <2>1. "MANUAL" \notin Tasks
    BY DEF ConstantsAssumption, AutomaticOwners
  <2>2. CASE m.abort
    BY <1>0, <2>2, BranchesCalm DEF Quieter
  <2>3. CASE ~m.abort /\ m.owner \in Tasks
    BY <1>0, <2>1, <2>3, BranchesCalm, CalmerSelf DEF Quieter, Calmer
  <2>4. CASE ~m.abort /\ m.owner \notin Tasks
    BY <1>0, <2>4, CalmerSelf DEF Quieter, Calmer
  <2> QED BY <2>2, <2>3, <2>4
<1>2. Become(r) /\ UNCHANGED <<startup, shell, bus, late, manual, commands, trouble>>
  BY DEF CoordPoll
<1> HIDE DEF a
<1>3. c \in Motion /\ Calmer(a, c)
  BY <1>1, CancelCalm DEF Calmer
<1> HIDE DEF c
<1>4. p \in Motion /\ Calmer(c, p)
  BY <1>3, StopCalm, CalmerSelf DEF Calmer
<1> HIDE DEF p
<1>5. Calmer(p, r)
  BY <1>4, AutoReleaseCalm
<1> HIDE DEF r
<1>6. Calmer(a, r)
  BY <1>3, <1>4, <1>5, CalmerTrans
<1>7. Respects
  BY <1>1, <1>2, <1>6, QuieterThen, BecomeRespects
<1>8. ~m.abort => HoldKept
  BY <1>0, <1>1, <1>2, <1>6, CalmerTrans DEF Calmer, HoldKept, Become
<1> QED BY <1>7, <1>8 DEF HoldKept

LEMMA EmergencyApart ==
  ASSUME IInv, NEW halted \in BOOLEAN, Emergency(halted)
  PROVE  Respects /\ HoldKept
<1> DEFINE q == [Now EXCEPT !.m.latch = TRUE]
           b == IF m.latch THEN Now ELSE BeginStop(q)
           r == PollStop(b, halted)
<1>0. Now \in Motion /\ m.abort
  BY NowLocked DEF Emergency
<1>1. q \in Motion /\ Quieter(Now, q)
  BY <1>0 DEF Motion, CoordType, Quieter
<1>2. Become(r) /\ UNCHANGED <<startup, shell, bus, late, manual, commands, trouble>>
  BY DEF Emergency
<1> HIDE DEF q
<1>3. b \in Motion /\ Quieter(Now, b)
  BY <1>0, <1>1, StopCalm, QuieterThen DEF Quieter, Calmer
<1> HIDE DEF b
<1>4. Calmer(b, r)
  BY <1>3, StopCalm
<1> HIDE DEF r
<1> QED BY <1>0, <1>2, <1>3, <1>4, QuieterThen, BecomeRespects DEF HoldKept
\* A step of one axis that begins no motion.
LEMMA XYStepRespects ==
  ASSUME IInv, NEW x \in AxisNames, NEW a, XYStep(x, a), manual' \subseteq manual,
         a.state \in Driving => xy[x].state \in Driving
  PROVE  Respects /\ HoldKept
<1>1. xy \in [AxisNames -> AxisType] /\ xy' = [xy EXCEPT ![x] = a]
      /\ UNCHANGED <<m, task, shell>>
  BY DEF IInv, TypeOK, XYStep
<1>2. \A y \in AxisNames : xy'[y].state \in Driving => xy[y].state \in Driving
  BY <1>1
<1> QED BY <1>1, <1>2 DEF Respects, HoldKept

LEMMA AxisApart ==
  ASSUME IInv, NEW x \in AxisNames, Axis(x)
  PROVE  Respects /\ HoldKept
<1> DEFINE a == xy[x]
<1>0. a \in AxisType
  BY DEF IInv, TypeOK
<1> USE DEF AxisType, XYStates, Acks, Driving
<1>1. CASE MoveAck(x)
  <2> DEFINE b == [a EXCEPT !.replies = @ \ {"MOVE"}, !.waiting = @ \ {"MOVE"},
                            !.state = IF @ = "STARTING" THEN "MOVING" ELSE @]
  <2>1. b.state \in Driving => a.state \in Driving
    BY <1>0
  <2>2. XYStep(x, b) /\ manual' = manual
    BY <1>1 DEF MoveAck
  <2> QED BY <2>1, <2>2, XYStepRespects
<1>2. CASE StopAck(x)
  <2> DEFINE b == [a EXCEPT !.replies = @ \ {"STOP"}]
             c == [b EXCEPT !.waiting = @ \ {"STOP"}, !.state = RestState(b)]
  <2>1. b \in AxisType /\ b.state = a.state
    BY <1>0
  <2>2. c.state \notin Driving
    BY <2>1 DEF RestState
  <2>3. manual' = manual /\ (XYStep(x, b) \/ XYStep(x, c))
    BY <1>2 DEF StopAck
  <2> HIDE DEF b, c
  <2> QED BY <2>1, <2>2, <2>3, XYStepRespects
<1>3. CASE HomeAck(x)
  <2> DEFINE b == [a EXCEPT !.replies = @ \ {"HOME"}, !.waiting = @ \ {"HOME"}]
  <2>1. b.state = a.state
    BY <1>0
  <2>2. XYStep(x, b) /\ manual' = manual
    BY <1>3 DEF HomeAck
  <2> QED BY <2>1, <2>2, XYStepRespects
<1>4. CASE HomeRun(x)
  <2>1. a.state \in Driving
    BY <1>4 DEF HomeRun
  <2>2. manual' \subseteq manual
    BY <1>4 DEF HomeRun, Moved
  <2> QED BY <1>4, <2>1, <2>2, XYStepRespects DEF HomeRun
<1>5. CASE HomeDone(x)
  <2> DEFINE b == [a EXCEPT !.state = "IDLE", !.valid = TRUE, !.home = "none"]
  <2>1. b.state \notin Driving
    BY <1>0
  <2>2. XYStep(x, b) /\ manual' = manual
    BY <1>5 DEF HomeDone
  <2> QED BY <2>1, <2>2, XYStepRespects
<1>6. CASE Arrived(x)
  <2>1. /\ [a EXCEPT !.state = "IDLE"].state \notin Driving
        /\ [a EXCEPT !.state = RestState(a)].state \notin Driving
    BY <1>0 DEF RestState
  <2>2. manual' = manual /\ \/ XYStep(x, [a EXCEPT !.state = "IDLE"])
                            \/ XYStep(x, [a EXCEPT !.state = RestState(a)])
    BY <1>6 DEF Arrived
  <2> QED BY <2>1, <2>2, XYStepRespects
<1>7. CASE AxisTimeout(x) \/ DriverAlarm(x)
  <2>1. Faulted(a).state \notin Driving
    BY <1>0 DEF Faulted
  <2>2. XYStep(x, Faulted(a)) /\ manual' = manual
    BY <1>7 DEF AxisTimeout, DriverAlarm
  <2> QED BY <2>1, <2>2, XYStepRespects
<1>8. CASE HomeRetry(x)
  <2>1. [a EXCEPT !.waiting = @ \ {"HOME"}].state = a.state
    BY <1>0
  <2>2. XYStep(x, [a EXCEPT !.waiting = @ \ {"HOME"}]) /\ manual' = manual
    BY <1>8 DEF HomeRetry
  <2> QED BY <2>1, <2>2, XYStepRespects
<1>9. CASE MotorDone(x)
  <2>1. [a EXCEPT !.motor = FALSE].state = a.state
    BY <1>0
  <2>2. XYStep(x, [a EXCEPT !.motor = FALSE]) /\ manual' = manual
    BY <1>9 DEF MotorDone
  <2> QED BY <2>1, <2>2, XYStepRespects
<1> QED
  BY <1>1, <1>2, <1>3, <1>4, <1>5, <1>6, <1>7, <1>8, <1>9 DEF Axis

\* The startup homing moves axes, but not for the shell.
LEMMA BackgroundApart ==
  ASSUME ConstantsAssumption, IInv,
         StopAllY \/ StopAllDone \/ StartupPoll \/ ZSettle \/ BusDown \/ BusUp
  PROVE  Respects /\ HoldKept
<1>0. xy \in [AxisNames -> AxisType] /\ AxisNames = {"X", "Y"} /\ startup \in StartupStates
  BY DEF IInv, TypeOK, AxisNames
<1>1. CASE StopAllY
  <2>1. \A x \in AxisNames : xy'[x].state \in Driving => xy[x].state \in Driving
    BY <1>0, <1>1, StoppedCalm DEF StopAllY
  <2> QED BY <1>1, <2>1 DEF StopAllY, Respects, HoldKept
<1>2. CASE StopAllDone \/ BusDown \/ BusUp
  BY <1>2 DEF StopAllDone, BusDown, BusUp, Respects, HoldKept
<1>3. CASE StartupPoll
  <2>h. ASSUME NEW x \in AxisNames, NEW next, StartupHome(x, next)
        PROVE  \A y \in AxisNames : xy'[y].state \in Driving /\ y \in manual'
                                      => xy[y].state \in Driving /\ y \in manual
    BY <1>0, <2>h DEF StartupHome
  <2>r. ASSUME NEW x \in AxisNames, NEW next, StartupHoming(x, next)
        PROVE  xy' = xy /\ manual' = manual
    BY <2>r DEF StartupHoming
  <2>1. \A y \in AxisNames : xy'[y].state \in Driving /\ y \in manual'
                               => xy[y].state \in Driving /\ y \in manual
    <3>1. CASE startup = "WAITING_TO_HOME_X"
      BY <1>0, <1>3, <2>h, <3>1 DEF StartupPoll
    <3>2. CASE startup = "WAITING_TO_HOME_Y"
      BY <1>0, <1>3, <2>h, <3>2 DEF StartupPoll
    <3>3. CASE startup = "HOMING_X"
      BY <1>0, <1>3, <2>r, <3>3 DEF StartupPoll
    <3>4. CASE startup = "HOMING_Y"
      BY <1>0, <1>3, <2>r, <3>4 DEF StartupPoll
    <3>5. CASE startup \in {"WAITING_REPLIES", "COMPLETE", "SKIPPED", "FAILED"}
      BY <1>3, <3>5 DEF StartupPoll
    <3> QED BY <1>0, <3>1, <3>2, <3>3, <3>4, <3>5 DEF StartupStates
  <2>2. UNCHANGED <<m, task, shell>>
    BY <1>3 DEF StartupPoll
  <2> QED BY <2>1, <2>2 DEF Respects, HoldKept
<1>4. CASE ZSettle
  <2>1. m' \in {m, [m EXCEPT !.zFaulted = TRUE]}
    BY <1>4 DEF ZSettle
  <2>2. m'.owner = m.owner
    BY <2>1 DEF IInv, TypeOK, CoordType
  <2> QED BY <1>4, <2>2 DEF ZSettle, Respects, HoldKept
<1> QED BY <1>1, <1>2, <1>3, <1>4

\* A manual command that acquires has the ownership afterwards.
LEMMA ManualStays ==
  ASSUME IInv, NEW hold \in BOOLEAN, m' = ManualAcquired(hold)
  PROVE  HoldKept
BY DEF ManualAcquired, Acquired, HoldKept, IInv, TypeOK, CoordType

\* The shell moves an axis only while no task runs, and none begins meanwhile.
LEMMA ShellKeepsApart ==
  ASSUME ConstantsAssumption, IInv, Apart,
         \/ \E op \in {"move", "home"}, x \in AxisNames \cup {"Z"} : ShellCheck(op, x)
         \/ ShellSend \/ ShellRecord \/ ShellMoveZ
         \/ \E hold \in BOOLEAN : ShellOther(hold)
         \/ ShellStopXY \/ ShellStopZ \/ ShellClearZ
  PROVE  Apart' /\ HoldKept
<1>0. xy \in [AxisNames -> AxisType] /\ shell \in ShellType
  BY DEF IInv, TypeOK
<1>1. ASSUME NEW op \in {"move", "home"}, NEW x \in AxisNames \cup {"Z"}, ShellCheck(op, x)
      PROVE  Apart' /\ HoldKept
  <2>1. UNCHANGED <<xy, task, manual>> /\ m' = ManualAcquired(FALSE)
    BY <1>1 DEF ShellCheck
  <2>2. NoManualUnderTask'
    BY <2>1 DEF Apart, NoManualUnderTask, Busy
  <2>3. ShellApart'
    <3>1. CASE shell' = shell
      BY <2>1, <3>1 DEF Apart, ShellApart
    <3>2. CASE shell' # shell
      <4>1. Allowed(op, x) /\ shell'.axis = x
        BY <1>1, <3>2 DEF ShellCheck
      <4>2. ASSUME x # "Z", NEW o \in Tasks PROVE task[o] # "running"
        <5>1. o \in {"P2_CALIBRATION", "P3_CALIBRATION", "XY_ALIGN", "P4_XZ_ALIGN"}
          BY DEF ConstantsAssumption, AutomaticOwners
        <5> QED BY <4>1, <4>2, <5>1 DEF Allowed, Inactive, ManualMotionAllowed
      <4> QED BY <2>1, <4>1, <4>2 DEF ShellApart, AxisNames
    <3> QED BY <3>1, <3>2
  <2> QED BY <2>1, <2>2, <2>3, ManualStays DEF Apart
<1>2. CASE ShellSend \/ ShellRecord
  <2>1. shell.step # "idle" /\ UNCHANGED <<m, task>>
    BY <1>2 DEF ShellSend, ShellRecord
  <2>2. CASE shell.axis \in AxisNames
    <3>1. \A o \in Tasks : task[o] # "running"
      BY <2>1, <2>2 DEF Apart, ShellApart
    <3> QED BY <2>1, <3>1 DEF Apart, NoManualUnderTask, ShellApart, HoldKept
  <2>3. CASE shell.axis \notin AxisNames
    <3>1. shell.axis = "Z" /\ ~ShellSend
      BY <1>0, <2>3 DEF ShellType, ShellSend
    <3>2. xy' = [xy EXCEPT !["Z"] = xy'["Z"]] /\ manual' = manual /\ shell' = ShellIdle
      BY <1>0, <1>2, <2>3, <3>1 DEF ShellRecord
    <3>3. xy' = xy
      BY <1>0, <1>2, <2>3, <3>1 DEF ShellRecord
    <3> QED BY <2>1, <3>2, <3>3, RespectsApart DEF Respects, ShellIdle, HoldKept
  <2> QED BY <2>2, <2>3
<1>3. CASE ShellMoveZ
  <2>1. Respects /\ HoldKept
    BY <1>3 DEF ShellMoveZ, Respects, HoldKept, ShellIdle
  <2> QED BY <2>1, RespectsApart
<1>4. ASSUME NEW hold \in BOOLEAN, ShellOther(hold) PROVE Apart' /\ HoldKept
  <2>1. Respects /\ HoldKept
    BY <1>4, ManualStays DEF ShellOther, Respects
  <2> QED BY <2>1, RespectsApart
<1>5. CASE ShellStopXY
  <2>1. \A x \in AxisNames : xy'[x].state \in Driving => xy[x].state \in Driving
    BY <1>0, <1>5, StoppedCalm DEF ShellStopXY
  <2>2. Respects /\ HoldKept
    BY <1>5, <2>1, ManualStays DEF ShellStopXY, Respects
  <2> QED BY <2>2, RespectsApart
<1>6. CASE ShellStopZ
  <2>1. Respects /\ HoldKept
    BY <1>6, ManualStays DEF ShellStopZ, Respects
  <2> QED BY <2>1, RespectsApart
<1>7. CASE ShellClearZ
  <2>1. Respects /\ HoldKept
    BY <1>7 DEF ShellClearZ, Respects, HoldKept
  <2> QED BY <2>1, RespectsApart
<1> QED BY <1>1, <1>2, <1>3, <1>4, <1>5, <1>6, <1>7

\* A task starts when its axes are idle and no shell command is under way; neither a start
\* nor a capture takes a held ownership.
LEMMA RequestApart ==
  ASSUME ConstantsAssumption, IInv, Apart,
         \/ RequestAbort
         \/ \E o \in Tasks : RequestCancel(o) \/ CaptureReference(o)
         \/ \E o \in Tasks, accepted \in BOOLEAN : TaskStart(o, accepted)
  PROVE  Apart' /\ HoldKept
<1>0. m \in CoordType /\ task \in [Tasks -> TaskStates] /\ "MANUAL" \notin Tasks
  BY DEF IInv, TypeOK, ConstantsAssumption, AutomaticOwners
<1>1. ASSUME RequestAbort \/ \E o \in Tasks : RequestCancel(o) PROVE Apart' /\ HoldKept
  <2>1. m'.owner = m.owner
    BY <1>0, <1>1 DEF RequestAbort, RequestCancel, CoordType
  <2>2. Respects /\ HoldKept
    BY <1>1, <2>1 DEF RequestAbort, RequestCancel, Respects, HoldKept
  <2> QED BY <2>2, RespectsApart
<1>2. ASSUME NEW o \in Tasks, CaptureReference(o) PROVE Apart' /\ HoldKept
  <2>1. ~(m.owner = "MANUAL" /\ m.hold) /\ UNCHANGED <<xy, shell, manual>>
    BY <1>2 DEF CaptureReference
  <2>2. \A p \in Tasks : task'[p] = "running" => task[p] = "running"
    BY <1>0, <1>2 DEF CaptureReference
  <2> QED BY <2>1, <2>2, RespectsApart DEF Respects, HoldKept
<1>3. ASSUME NEW o \in Tasks, NEW accepted \in BOOLEAN, TaskStart(o, accepted)
      PROVE  Apart' /\ HoldKept
  <2>1. m.owner # "MANUAL" /\ shell.step = "idle" /\ UNCHANGED <<xy, shell, manual>>
    BY <1>0, <1>3 DEF TaskStart, MayAcquire, MutexFree
  <2>2. CASE accepted
    <3>1. \A x \in Axes(o) : ~Busy(xy[x])
      BY <1>3, <2>2 DEF TaskStart, AxesReady, Busy
    <3>2. \A p \in Tasks : task'[p] = "running" => p = o
      <4>1. \A p \in Tasks : task[p] = "off"
        BY <1>3, <2>2 DEF TaskStart, Inactive
      <4>2. task' = [task EXCEPT ![o] = "running"]
        BY <1>3, <2>2 DEF TaskStart
      <4> QED BY <1>0, <4>1, <4>2
    <3>3. NoManualUnderTask'
      BY <2>1, <3>1, <3>2 DEF NoManualUnderTask, Busy
    <3>4. ShellApart'
      BY <2>1 DEF ShellApart
    <3> QED BY <2>1, <3>3, <3>4 DEF Apart, HoldKept
  <2>3. CASE ~accepted
    <3>1. \A p \in Tasks : task'[p] = "running" => task[p] = "running"
      BY <1>0, <1>3, <2>3 DEF TaskStart
    <3> QED BY <2>1, <3>1, RespectsApart DEF Respects, HoldKept
  <2> QED BY <2>2, <2>3
<1> QED BY <1>1, <1>2, <1>3

\* A running task moves axes, but not for the shell, and releases at most itself.
LEMMA TaskPollApart ==
  ASSUME ConstantsAssumption, IInv, NEW o \in Tasks, TaskPoll(o)
  PROVE  Respects /\ HoldKept
<1>0. /\ m \in CoordType /\ task \in [Tasks -> TaskStates] /\ Now \in Motion
      /\ xy \in [AxisNames -> AxisType] /\ o # "MANUAL"
  BY NowLocked DEF IInv, TypeOK, ConstantsAssumption, AutomaticOwners
<1>1. CASE TaskMove(o)
  <2>1. UNCHANGED <<m, task, shell>>
    BY <1>1 DEF TaskMove
  <2>2. CASE UNCHANGED <<xy, manual>>
    BY <2>1, <2>2 DEF Respects, HoldKept
  <2>3. CASE \E x \in Axes(o) : xy' = [xy EXCEPT ![x] = MoveRecord(MoveFrame(@))]
                                /\ Moved({x}, "task")
    BY <1>0, <2>1, <2>3 DEF Moved, Respects, HoldKept
  <2> QED BY <1>1, <2>2, <2>3 DEF TaskMove
<1>2. CASE TaskDone(o)
  <2>1. m'.owner = "MANUAL" \/ m.owner # "MANUAL"
    BY <1>0, <1>2 DEF TaskDone, Released, Now
  <2>2. \A p \in Tasks : task'[p] = "running" => task[p] = "running"
    BY <1>0, <1>2 DEF TaskDone
  <2> QED BY <1>2, <2>1, <2>2 DEF TaskDone, Respects, HoldKept
<1>3. CASE TaskCapture(o)
  <2>1. \A p \in Tasks : task'[p] = "running" => task[p] = "running"
    BY <1>0, <1>3 DEF TaskCapture
  <2> QED BY <1>3, <2>1 DEF TaskCapture, Respects, HoldKept
<1>4. ASSUME NEW halted \in BOOLEAN, TaskFault(o, halted) PROVE Respects /\ HoldKept
  <2> DEFINE s == IF o \in Calibrations THEN Now ELSE TaskStop(Now, o, halted)
             t == [s EXCEPT !.task[o] = "off"]
  <2>1. s \in Motion /\ Calmer(Now, s) /\ SameTasks(Now, s)
    BY <1>0, TaskStopMotion, TaskStopCalm, CalmerSelf DEF SameTasks
  <2>2. Become(t) /\ UNCHANGED <<startup, shell, bus, late, manual, commands, trouble>>
    BY <1>4 DEF TaskFault
  <2> HIDE DEF s
  <2>3. t \in Motion /\ t.m = s.m /\ t.xy = s.xy
    BY <2>1 DEF Motion, TaskStates
  <2>4. \A p \in Tasks : t.task[p] = "running" => s.task[p] = "running"
    BY <2>1 DEF Motion
  <2> HIDE DEF t
  <2>5. Quieter(Now, t)
    BY <2>1, <2>3, <2>4 DEF Calmer, Quieter
  <2>6. m' = m
    BY <2>1, <2>2, <2>3 DEF SameTasks, Become, Now
  <2> QED BY <2>2, <2>5, <2>6, BecomeRespects DEF HoldKept
<1> QED BY <1>1, <1>2, <1>3, <1>4 DEF TaskPoll

-----------------------------------------------------------------------------
LEMMA InitApart == ASSUME Init PROVE Apart
BY DEF Init, ShellIdle, Apart, NoManualUnderTask, ShellApart

\* Every step keeps the invariant and a held ownership.
LEMMA NextApart ==
  ASSUME ConstantsAssumption, IInv, Apart, [Next]_vars
  PROVE  Apart' /\ (HoldKept \/ UNCHANGED vars)
<1>1. CASE Coordinator
  BY <1>1, CoordPollApart, EmergencyApart, RespectsApart DEF Coordinator
<1>2. CASE RequestAbort \/ Shell
  BY <1>2, ShellKeepsApart, RequestApart DEF Shell
<1>3. CASE \E x \in AxisNames : Axis(x)
  BY <1>3, AxisApart, RespectsApart
<1>4. CASE StopAllY \/ StopAllDone \/ StartupPoll \/ ZSettle \/ BusDown \/ BusUp
  BY <1>4, BackgroundApart, RespectsApart
<1>5. CASE \E o \in Tasks : TaskPoll(o)
  BY <1>5, TaskPollApart, RespectsApart
<1>6. CASE UNCHANGED vars
  BY <1>6, RespectsApart DEF vars, Respects
<1> QED
  BY <1>1, <1>2, <1>3, <1>4, <1>5, <1>6 DEF Next

\* No manual motion under a running task, for any number of commands: in particular when a
\* refused second start has taken the task's ownership away (vision_calibration.c:615) and
\* the shell acquires MANUAL, the checks of its motion commands (shell.c:684) suffice.
THEOREM ShellKeepsAway == Spec => []NoManualUnderTask
<1>1. Init => IInv /\ Apart
  BY InitInv, InitApart, ConstantsAssumption
<1>2. IInv /\ Apart /\ [Next]_vars => IInv' /\ Apart'
  BY NextInv, NextApart, ConstantsAssumption
<1>3. Apart => NoManualUnderTask
  BY DEF Apart
<1> QED
  BY <1>1, <1>2, <1>3, PTL DEF Spec

\* A held manual ownership is only ended by an abort, for any number of commands: neither
\* the automatic release (motion_coordinator.c:207) nor a start, capture, cancellation or
\* fault of a task takes it away.
THEOREM HoldIsKept == Spec => HoldSurvives
<1>1. Init => IInv /\ Apart
  BY InitInv, InitApart, ConstantsAssumption
<1>2. IInv /\ Apart /\ [Next]_vars => IInv' /\ Apart'
  BY NextInv, NextApart, ConstantsAssumption
<1>3. IInv /\ Apart /\ [Next]_vars => [HoldKept]_vars
  BY NextApart, ConstantsAssumption
<1>4. HoldSurvives <=> [][HoldKept]_vars
  BY DEF HoldSurvives, HoldKept
<1> QED
  BY <1>1, <1>2, <1>3, <1>4, PTL DEF Spec

-----------------------------------------------------------------------------
(***************************************************************************)
(* The stop of an abort covers every motor that was running when the abort *)
(* came, for any number of commands and troubles.                          *)
(***************************************************************************)

\* An axis that does not pass for stopped although its motor may run.
Covered(a) == a.state = "FAULT" \/ "STOP" \in a.waiting

\* The shell is between the check and the record of a command to the axis.
Handling(x) == shell.step # "idle" /\ shell.axis = x

\* The answer to a stop can only be taken for the end of a motion that has ended: what runs
\* then has been set in motion after the latch. Nobody but the holder of the mutex, or a
\* second unified stop, could make the axis forget that it awaits the answer.
StopAnswered(x) ==
  "STOP" \in xy[x].replies =>
    /\ xy[x].motor => x \in late
    /\ IF Handling(x) THEN "STOP" \in xy[x].waiting /\ m.latch /\ stage # 0
       ELSE Covered(xy[x])

\* A motor that was running when the latch was set has its axis at work or covered, or the
\* shell is about to record its motion.
Accounted(x) ==
  xy[x].motor /\ x \notin late =>
    \/ Busy(xy[x]) \/ Covered(xy[x])
    \/ shell.step = "sent" /\ shell.op = "move" /\ shell.axis = x

\* The coordinator takes an abort with the mutex, and nobody acquires under the latch.
ShellOver == shell.step # "idle" => ~m.latch \/ m.abort

\* The inductive invariant.
Coverage ==
  /\ \A x \in AxisNames : StopAnswered(x) /\ Accounted(x)
  /\ ShellOver /\ StopCovers

\* What becomes of an axis in a step under the mutex.
Keeps(x, a, b) ==
  /\ "STOP" \in b.replies => (b.motor => x \in late') /\ Covered(b)
  /\ b.motor /\ x \notin late' =>
       /\ Busy(b) \/ Covered(b)
       /\ m.latch => a.motor /\ (Covered(a) => Covered(b))

\* What a step under the mutex must respect, of the axes and of the stop.
AxesKeep ==
  /\ shell.step = "idle" /\ shell' = shell /\ late \subseteq late'
  /\ \A x \in AxisNames : Keeps(x, xy[x], xy'[x])

StopKeeps ==
  m'.latch /\ ~m'.stop /\ ~m'.abort =>
    \/ m.latch /\ ~m.stop /\ ~m.abort
    \/ \A x \in AxisNames : ~Busy(xy'[x])

\* From s to t axes are stopped, and the stop of an abort neither begins nor ends.
Halts(s, t) ==
  /\ t \in Motion
  /\ \A x \in AxisNames : t.xy[x] \in {s.xy[x], Stopped(s.xy[x])}

Halting(s, t) ==
  Halts(s, t) /\ t.m.stop = s.m.stop /\ t.m.latch = s.m.latch /\ t.m.abort = s.m.abort

\* Whatever keeps to this keeps the invariant.
LEMMA KeptCoverage ==
  ASSUME Coverage, AxesKeep, StopKeeps
  PROVE  Coverage'
<1>1. \A x \in AxisNames : (StopAnswered(x) /\ Accounted(x))'
  BY DEF AxesKeep, Keeps, StopAnswered, Accounted, Handling, Covered, Busy
<1>2. ShellOver'
  BY DEF AxesKeep, ShellOver
<1>3. ASSUME m'.latch, ~m'.stop, ~m'.abort, NEW x \in AxisNames, xy'[x].motor, x \notin late'
      PROVE  Covered(xy'[x])
  <2>1. CASE m.latch /\ ~m.stop /\ ~m.abort
    BY <1>3, <2>1 DEF AxesKeep, Keeps, Coverage, StopCovers, Covered
  <2>2. CASE ~Busy(xy'[x])
    BY <1>3, <2>2 DEF AxesKeep, Keeps
  <2> QED BY <1>3, <2>1, <2>2 DEF StopKeeps
<1>4. StopCovers'
  BY <1>3 DEF StopCovers, Covered
<1> QED BY <1>1, <1>2, <1>4 DEF Coverage

\* An axis that is left alone, or stopped, keeps.
LEMMA SelfKeeps ==
  ASSUME Coverage, shell.step = "idle", late \subseteq late', NEW x \in AxisNames
  PROVE  Keeps(x, xy[x], xy[x])
BY DEF Coverage, StopAnswered, Accounted, Handling, Keeps

LEMMA StoppedAxis ==
  ASSUME NEW a \in AxisType
  PROVE  /\ Covered(Stopped(a)) /\ Stopped(Stopped(a)) = Stopped(a)
         /\ Stopped(a).motor => a.motor
         /\ "STOP" \in Stopped(a).replies /\ Stopped(a).motor => "STOP" \in a.replies
         /\ bus = "off" => Stopped(a).replies = a.replies
         /\ bus # "off" => "STOP" \in Stopped(a).waiting
<1>1. CASE Refused
  BY <1>1 DEF Stopped, Faulted, Covered, AxisType, Refused
<1>2. CASE ~Refused
  <2> DEFINE w == (a.waiting \ {"MOVE", "HOME"}) \cup {"STOP"}
             b == [a EXCEPT !.state = "STOPPING", !.waiting = w,
                            !.replies = Answered(a, "STOP"),
                            !.motor = a.motor /\ bus # "ok"]
             w2 == (w \ {"MOVE", "HOME"}) \cup {"STOP"}
             c == [b EXCEPT !.state = "STOPPING", !.waiting = w2,
                            !.replies = Answered(b, "STOP"),
                            !.motor = b.motor /\ bus # "ok"]
  <2>1. b.state = "STOPPING" /\ b.waiting = w /\ b.replies = Answered(a, "STOP")
        /\ b.motor = (a.motor /\ bus # "ok") /\ b.valid = a.valid /\ b.home = a.home
    BY DEF AxisType
  <2>2. w2 = w
    OBVIOUS
  <2>3. Answered(b, "STOP") = b.replies
    BY <2>1 DEF Answered
  <2>4. Stopped(a) = b
    BY <1>2, Zenon DEF Stopped
  <2>4a. b \in AxisType
    BY <2>4, StoppedType
  <2>5. Stopped(b) = c
    BY <1>2, <2>1, Zenon DEF Stopped
  <2>6. (b.motor /\ bus # "ok") = b.motor
    BY <2>1
  <2>7. c = b
    BY <2>1, <2>2, <2>3, <2>4a, <2>6 DEF AxisType
  <2> HIDE DEF b, c
  <2>8. Covered(b) /\ "STOP" \in b.waiting
    BY <2>1 DEF Covered
  <2>9. b.motor => a.motor
    BY <2>1
  <2>10. "STOP" \in b.replies /\ b.motor => "STOP" \in a.replies
    BY <2>1 DEF Answered
  <2> QED BY <1>2, <2>4, <2>5, <2>7, <2>8, <2>9, <2>10 DEF Refused
<1> QED BY <1>1, <1>2

LEMMA StoppedKeeps ==
  ASSUME IInv, Coverage, late \subseteq late', NEW x \in AxisNames
  PROVE  Keeps(x, xy[x], Stopped(xy[x]))
<1>1. xy[x] \in AxisType
  BY DEF IInv, TypeOK
<1> QED BY <1>1, StoppedAxis DEF Coverage, StopAnswered, Keeps

\* So does a motion state in which nothing but stops has happened.
LEMMA HaltsKeep ==
  ASSUME IInv, Coverage, NEW t, Halts(Now, t), Become(t), MutexFree, UNCHANGED <<shell, late>>
  PROVE  AxesKeep
<1>1. \A x \in AxisNames : xy'[x] \in {xy[x], Stopped(xy[x])}
  BY DEF Halts, Become, Now
<1> QED BY <1>1, SelfKeeps, StoppedKeeps DEF AxesKeep, MutexFree

-----------------------------------------------------------------------------
(* The coordinator only stops.                                             *)

LEMMA HaltsTrans ==
  ASSUME NEW r \in Motion, NEW s, NEW t, Halts(r, s), Halts(s, t)
  PROVE  Halts(r, t)
<1>1. ASSUME NEW x \in AxisNames PROVE t.xy[x] \in {r.xy[x], Stopped(r.xy[x])}
  <2>1. r.xy[x] \in AxisType
    BY DEF Motion
  <2> QED BY <2>1, StoppedAxis DEF Halts
<1> QED BY <1>1 DEF Halts

LEMMA HaltingTrans ==
  ASSUME NEW r \in Motion, NEW s, NEW t, Halting(r, s), Halting(s, t)
  PROVE  Halting(r, t)
BY HaltsTrans DEF Halting

LEMMA HaltingSelf == ASSUME NEW s \in Motion PROVE Halting(s, s)
BY DEF Halting, Halts

LEMMA StopAllHalt == ASSUME NEW s \in Motion PROVE Halting(s, StopAll(s))
<1> DEFINE f == [s.xy EXCEPT !["X"] = Stopped(s.xy["X"])]
<1>1. s.xy \in [AxisNames -> AxisType] /\ "X" \in AxisNames
  BY DEF Motion, AxisNames
<1>2. \A x \in AxisNames : f[x] \in {s.xy[x], Stopped(s.xy[x])}
  BY <1>1
<1> HIDE DEF f
<1>3. StopAll(s) \in {s, [s EXCEPT !.xy = f, !.stage = 1]}
  BY DEF StopAll, f
<1>4. StopAll(s).xy \in {s.xy, f}
  BY <1>3 DEF Motion
<1> QED BY <1>2, <1>4, StopAllMotion DEF Halting, Halts, SameTasks

LEMMA StopMovingHalt ==
  ASSUME NEW s \in Motion, NEW axes, NEW states
  PROVE  Halting(s, StopMoving(s, axes, states))
<1> DEFINE f == [x \in AxisNames |->
     IF x \in axes /\ s.xy[x].state \in states THEN Stopped(s.xy[x]) ELSE s.xy[x]]
<1>2. \A x \in AxisNames : f[x] \in {s.xy[x], Stopped(s.xy[x])}
  OBVIOUS
<1> HIDE DEF f
<1>3. StopMoving(s, axes, states).xy = f
  BY DEF StopMoving, f, Motion
<1> QED BY <1>2, <1>3, StopMovingMotion DEF Halting, Halts, SameTasks

LEMMA StopZHalt ==
  ASSUME NEW s \in Motion, NEW phases, NEW halted
  PROVE  Halting(s, StopZ(s, phases, halted))
<1>1. StopZ(s, phases, halted).xy = s.xy
  BY DEF StopZ, Motion
<1> QED BY <1>1, StopZMotion DEF Halting, Halts, SameTasks

LEMMA TaskStopHalt ==
  ASSUME NEW s \in Motion, NEW o \in Tasks, NEW halted
  PROVE  Halting(s, TaskStop(s, o, halted))
<1> DEFINE p3 == StopMoving(s, {"X"}, {"STARTING", "MOVING", "STOPPING"})
           p4 == StopMoving(s, {"X"}, {"STARTING", "MOVING"})
           align == StopMoving(s, {"X", "Y"}, {"STARTING", "MOVING"})
<1>1. Halting(s, p3) /\ Halting(s, p4) /\ Halting(s, align)
  BY StopMovingHalt
<1> HIDE DEF p3, p4, align
<1>2. /\ Halting(p3, StopZ(p3, {"MOVING", "STOPPING"}, halted))
      /\ Halting(p4, StopZ(p4, {"MOVING"}, halted))
  BY <1>1, StopZHalt DEF Halting, Halts
<1>3. Halting(s, StopAll(s)) /\ Halting(s, s)
  BY StopAllHalt, HaltingSelf
<1>4. TaskStop(s, o, halted) \in
        {StopAll(s), s, StopZ(p3, {"MOVING", "STOPPING"}, halted), align,
         StopZ(p4, {"MOVING"}, halted)}
  BY Zenon DEF TaskStop, p3, p4, align
<1> QED BY <1>1, <1>2, <1>3, <1>4, HaltingTrans

LEMMA ReleasedHalt == ASSUME NEW s \in Motion, NEW o PROVE Halting(s, Released(s, o))
<1>1. Released(s, o).xy = s.xy /\ Released(s, o).m.stop = s.m.stop
  BY DEF Released, Motion, CoordType
<1> QED BY <1>1, ReleasedMotion DEF Halting, Halts, SameLatch

LEMMA TaskAbortHalt ==
  ASSUME NEW s \in Motion, NEW o \in AutomaticOwners, NEW halted
  PROVE  Halting(s, TaskAbort(s, o, halted))
<1>1. CASE o \notin Tasks \/ s.task[o] = "off"
  BY <1>1, HaltingSelf DEF TaskAbort
<1>2. CASE o \in Tasks /\ s.task[o] # "off"
  <2> DEFINE r == TaskStop(s, o, halted)
             t == [r EXCEPT !.task[o] = "off"]
  <2>1. r \in Motion /\ Halting(s, r)
    BY <1>2, TaskStopMotion, TaskStopHalt
  <2> HIDE DEF r
  <2>2. t \in Motion /\ t.m = r.m /\ t.xy = r.xy
    BY <1>2, <2>1 DEF Motion, TaskStates
  <2> HIDE DEF t
  <2>4. Halting(s, t)
    BY <2>1, <2>2 DEF Halting, Halts
  <2>5. Halting(t, Released(t, o))
    BY <2>2, ReleasedHalt
  <2>6. TaskAbort(s, o, halted) = IF o \in Calibrations THEN t ELSE Released(t, o)
    BY <1>2 DEF TaskAbort, t, r
  <2> QED BY <2>4, <2>5, <2>6, HaltingTrans
<1> QED BY <1>1, <1>2

LEMMA AbortAllHalt ==
  ASSUME NEW s \in Motion, NEW halted
  PROVE  Halting(s, AbortAllTasks(s, halted))
<1> DEFINE a == TaskAbort(s, "P2_CALIBRATION", halted)
           b == TaskAbort(a, "P3_CALIBRATION", halted)
           c == TaskAbort(b, "XY_ALIGN", halted)
           d == TaskAbort(c, "P4_XZ_ALIGN", halted)
<1>1. Halting(s, a) /\ a \in Motion
  BY TaskAbortHalt DEF AutomaticOwners, Halting, Halts
<1> HIDE DEF a
<1>2. Halting(a, b) /\ b \in Motion
  BY <1>1, TaskAbortHalt DEF AutomaticOwners, Halting, Halts
<1> HIDE DEF b
<1>3. Halting(b, c) /\ c \in Motion
  BY <1>2, TaskAbortHalt DEF AutomaticOwners, Halting, Halts
<1> HIDE DEF c
<1>4. Halting(c, d)
  BY <1>3, TaskAbortHalt DEF AutomaticOwners
<1> HIDE DEF d
<1>5. AbortAllTasks(s, halted) = d
  BY DEF AbortAllTasks, a, b, c, d
<1> QED BY <1>1, <1>2, <1>3, <1>4, <1>5, HaltingTrans

\* poll_stop: the stop is over when no axis is busy, and a unified stop is sent at most
\* while none is under way.
LEMMA StopHalt ==
  ASSUME NEW s \in Motion, NEW halted
  PROVE  /\ Halting(s, [s EXCEPT !.m.sent = FALSE])
         /\ Halts(s, BeginStop(s)) /\ BeginStop(s).m.stop /\ BeginStop(s).xy = s.xy
         /\ BeginStop(s).stage = s.stage
         /\ Halts(s, PollStop(s, halted))
         /\ ~PollStop(s, halted).m.stop => \A x \in AxisNames : ~Busy(PollStop(s, halted).xy[x])
         /\ \/ PollStop(s, halted).xy = s.xy /\ PollStop(s, halted).stage = s.stage
            \/ s.stage = 0 /\ PollStop(s, halted).stage # 0
<1>1. /\ Halts(s, BeginStop(s)) /\ BeginStop(s).m.stop /\ BeginStop(s).xy = s.xy
      /\ BeginStop(s).stage = s.stage
  BY StopMotion DEF BeginStop, Motion, CoordType, Halts
<1>1a. Halting(s, [s EXCEPT !.m.sent = FALSE])
  BY DEF Motion, CoordType, Halts, Halting
<1> DEFINE r == StopAll(s)
           t == IF s.m.sent THEN s ELSE [r EXCEPT !.m.sent = TRUE]
           u == StopZ(t, {"MOVING"}, halted)
           v == [u EXCEPT !.m.stop = ~AxesStopped(u)]
<1>2. r \in Motion /\ Halts(s, r)
  BY StopAllMotion, StopAllHalt DEF Halting
<1>2a. r = s \/ (s.stage = 0 /\ r.stage = 1)
  <2> DEFINE f == [s.xy EXCEPT !["X"] = Stopped(s.xy["X"])]
  <2>1. s.stage = 0 => r = [s EXCEPT !.xy = f, !.stage = 1]
    BY DEF StopAll
  <2> HIDE DEF f
  <2>2. [s EXCEPT !.xy = f, !.stage = 1].stage = 1
    BY DEF Motion
  <2>3. s.stage # 0 => r = s
    BY DEF StopAll
  <2> HIDE DEF r
  <2> QED BY <2>1, <2>2, <2>3
<1> HIDE DEF r
<1>3. Halts(s, t) /\ t \in Motion /\ (t = s \/ (t.xy = r.xy /\ t.stage = r.stage))
  <2> DEFINE q == [r EXCEPT !.m.sent = TRUE]
  <2>1. q \in Motion /\ q.xy = r.xy /\ q.stage = r.stage
    BY <1>2 DEF Motion, CoordType
  <2>2. t \in {s, q}
    OBVIOUS
  <2> HIDE DEF q, t
  <2> QED BY <1>2, <2>1, <2>2 DEF Halts
<1> HIDE DEF t
<1>4. u \in Motion /\ Halts(t, u) /\ u.xy = t.xy /\ u.stage = t.stage
  BY <1>3, StopZMotion, StopZHalt DEF Halting, StopZ, Motion
<1> HIDE DEF u
<1>5. (~AxesStopped(u)) \in BOOLEAN
  BY DEF AxesStopped
<1>6. v \in Motion /\ v.xy = u.xy /\ v.stage = u.stage /\ v.m.stop = ~AxesStopped(u)
  BY <1>4, <1>5 DEF Motion, CoordType
<1>7. PollStop(s, halted) = v
  BY DEF PollStop, r, t, u
<1> HIDE DEF v
<1>8. Halts(u, v)
  BY <1>6 DEF Halts
<1>9. Halts(s, v)
  BY <1>3, <1>4, <1>8, HaltsTrans
<1>10. ~v.m.stop => \A x \in AxisNames : ~Busy(v.xy[x])
  BY <1>6 DEF AxesStopped
<1>11. (v.xy = s.xy /\ v.stage = s.stage) \/ (s.stage = 0 /\ v.stage # 0)
  BY <1>2a, <1>3, <1>4, <1>6
<1> QED BY <1>1, <1>1a, <1>7, <1>9, <1>10, <1>11

\* The two branches of the coordinator's poll; that which takes an abort goes on stopping.
LEMMA BranchesHalt ==
  ASSUME NEW s \in Motion, NEW halted
  PROVE  /\ Halts(s, AbortBranch(s, halted)) /\ AbortBranch(s, halted).m.stop
         /\ Halting(s, FaultBranch(s, halted))
<1>1. ASSUME NEW q \in Motion, q.xy = s.xy
      PROVE  LET t == [AbortAllTasks(q, halted) EXCEPT !.m.owner = "NONE"]
             IN Halts(s, t) /\ t \in Motion /\ t.m.stop = q.m.stop /\ t.m.latch = q.m.latch
                /\ t.m.abort = q.m.abort
  <2> DEFINE r == AbortAllTasks(q, halted)
             t == [r EXCEPT !.m.owner = "NONE"]
  <2>1. Halting(q, r) /\ r \in Motion
    BY AbortAllHalt DEF Halting, Halts
  <2> HIDE DEF r
  <2>2. t \in Motion /\ t.xy = r.xy /\ t.m.stop = r.m.stop /\ t.m.latch = r.m.latch
        /\ t.m.abort = r.m.abort
    BY <2>1 DEF Motion, CoordType, Owners
  <2> HIDE DEF t
  <2>3. Halts(s, t) /\ t \in Motion /\ t.m.stop = q.m.stop /\ t.m.latch = q.m.latch
        /\ t.m.abort = q.m.abort
    BY <1>1, <2>1, <2>2 DEF Halting, Halts
  <2> QED BY <2>3 DEF r, t
<1>2. Halting(s, FaultBranch(s, halted))
  <2> DEFINE q == [s EXCEPT !.m.cancel = "NONE"]
  <2>1. q \in Motion /\ q.xy = s.xy /\ q.m.stop = s.m.stop /\ q.m.latch = s.m.latch
        /\ q.m.abort = s.m.abort
    BY DEF Motion, CoordType
  <2>2. FaultBranch(s, halted) = [AbortAllTasks(q, halted) EXCEPT !.m.owner = "NONE"]
    BY DEF FaultBranch
  <2> HIDE DEF q
  <2> QED BY <1>1, <2>1, <2>2 DEF Halting
<1>3. Halts(s, AbortBranch(s, halted)) /\ AbortBranch(s, halted).m.stop
  <2> DEFINE q == [s EXCEPT !.m.abort = FALSE, !.m.cancel = "NONE", !.m.latch = TRUE]
             t == [AbortAllTasks(q, halted) EXCEPT !.m.owner = "NONE"]
  <2>1. q \in Motion /\ q.xy = s.xy
    BY DEF Motion, CoordType
  <2>2. AbortBranch(s, halted) = IF t.m.stop THEN t ELSE BeginStop(t)
    BY DEF AbortBranch
  <2> HIDE DEF q
  <2>3. Halts(s, t) /\ t \in Motion
    BY <1>1, <2>1
  <2> HIDE DEF t
  <2>4. Halts(s, BeginStop(t)) /\ BeginStop(t).m.stop
    BY <2>3, StopHalt DEF Halts
  <2> QED BY <2>2, <2>3, <2>4
<1> QED BY <1>2, <1>3

LEMMA CancelHalt ==
  ASSUME ConstantsAssumption, NEW s \in Motion, NEW halted
  PROVE  Halting(s, CancelPhase(s, halted))
<1> DEFINE o == s.m.cancel
           t == [s EXCEPT !.m.cancel = "NONE"]
           r == TaskAbort(t, o, halted)
<1>1. t \in Motion /\ Halting(s, t)
  BY DEF Motion, CoordType, Halting, Halts
<1> HIDE DEF t
<1>2. CASE o \in Tasks
  <2>1. Halting(t, r) /\ r \in Motion
    BY <1>1, <1>2, TaskAbortHalt DEF ConstantsAssumption, Halting, Halts
  <2> HIDE DEF r
  <2>2. Halting(r, Released(r, o))
    BY <2>1, ReleasedHalt
  <2>3. CancelPhase(s, halted) \in {t, Released(r, o)}
    BY DEF CancelPhase, t, r
  <2> QED BY <1>1, <2>1, <2>2, <2>3, HaltingTrans
<1>3. CASE o \notin Tasks
  BY <1>1, <1>3 DEF CancelPhase, t
<1> QED BY <1>2, <1>3

LEMMA AutoReleaseHalt ==
  ASSUME NEW s \in Motion
  PROVE  Halting(s, AutoRelease(s)) /\ AutoRelease(s).xy = s.xy
<1>1. \A o : Halting(s, Released(s, o)) /\ Released(s, o).xy = s.xy
  BY ReleasedHalt DEF Released, Motion
<1>2. AutoRelease(s) \in {s, Released(s, s.m.owner), Released(s, "MANUAL")}
  BY DEF AutoRelease
<1> QED BY <1>1, <1>2, HaltingSelf

-----------------------------------------------------------------------------
(* The steps of the specification.                                         *)

\* MotionCoordinator_Poll, which runs with the mutex.
LEMMA CoordPollCovers ==
  ASSUME ConstantsAssumption, IInv, Coverage, NEW halted \in BOOLEAN, CoordPoll(halted)
  PROVE  Coverage'
<1> DEFINE a == IF m.abort THEN AbortBranch(Now, halted)
                ELSE IF m.owner \in Tasks /\ OwnerAxisFaulted(Now, m.owner)
                THEN FaultBranch(Now, halted)
                ELSE Now
           c == CancelPhase(a, halted)
           p == IF c.m.stop THEN PollStop(c, halted) ELSE c
           r == AutoRelease(p)
<1>0. Now \in Motion /\ Now.m = m
  BY NowLocked DEF Now
<1>1. a \in Motion /\ Halts(Now, a)
      /\ (a.m.latch /\ ~a.m.stop /\ ~a.m.abort => m.latch /\ ~m.stop /\ ~m.abort)
  <2>1. CASE m.abort
    BY <1>0, <2>1, BranchesHalt DEF Halts
  <2>2. CASE ~m.abort
    BY <1>0, <2>2, BranchesHalt, HaltingSelf DEF Halting, Halts
  <2> QED BY <2>1, <2>2
<1>2. Become(r) /\ MutexFree /\ UNCHANGED <<startup, shell, bus, late, manual, commands, trouble>>
  BY DEF CoordPoll
<1> HIDE DEF a
<1>3. c \in Motion /\ Halting(a, c)
  BY <1>1, CancelHalt DEF Halting, Halts
<1> HIDE DEF c
<1>4. p \in Motion /\ Halts(c, p)
      /\ (~p.m.stop => p = c \/ \A x \in AxisNames : ~Busy(p.xy[x]))
  BY <1>3, StopHalt, HaltingSelf DEF Halting, Halts
<1> HIDE DEF p
<1>5. r \in Motion /\ Halting(p, r) /\ r.xy = p.xy
  BY <1>4, AutoReleaseHalt DEF Halting, Halts
<1> HIDE DEF r
<1>6. Halts(Now, r)
  BY <1>0, <1>1, <1>3, <1>4, <1>5, HaltsTrans DEF Halting
<1>7. AxesKeep
  BY <1>2, <1>6, HaltsKeep
<1>8. StopKeeps
  <2>1. m' = r.m /\ xy' = r.xy
    BY <1>2 DEF Become
  <2> QED BY <1>1, <1>3, <1>4, <1>5, <2>1 DEF Halting, StopKeeps
<1> QED BY <1>7, <1>8, KeptCoverage

\* MotionCoordinator_PollEmergency may come between the steps of a shell command.
LEMMA EmergencyCovers ==
  ASSUME IInv, Coverage, NEW halted \in BOOLEAN, Emergency(halted)
  PROVE  Coverage'
<1> DEFINE q == [Now EXCEPT !.m.latch = TRUE]
           b == IF m.latch THEN Now ELSE BeginStop(q)
           r == PollStop(b, halted)
<1>0. Now \in Motion /\ Now.m = m /\ Now.xy = xy /\ Now.stage = stage /\ m.abort
  BY NowLocked DEF Emergency, Now
<1>1. q \in Motion /\ q.m.latch /\ q.m.abort /\ q.xy = xy /\ q.stage = stage
  BY <1>0 DEF Motion, CoordType
<1>2. Become(r) /\ UNCHANGED <<startup, shell, bus, late, manual, commands, trouble>>
  BY DEF Emergency
<1> HIDE DEF q
<1>3. b \in Motion /\ b.m.latch /\ b.m.abort /\ b.xy = xy /\ b.stage = stage
  BY <1>0, <1>1, StopHalt, StopMotion DEF SameLatch
<1> HIDE DEF b
<1>4. r \in Motion /\ r.m.latch /\ r.m.abort /\ Halts(b, r)
      /\ ((r.xy = b.xy /\ r.stage = b.stage) \/ (b.stage = 0 /\ r.stage # 0))
  BY <1>3, StopHalt, StopMotion DEF SameLatch
<1> HIDE DEF r
<1>5. m'.latch /\ m'.abort /\ UNCHANGED <<shell, late, bus>>
      /\ (UNCHANGED <<xy, stage>> \/ (stage = 0 /\ stage' # 0))
      /\ \A x \in AxisNames : xy'[x] \in {xy[x], Stopped(xy[x])}
  BY <1>2, <1>3, <1>4 DEF Become, Halts
<1>6. ASSUME NEW x \in AxisNames PROVE (StopAnswered(x) /\ Accounted(x))'
  <2>1. StopAnswered(x) /\ Accounted(x) /\ xy[x] \in AxisType
    BY DEF Coverage, IInv, TypeOK
  <2>2. CASE xy'[x] = xy[x]
    BY <1>5, <2>1, <2>2 DEF StopAnswered, Accounted, Handling, Covered, Busy
  <2>3. CASE xy'[x] = Stopped(xy[x]) /\ stage = 0 /\ stage' # 0
    <3>1. ~(Handling(x) /\ "STOP" \in xy[x].replies)
      BY <2>1, <2>3 DEF StopAnswered
    <3>2. Covered(xy'[x]) /\ (xy'[x].motor => xy[x].motor)
          /\ ("STOP" \in xy'[x].replies /\ xy'[x].motor => "STOP" \in xy[x].replies)
          /\ (Handling(x) /\ "STOP" \in xy'[x].replies => "STOP" \in xy'[x].waiting)
      BY <2>1, <2>3, <3>1, StoppedAxis
    <3>3. Handling(x)' = Handling(x)
      BY <1>5 DEF Handling
    <3>4. StopAnswered(x)'
      BY <1>5, <2>1, <2>3, <3>2, <3>3 DEF StopAnswered, Covered
    <3>5. Accounted(x)'
      BY <1>5, <3>2 DEF Accounted, Covered
    <3> QED BY <3>4, <3>5
  <2> QED BY <1>5, <2>2, <2>3
<1> QED BY <1>5, <1>6 DEF Coverage, ShellOver, StopCovers

\* A step of one axis, under the mutex.
LEMMA XYStepCovers ==
  ASSUME IInv, Coverage, NEW x \in AxisNames, NEW b, XYStep(x, b), MutexFree,
         late \subseteq late', Keeps(x, xy[x], b)
  PROVE  Coverage'
<1>1. xy \in [AxisNames -> AxisType] /\ xy' = [xy EXCEPT ![x] = b] /\ UNCHANGED <<m, shell>>
  BY DEF IInv, TypeOK, XYStep
<1>2. \A y \in AxisNames : xy'[y] = IF y = x THEN b ELSE xy[y]
  BY <1>1
<1>3. AxesKeep
  BY <1>1, <1>2, SelfKeeps DEF AxesKeep, MutexFree
<1>4. StopKeeps
  BY <1>1 DEF StopKeeps
<1> QED BY <1>3, <1>4, KeptCoverage

\* The answers and the deadlines. Only StopAck can uncover an axis, and its motor is at rest.
LEMMA AxisCovers ==
  ASSUME IInv, Coverage, NEW x \in AxisNames, Axis(x), MutexFree
  PROVE  Coverage'
<1> DEFINE a == xy[x]
<1>0. a \in AxisType /\ late \subseteq late'
      /\ StopAnswered(x) /\ Accounted(x)
  BY DEF IInv, TypeOK, Coverage, Axis, MoveAck, StopAck, HomeAck, HomeRun, HomeDone, Arrived,
         AxisTimeout, HomeRetry, DriverAlarm, MotorDone, Moved
<1>a. /\ "STOP" \in a.replies => (a.motor => x \in late) /\ Covered(a)
      /\ a.motor /\ x \notin late => Busy(a) \/ Covered(a)
  BY <1>0 DEF StopAnswered, Accounted, Handling, MutexFree
<1> HIDE DEF a
<1> USE DEF AxisType, XYStates, Acks, Covered, Busy, Keeps
<1>1. CASE MoveAck(x)
  <2> DEFINE b == [a EXCEPT !.replies = @ \ {"MOVE"}, !.waiting = @ \ {"MOVE"},
                            !.state = IF @ = "STARTING" THEN "MOVING" ELSE @]
  <2>1. Keeps(x, a, b)
    BY <1>0, <1>a
  <2>2. XYStep(x, b)
    BY <1>1 DEF MoveAck, a
  <2> QED BY <1>0, <2>1, <2>2, XYStepCovers DEF a
<1>2. CASE StopAck(x)
  <2> DEFINE b == [a EXCEPT !.replies = @ \ {"STOP"}]
             c == [b EXCEPT !.waiting = @ \ {"STOP"}, !.state = RestState(b)]
  <2>1. "STOP" \in a.replies
    BY <1>2 DEF StopAck, a
  <2>2. a.motor => x \in late
    BY <1>a, <2>1
  <2>3. b \in AxisType /\ b.replies = a.replies \ {"STOP"} /\ b.motor = a.motor
    BY <1>0
  <2>4. c.replies = b.replies /\ c.motor = b.motor
    BY <2>3
  <2>5. XYStep(x, b) \/ XYStep(x, c)
    BY <1>2 DEF StopAck, a
  <2> HIDE DEF b, c
  <2>6. Keeps(x, a, b) /\ Keeps(x, a, c)
    BY <1>0, <2>2, <2>3, <2>4
  <2> QED BY <1>0, <2>5, <2>6, XYStepCovers DEF a
<1>3. CASE HomeAck(x)
  <2> DEFINE b == [a EXCEPT !.replies = @ \ {"HOME"}, !.waiting = @ \ {"HOME"}]
  <2>1. Keeps(x, a, b)
    BY <1>0, <1>a
  <2>2. XYStep(x, b)
    BY <1>3 DEF HomeAck, a
  <2> QED BY <1>0, <2>1, <2>2, XYStepCovers DEF a
<1>4. CASE HomeRun(x)
  <2> DEFINE h == HomeFrame(a)
             b == [h EXCEPT !.home = "running", !.waiting = {"HOME"},
                            !.motor = h.motor \/ bus = "ok"]
  <2>1. a.state = "HOMING" /\ a.waiting = {}
    BY <1>4 DEF HomeRun, AckPending, a
  <2>2. "STOP" \notin a.replies /\ (a.motor => Busy(a))
    BY <1>a, <2>1
  <2>3. /\ h.replies \in {a.replies, a.replies \cup {"HOME"}}
        /\ h.motor = a.motor /\ h.state = a.state /\ h \in AxisType
    BY <1>0, HomeType DEF HomeFrame, Answered
  <2> HIDE DEF h
  <2>4. /\ "STOP" \notin b.replies /\ b.state = "HOMING"
        /\ b.motor = (a.motor \/ bus = "ok")
    BY <2>1, <2>2, <2>3
  <2>5. m.latch /\ bus = "ok" => x \in late'
    BY <1>4 DEF HomeRun, Moved
  <2>6. Keeps(x, a, b)
    BY <1>0, <2>1, <2>4, <2>5
  <2>7. Keeps(x, a, Faulted(a))
    BY <1>0, <2>1, <2>2 DEF Faulted
  <2>8. XYStep(x, b) \/ XYStep(x, Faulted(a))
    BY <1>4 DEF HomeRun, a, h
  <2> HIDE DEF b
  <2> QED BY <1>0, <2>6, <2>7, <2>8, XYStepCovers DEF a
<1>5. CASE HomeDone(x)
  <2> DEFINE b == [a EXCEPT !.state = "IDLE", !.valid = TRUE, !.home = "none"]
  <2>1. a.state = "HOMING" /\ a.waiting = {} /\ ~a.motor
    BY <1>5 DEF HomeDone, a
  <2>2. Keeps(x, a, b)
    BY <1>0, <1>a, <2>1
  <2>3. XYStep(x, b)
    BY <1>5 DEF HomeDone, a
  <2> QED BY <1>0, <2>2, <2>3, XYStepCovers DEF a
<1>6. CASE Arrived(x)
  <2> DEFINE b == [a EXCEPT !.state = "IDLE"]
             c == [a EXCEPT !.state = RestState(a)]
  <2>1. ~a.motor /\ a.state \in {"MOVING", "STOPPING"}
    BY <1>6 DEF Arrived, a
  <2>2. Keeps(x, a, b) /\ Keeps(x, a, c)
    BY <1>0, <1>a, <2>1
  <2>3. XYStep(x, b) \/ XYStep(x, c)
    BY <1>6 DEF Arrived, a
  <2> QED BY <1>0, <2>2, <2>3, XYStepCovers DEF a
<1>7. CASE AxisTimeout(x) \/ DriverAlarm(x)
  <2>1. Keeps(x, a, Faulted(a))
    BY <1>0, <1>a DEF Faulted
  <2>2. XYStep(x, Faulted(a))
    BY <1>7 DEF AxisTimeout, DriverAlarm, a
  <2> QED BY <1>0, <2>1, <2>2, XYStepCovers DEF a
<1>8. CASE HomeRetry(x)
  <2> DEFINE b == [a EXCEPT !.waiting = @ \ {"HOME"}]
  <2>1. Keeps(x, a, b)
    BY <1>0, <1>a
  <2>2. XYStep(x, b)
    BY <1>8 DEF HomeRetry, a
  <2> QED BY <1>0, <2>1, <2>2, XYStepCovers DEF a
<1>9. CASE MotorDone(x)
  <2>1. Keeps(x, a, [a EXCEPT !.motor = FALSE])
    BY <1>0, <1>a
  <2>2. XYStep(x, [a EXCEPT !.motor = FALSE])
    BY <1>9 DEF MotorDone, a
  <2> QED BY <1>0, <2>1, <2>2, XYStepCovers DEF a
<1> QED
  BY <1>1, <1>2, <1>3, <1>4, <1>5, <1>6, <1>7, <1>8, <1>9 DEF Axis

\* The motor may also come to its end while the shell is busy.
LEMMA MotorDoneCovers ==
  ASSUME IInv, Coverage, NEW x \in AxisNames, MotorDone(x)
  PROVE  Coverage'
<1> DEFINE b == [xy[x] EXCEPT !.motor = FALSE]
<1>1. xy \in [AxisNames -> AxisType] /\ xy' = [xy EXCEPT ![x] = b]
      /\ UNCHANGED <<m, stage, shell, late>>
  BY DEF IInv, TypeOK, MotorDone, XYStep
<1>2. /\ ~b.motor /\ b.state = xy[x].state /\ b.waiting = xy[x].waiting
      /\ b.replies = xy[x].replies
  BY <1>1 DEF AxisType
<1> HIDE DEF b
<1>3. \A y \in AxisNames : xy'[y] = IF y = x THEN b ELSE xy[y]
  BY <1>1
<1>4. ASSUME NEW y \in AxisNames PROVE (StopAnswered(y) /\ Accounted(y))'
  BY <1>1, <1>2, <1>3 DEF Coverage, StopAnswered, Accounted, Handling, Covered, Busy
<1> QED BY <1>1, <1>2, <1>3, <1>4 DEF Coverage, ShellOver, StopCovers

\* A record of an axis that waits for nothing, as a homing or a move begins.
LEMMA BeginKeeps ==
  ASSUME IInv, Coverage, shell.step = "idle", late \subseteq late', NEW x \in AxisNames,
         MayMove(x) \/ MayHome(x)
  PROVE  /\ Keeps(x, xy[x], HomeRecord(HomeFrame(xy[x])))
         /\ (m.latch => x \in late') => Keeps(x, xy[x], MoveRecord(MoveFrame(xy[x])))
<1> DEFINE a == xy[x]
<1>1. a \in AxisType /\ StopAnswered(x) /\ Accounted(x)
  BY DEF IInv, TypeOK, Coverage
<1>2. a.state \in {"IDLE", "UNREFERENCED"} /\ a.waiting = {}
  BY DEF MayMove, MayHome, AckPending
<1>3. ~Covered(a) /\ ~Busy(a)
  BY <1>2 DEF Covered, Busy
<1>4. "STOP" \notin a.replies /\ (a.motor => x \in late)
  BY <1>1, <1>3 DEF StopAnswered, Accounted, Handling
<1> HIDE DEF a
<1> DEFINE h == HomeFrame(a)
           f == MoveFrame(a)
<1>5. h \in AxisType /\ f \in AxisType
  BY <1>1, HomeType, MoveType
<1>6. "STOP" \notin h.replies /\ h.motor = a.motor /\ "STOP" \notin f.replies
  BY <1>1, <1>4 DEF HomeFrame, MoveFrame, Answered, AxisType
<1> HIDE DEF h, f
<1>7. HomeRecord(h).replies = h.replies /\ HomeRecord(h).motor = h.motor
      /\ HomeRecord(h).state = "HOMING"
  BY <1>5 DEF HomeRecord, AxisType
<1>8. MoveRecord(f).replies = f.replies /\ MoveRecord(f).state = "STARTING"
  BY <1>5 DEF MoveRecord, AxisType
<1>9. Keeps(x, a, HomeRecord(h))
  BY <1>4, <1>6, <1>7 DEF Keeps, Busy
<1>10. (m.latch => x \in late') => Keeps(x, a, MoveRecord(f))
  BY <1>4, <1>6, <1>8 DEF Keeps, Busy
<1> QED BY <1>9, <1>10 DEF a, h, f

\* What goes on by itself.
LEMMA BackgroundCovers ==
  ASSUME ConstantsAssumption, IInv, Coverage,
         StopAllY \/ StopAllDone \/ StartupPoll \/ ZSettle \/ BusDown \/ BusUp
  PROVE  Coverage'
<1>0. /\ xy \in [AxisNames -> AxisType] /\ AxisNames = {"X", "Y"} /\ startup \in StartupStates
      /\ m \in CoordType
  BY DEF IInv, TypeOK, AxisNames
<1>1. CASE StopAllY
  <2>1. \A x \in AxisNames : xy'[x] \in {xy[x], Stopped(xy[x])}
    BY <1>0, <1>1 DEF StopAllY
  <2>2. shell.step = "idle" /\ UNCHANGED <<m, shell, late>>
    BY <1>1 DEF StopAllY, MutexFree
  <2>3. AxesKeep /\ StopKeeps
    BY <2>1, <2>2, SelfKeeps, StoppedKeeps DEF AxesKeep, StopKeeps
  <2> QED BY <2>3, KeptCoverage
<1>2. CASE BusDown \/ BusUp
  BY <1>2 DEF BusDown, BusUp, Coverage, StopAnswered, Accounted, Handling, Covered, Busy,
              ShellOver, StopCovers
<1>3. CASE StopAllDone
  <2>1. shell.step = "idle" /\ UNCHANGED <<m, xy, shell, late>>
    BY <1>3 DEF StopAllDone, MutexFree
  <2>2. AxesKeep /\ StopKeeps
    BY <2>1, SelfKeeps DEF AxesKeep, StopKeeps
  <2> QED BY <2>2, KeptCoverage
<1>4. CASE StartupPoll
  <2>0. shell.step = "idle" /\ UNCHANGED <<m, shell, late>>
    BY <1>4 DEF StartupPoll, MutexFree
  <2>s. xy' = xy => \A y \in AxisNames : Keeps(y, xy[y], xy'[y])
    BY <2>0, SelfKeeps
  <2>h. ASSUME NEW x \in AxisNames, NEW next, StartupHome(x, next)
        PROVE  \A y \in AxisNames : Keeps(y, xy[y], xy'[y])
    <3>1. CASE xy' = xy
      BY <2>s, <3>1
    <3>2. CASE MayHome(x) /\ xy' = [xy EXCEPT ![x] = HomeRecord(HomeFrame(xy[x]))]
      <4>1. \A y \in AxisNames : xy'[y] = IF y = x THEN HomeRecord(HomeFrame(xy[x])) ELSE xy[y]
        BY <1>0, <3>2
      <4> QED BY <2>0, <3>2, <4>1, BeginKeeps, SelfKeeps
    <3> QED BY <2>h, <3>1, <3>2 DEF StartupHome
  <2>r. ASSUME NEW x \in AxisNames, NEW next, StartupHoming(x, next)
        PROVE  \A y \in AxisNames : Keeps(y, xy[y], xy'[y])
    BY <2>r, <2>s DEF StartupHoming
  <2>1. \A y \in AxisNames : Keeps(y, xy[y], xy'[y])
    <3>1. CASE startup = "WAITING_TO_HOME_X"
      BY <1>0, <1>4, <2>h, <3>1 DEF StartupPoll
    <3>2. CASE startup = "WAITING_TO_HOME_Y"
      BY <1>0, <1>4, <2>h, <3>2 DEF StartupPoll
    <3>3. CASE startup = "HOMING_X"
      BY <1>0, <1>4, <2>r, <3>3 DEF StartupPoll
    <3>4. CASE startup = "HOMING_Y"
      BY <1>0, <1>4, <2>r, <3>4 DEF StartupPoll
    <3>5. CASE startup \in {"WAITING_REPLIES", "COMPLETE", "SKIPPED", "FAILED"}
      BY <1>4, <2>s, <3>5 DEF StartupPoll
    <3> QED BY <1>0, <3>1, <3>2, <3>3, <3>4, <3>5 DEF StartupStates
  <2>2. AxesKeep /\ StopKeeps
    BY <2>0, <2>1 DEF AxesKeep, StopKeeps
  <2> QED BY <2>2, KeptCoverage
<1>5. CASE ZSettle
  <2>1. m' \in {m, [m EXCEPT !.zFaulted = TRUE]}
    BY <1>5 DEF ZSettle
  <2>2. shell.step = "idle" /\ UNCHANGED <<xy, shell, late>>
        /\ m'.latch = m.latch /\ m'.stop = m.stop /\ m'.abort = m.abort
    BY <1>0, <1>5, <2>1 DEF ZSettle, MutexFree, CoordType
  <2>3. AxesKeep /\ StopKeeps
    BY <2>2, SelfKeeps DEF AxesKeep, StopKeeps
  <2> QED BY <2>3, KeptCoverage
<1> QED BY <1>1, <1>2, <1>3, <1>4, <1>5

\* A command that acquires, or is for another axis, and leaves X and Y alone.
LEMMA QuietCommand ==
  ASSUME IInv, Coverage, MutexFree, UNCHANGED <<xy, shell, late>>,
         m'.latch = m.latch, m'.stop = m.stop, m'.abort = m.abort \/ m'.abort
  PROVE  Coverage'
<1>1. AxesKeep /\ StopKeeps
  BY SelfKeeps DEF AxesKeep, StopKeeps, MutexFree
<1> QED BY <1>1, KeptCoverage

LEMMA AcquiredStop ==
  ASSUME IInv, NEW hold \in BOOLEAN
  PROVE  /\ ManualAcquired(hold).latch = m.latch /\ ManualAcquired(hold).stop = m.stop
         /\ ManualAcquired(hold).abort = m.abort
BY DEF ManualAcquired, Acquired, IInv, TypeOK, CoordType

\* The shell: a command under way when an abort comes either sends nothing that runs, or
\* what it sends counts as set in motion after the latch.
LEMMA ShellCovers ==
  ASSUME IInv, Coverage,
         \/ \E op \in {"move", "home"}, x \in AxisNames \cup {"Z"} : ShellCheck(op, x)
         \/ ShellSend \/ ShellRecord \/ ShellMoveZ
         \/ \E hold \in BOOLEAN : ShellOther(hold)
         \/ ShellStopXY \/ ShellStopZ \/ ShellClearZ
  PROVE  Coverage'
<1>0. /\ xy \in [AxisNames -> AxisType] /\ shell \in ShellType /\ m \in CoordType
      /\ \A x \in AxisNames : StopAnswered(x) /\ Accounted(x)
  BY DEF IInv, TypeOK, Coverage
<1>1. ASSUME NEW op \in {"move", "home"}, NEW x \in AxisNames \cup {"Z"}, ShellCheck(op, x)
      PROVE  Coverage'
  <2>1. UNCHANGED <<xy, late, stage>> /\ m' = ManualAcquired(FALSE) /\ ~m.latch
        /\ shell.step = "idle"
    BY <1>1 DEF ShellCheck, MayAcquire, MutexFree
  <2>2. m'.latch = m.latch /\ m'.stop = m.stop /\ m'.abort = m.abort
    BY <2>1, AcquiredStop
  <2>3. shell' = shell \/ (Ready(op, x) /\ shell' = [step |-> "checked", op |-> op, axis |-> x])
    BY <1>1 DEF ShellCheck
  <2>4. ASSUME NEW y \in AxisNames PROVE (StopAnswered(y) /\ Accounted(y))'
    <3>1. StopAnswered(y)'
      <4>1. CASE shell' = shell \/ x # y
        <5>1. ~Handling(y) /\ ~Handling(y)'
          BY <2>1, <2>3, <4>1 DEF Handling
        <5> QED BY <1>0, <2>1, <5>1 DEF StopAnswered, Covered
      <4>2. CASE shell' # shell /\ x = y
        <5>1. MayMove(y) \/ MayHome(y)
          BY <2>3, <4>2 DEF Ready, AxisNames
        <5>2. ~Covered(xy[y])
          BY <5>1 DEF MayMove, MayHome, AckPending, Covered
        <5> QED BY <1>0, <2>1, <5>2 DEF StopAnswered, Handling
      <4> QED BY <4>1, <4>2
    <3>2. Accounted(y)'
      BY <1>0, <2>1 DEF Accounted, Busy, Covered
    <3> QED BY <3>1, <3>2
  <2>5. ShellOver' /\ StopCovers'
    BY <2>1, <2>2 DEF ShellOver, StopCovers
  <2> QED BY <2>4, <2>5 DEF Coverage
<1>2. CASE ShellSend
  <2>0. PICK x \in AxisNames : x = shell.axis
    BY <1>0, <1>2 DEF ShellSend, ShellType
  <2> DEFINE b == xy'[x]
  <2>1. /\ shell.step = "checked" /\ UNCHANGED <<m, stage>>
        /\ \A y \in AxisNames : y # x => xy'[y] = xy[y]
        /\ late \subseteq late'
    BY <1>0, <1>2, <2>0 DEF ShellSend, ShellType, Moved
  <2>2. CASE Refused
    <3>1. xy' = xy /\ shell' = ShellIdle /\ late \subseteq late'
      BY <1>0, <1>2, <2>1, <2>2 DEF ShellSend, Moved
    <3>2. \A y \in AxisNames : (StopAnswered(y) /\ Accounted(y))'
      BY <1>0, <2>1, <3>1 DEF StopAnswered, Accounted, Handling, Covered, Busy, ShellIdle
    <3>3. ShellOver' /\ StopCovers'
      BY <2>1, <3>1 DEF Coverage, ShellOver, StopCovers, ShellIdle
    <3> QED BY <3>2, <3>3 DEF Coverage
  <2>3. CASE ~Refused
    <3>1. /\ shell' = [shell EXCEPT !.step = "sent"]
          /\ b = IF shell.op = "move" THEN MoveFrame(xy[x]) ELSE HomeFrame(xy[x])
          /\ m.latch => x \in late'
      BY <1>0, <1>2, <2>0, <2>1, <2>3 DEF ShellSend, Moved
    <3>2. shell'.step = "sent" /\ shell'.axis = x /\ shell'.op = shell.op
      BY <1>0, <2>0, <3>1 DEF ShellType
    <3>3. /\ b.state = xy[x].state /\ b.waiting = xy[x].waiting
          /\ ("STOP" \in b.replies => "STOP" \in xy[x].replies)
          /\ (shell.op # "move" => b.motor = xy[x].motor)
      BY <1>0, <2>1, <3>1 DEF MoveFrame, HomeFrame, Answered, AxisType
    <3> HIDE DEF b
    <3>4. StopAnswered(x)' /\ Accounted(x)'
      BY <1>0, <2>0, <2>1, <3>1, <3>2, <3>3 DEF b, StopAnswered, Accounted, Handling, Covered, Busy,
                                          ShellType
    <3>5. ASSUME NEW y \in AxisNames, y # x PROVE (StopAnswered(y) /\ Accounted(y))'
      <4>1. ~Handling(y) /\ ~Handling(y)' /\ xy'[y] = xy[y]
        BY <2>0, <2>1, <3>2, <3>5 DEF Handling
      <4> QED BY <1>0, <2>1, <3>2, <3>5, <4>1 DEF StopAnswered, Accounted, Covered, Busy
    <3>6. ShellOver' /\ StopCovers'
      <4>1. ~m'.latch \/ m'.abort
        BY <2>1 DEF Coverage, ShellOver
      <4>2. ShellOver'
        BY <4>1 DEF ShellOver
      <4>3. StopCovers'
        BY <4>1 DEF StopCovers
      <4> QED BY <4>2, <4>3
    <3> QED BY <3>4, <3>5, <3>6 DEF Coverage
  <2> QED BY <2>2, <2>3
<1>3. CASE ShellRecord
  <2> DEFINE x == shell.axis
             b == xy'[x]
  <2>1. /\ shell.step = "sent" /\ shell' = ShellIdle /\ UNCHANGED <<m, stage, late>>
        /\ \A y \in AxisNames : y # x => xy'[y] = xy[y]
    BY <1>0, <1>3 DEF ShellRecord
  <2>2. ASSUME x \in AxisNames
        PROVE  /\ Busy(b) /\ b.replies = xy[x].replies /\ b.motor = xy[x].motor
               /\ ("STOP" \in xy[x].waiting => "STOP" \in b.waiting)
    <3>1. b = IF shell.op = "move" THEN MoveRecord(xy[x]) ELSE HomeRecord(xy[x])
      BY <1>0, <1>3, <2>2 DEF ShellRecord
    <3> QED BY <1>0, <2>2, <3>1 DEF MoveRecord, HomeRecord, AxisType, Busy
  <2> HIDE DEF b
  <2>3. ASSUME NEW y \in AxisNames PROVE (StopAnswered(y) /\ Accounted(y))'
    <3>1. CASE y = x
      BY <1>0, <2>1, <2>2, <3>1 DEF b, StopAnswered, Accounted, Handling, Covered, Busy, ShellIdle
    <3>2. CASE y # x
      BY <1>0, <2>1, <3>2 DEF StopAnswered, Accounted, Handling, Covered, Busy, ShellIdle
    <3> QED BY <3>1, <3>2
  <2>4. ShellOver' /\ StopCovers'
    BY <2>1 DEF Coverage, ShellOver, StopCovers, ShellIdle
  <2> QED BY <2>3, <2>4 DEF Coverage
<1>4. CASE ShellMoveZ
  <2>1. shell.axis = "Z" /\ shell.step = "checked" /\ shell' = ShellIdle
        /\ UNCHANGED <<m, xy, stage, late>>
    BY <1>4 DEF ShellMoveZ
  <2>2. \A y \in AxisNames : (StopAnswered(y) /\ Accounted(y))'
    BY <1>0, <2>1 DEF StopAnswered, Accounted, Handling, Covered, Busy, ShellIdle, AxisNames
  <2>3. ShellOver' /\ StopCovers'
    BY <2>1 DEF Coverage, ShellOver, StopCovers, ShellIdle
  <2> QED BY <2>2, <2>3 DEF Coverage
<1>5. ASSUME NEW hold \in BOOLEAN, ShellOther(hold) PROVE Coverage'
  BY <1>5, AcquiredStop, QuietCommand DEF ShellOther
<1>6. CASE ShellStopXY
  <2>1. shell.step = "idle" /\ UNCHANGED <<shell, late>> /\ m' = ManualAcquired(FALSE)
        /\ \A x \in AxisNames : xy'[x] = Stopped(xy[x])
    BY <1>6 DEF ShellStopXY, MutexFree
  <2>2. AxesKeep /\ StopKeeps
    BY <2>1, StoppedKeeps, AcquiredStop DEF AxesKeep, StopKeeps
  <2> QED BY <2>2, KeptCoverage
<1>7. CASE ShellStopZ
  BY <1>7, AcquiredStop, QuietCommand DEF ShellStopZ
<1>8. CASE ShellClearZ
  BY <1>8, QuietCommand DEF ShellClearZ
<1> QED BY <1>1, <1>2, <1>3, <1>4, <1>5, <1>6, <1>7, <1>8

\* Requests change the owner, or ask for a new stop.
LEMMA RequestCovers ==
  ASSUME IInv, Coverage,
         \/ RequestAbort
         \/ \E o \in Tasks : RequestCancel(o) \/ CaptureReference(o)
         \/ \E o \in Tasks, accepted \in BOOLEAN : TaskStart(o, accepted)
  PROVE  Coverage'
<1>0. m \in CoordType
  BY DEF IInv, TypeOK
<1>1. CASE RequestAbort
  <2>1. m'.abort /\ UNCHANGED <<xy, shell, stage, late>> /\ m'.latch = m.latch
    BY <1>0, <1>1 DEF RequestAbort, CoordType
  <2> QED BY <2>1 DEF Coverage, StopAnswered, Accounted, Handling, Covered, Busy, ShellOver,
                      StopCovers
<1>2. ASSUME NEW o \in Tasks, RequestCancel(o) PROVE Coverage'
  <2>1. MutexFree /\ UNCHANGED <<xy, shell, late>>
        /\ m'.latch = m.latch /\ m'.stop = m.stop /\ m'.abort = m.abort
    BY <1>0, <1>2 DEF RequestCancel, CoordType
  <2> QED BY <2>1, QuietCommand
<1>3. ASSUME NEW o \in Tasks, CaptureReference(o) PROVE Coverage'
  <2>1. MutexFree /\ UNCHANGED <<xy, shell, late>>
        /\ m'.latch = m.latch /\ m'.stop = m.stop /\ m'.abort = m.abort
    BY <1>0, <1>3 DEF CaptureReference, CoordType
  <2> QED BY <2>1, QuietCommand
<1>4. ASSUME NEW o \in Tasks, NEW accepted \in BOOLEAN, TaskStart(o, accepted) PROVE Coverage'
  <2>1. MutexFree /\ UNCHANGED <<xy, shell, late>>
        /\ m'.latch = m.latch /\ m'.stop = m.stop /\ m'.abort = m.abort
    BY <1>0, <1>4 DEF TaskStart, Acquired, CoordType
  <2> QED BY <2>1, QuietCommand
<1> QED BY <1>1, <1>2, <1>3, <1>4

\* A running task may move its axes; after an abort none runs, except between the latch and
\* the poll that takes the abort, when its motions count as late.
LEMMA TaskPollCovers ==
  ASSUME ConstantsAssumption, IInv, Coverage, NEW o \in Tasks, TaskPoll(o)
  PROVE  Coverage'
<1>0. /\ m \in CoordType /\ task \in [Tasks -> TaskStates] /\ Now \in Motion
      /\ xy \in [AxisNames -> AxisType]
  BY NowLocked DEF IInv, TypeOK
<1>1. CASE TaskMove(o)
  <2>1. UNCHANGED <<m, shell>> /\ shell.step = "idle" /\ MutexFree
    BY <1>1 DEF TaskMove, MutexFree
  <2>2. CASE UNCHANGED <<xy, late>>
    BY <2>1, <2>2, QuietCommand
  <2>3. CASE \E x \in Axes(o) : MayMove(x) /\ xy' = [xy EXCEPT ![x] = MoveRecord(MoveFrame(@))]
                                /\ Moved({x}, "task")
    <3>1. PICK x \in Axes(o) : MayMove(x) /\ xy' = [xy EXCEPT ![x] = MoveRecord(MoveFrame(@))]
                               /\ Moved({x}, "task")
      BY <2>3
    <3>2. x \in AxisNames
      BY DEF Axes, AxisNames
    <3>3. late \subseteq late' /\ (m.latch => x \in late')
      BY <3>1 DEF Moved
    <3>4. \A y \in AxisNames : xy'[y] = IF y = x THEN MoveRecord(MoveFrame(xy[x])) ELSE xy[y]
      BY <1>0, <3>1, <3>2
    <3>5. AxesKeep
      BY <2>1, <3>1, <3>2, <3>3, <3>4, BeginKeeps, SelfKeeps DEF AxesKeep
    <3>6. StopKeeps
      BY <2>1 DEF StopKeeps
    <3> QED BY <3>5, <3>6, KeptCoverage
  <2> QED BY <1>1, <2>2, <2>3 DEF TaskMove
<1>2. CASE TaskDone(o)
  <2>1. Halting(Now, Released(Now, o)) /\ Now.m = m
    BY <1>0, ReleasedHalt DEF Now
  <2>2. m' = m \/ m' = Released(Now, o).m
    BY <1>2 DEF TaskDone
  <2>3. m'.latch = m.latch /\ m'.stop = m.stop /\ m'.abort = m.abort
    BY <2>1, <2>2 DEF Halting
  <2> QED BY <1>2, <2>3, QuietCommand DEF TaskDone
<1>3. CASE TaskCapture(o)
  BY <1>3, QuietCommand DEF TaskCapture
<1>4. ASSUME NEW halted \in BOOLEAN, TaskFault(o, halted) PROVE Coverage'
  <2> DEFINE s == IF o \in Calibrations THEN Now ELSE TaskStop(Now, o, halted)
             t == [s EXCEPT !.task[o] = "off"]
  <2>1. s \in Motion /\ Halting(Now, s)
    BY <1>0, TaskStopMotion, TaskStopHalt, HaltingSelf
  <2>2. Become(t) /\ MutexFree /\ UNCHANGED <<shell, late>>
    BY <1>4 DEF TaskFault
  <2> HIDE DEF s
  <2>3. t \in Motion /\ t.m = s.m /\ t.xy = s.xy
    BY <2>1 DEF Motion, TaskStates
  <2> HIDE DEF t
  <2>4. Halts(Now, t)
    BY <2>1, <2>3 DEF Halting, Halts
  <2>5. AxesKeep
    BY <2>2, <2>4, HaltsKeep
  <2>6. m'.latch = m.latch /\ m'.stop = m.stop /\ m'.abort = m.abort
    BY <2>1, <2>2, <2>3 DEF Halting, Become, Now
  <2>7. StopKeeps
    BY <2>6 DEF StopKeeps
  <2> QED BY <2>5, <2>7, KeptCoverage
<1> QED BY <1>1, <1>2, <1>3, <1>4 DEF TaskPoll

-----------------------------------------------------------------------------
LEMMA InitCovers == ASSUME Init PROVE Coverage
BY DEF Init, ShellIdle, Coverage, StopAnswered, Accounted, ShellOver, StopCovers

\* Every step keeps the invariant.
LEMMA NextCovers ==
  ASSUME ConstantsAssumption, IInv, Coverage, [Next]_vars
  PROVE  Coverage'
<1>1. CASE Coordinator
  BY <1>1, CoordPollCovers, EmergencyCovers DEF Coordinator
<1>2. CASE RequestAbort \/ Shell
  BY <1>2, ShellCovers, RequestCovers DEF Shell
<1>3. ASSUME NEW x \in AxisNames, Axis(x) PROVE Coverage'
  <2>1. MutexFree \/ MotorDone(x)
    BY <1>3 DEF Axis, MoveAck, StopAck, HomeAck, HomeRun, HomeDone, Arrived, AxisTimeout,
                HomeRetry, DriverAlarm
  <2> QED BY <1>3, <2>1, AxisCovers, MotorDoneCovers
<1>4. CASE StopAllY \/ StopAllDone \/ StartupPoll \/ ZSettle \/ BusDown \/ BusUp
  BY <1>4, BackgroundCovers
<1>5. CASE \E o \in Tasks : TaskPoll(o)
  BY <1>5, TaskPollCovers
<1>6. CASE UNCHANGED vars
  BY <1>6 DEF vars, Coverage, StopAnswered, Accounted, Handling, Covered, Busy, ShellOver,
              StopCovers
<1> QED
  BY <1>1, <1>2, <1>3, <1>4, <1>5, <1>6 DEF Next

\* The stop of an abort passes no running motor by, for any number of commands, outages and
\* alarms: that the coordinator (motion_coordinator.c:120) holds it to be over
\* means that every motor that was running has its axis in FAULT or awaits an answer.
THEOREM StopReachesAll == Spec => []StopCovers
<1>1. Init => IInv /\ Coverage
  BY InitInv, InitCovers, ConstantsAssumption
<1>2. IInv /\ Coverage /\ [Next]_vars => IInv' /\ Coverage'
  BY NextInv, NextCovers, ConstantsAssumption
<1>3. Coverage => StopCovers
  BY DEF Coverage
<1> QED
  BY <1>1, <1>2, <1>3, PTL DEF Spec
=============================================================================
