---------------------------- MODULE RemoteControl ----------------------------
(***************************************************************************)
(* Commands from the network: remote_control.c with the connection loop of *)
(* tcp_control_server.c. The socket task receives commands and sends the   *)
(* final events; the LegacyIo loop executes the commands and watches them. *)
(*                                                                         *)
(* RemoteControl_Poll is one step: the loop has the higher priority, so    *)
(* the socket task only goes on between two polls. The record mutex makes  *)
(* a submission one step; a shell command cannot disturb it, because it    *)
(* touches neither records nor queue. The gantry is modelled as the        *)
(* commands see it: the owner of the axes, the abort, one mission, and     *)
(* the phase of each axis, which its own tasks and the shell change too.   *)
(* Left out are messages that change nothing (malformed lines, conflicting *)
(* ids, heartbeats, periodic status), which configuration a query asks     *)
(* for, and missions, holds and aborts that come from the shell.           *)
(***************************************************************************)
EXTENDS Naturals, Sequences, FiniteSets

CONSTANTS
  Commands,     \* the commands the centre sends: an id, a kind and an axis each
  Axes,         \* the axes modelled, out of X, Y and Z
  History,      \* REMOTE_COMMAND_HISTORY, 32 in the firmware
  QueueDepth,   \* REMOTE_REQUEST_QUEUE_DEPTH, 4 in the firmware
  MaxRecords,   \* bound: records written in one behaviour
  MaxOthers     \* bound: commands of the shell and starts of automatic tasks

\* "query" stands for axis_status, status_query and config_query.
Kinds == {"mission_start", "mission_cancel", "axis_move", "axis_stop", "emergency_stop",
          "payload_set", "query", "z_set_zero", "z_clear_fault"}

ASSUME ConstantsAssumption ==
  /\ Axes \subseteq {"X", "Y", "Z"}
  /\ Commands # {}
  /\ \A c \in Commands : c.kind \in Kinds /\ c.axis \in Axes
  /\ \A c \in Commands : c.kind \in {"z_set_zero", "z_clear_fault"} => c.axis = "Z"
  /\ \A c, d \in Commands : c.id = d.id => c = d
  /\ History \in Nat \ {0} /\ QueueDepth \in Nat \ {0}
  /\ MaxRecords \in Nat /\ MaxOthers \in Nat

VARIABLES
  rec,       \* g_records
  queue,     \* g_request_queue: slots with the generation of their record
  seq,       \* g_record_sequence and g_record_generation, which run together
  move,      \* g_active_axis_record, 0 for none
  job,       \* g_active_mission_record, 0 for none
  asked,     \* g_status_requested
  g,         \* the gantry
  server,    \* the connection loop, and g_peeked_event_record
  owed,      \* history: final commands whose event has not been sent
  others

vars == <<rec, queue, seq, move, job, asked, g, server, owed, others>>

Slots == 1 .. History
Terminal == {"completed", "failed", "rejected"}
RecordStates == {"free", "queued", "running"} \cup Terminal
AxisPhases == {"idle", "moving", "stopping", "recovering", "unreferenced", "fault"}

\* A record of the table before its first use.
Free == [state |-> "free", cmd |-> CHOOSE c \in Commands : TRUE, seq |-> 0,
         pending |-> FALSE, release |-> FALSE]

Init ==
  /\ rec = [i \in Slots |-> Free]
  /\ queue = << >> /\ seq = 0 /\ move = 0 /\ job = 0 /\ asked = FALSE
  /\ g = [owner |-> "NONE", hold |-> FALSE, abort |-> FALSE, latch |-> FALSE, stop |-> FALSE,
          cancel |-> FALSE, mission |-> "idle", ended |-> "none",
          axis |-> [a \in Axes |-> "idle"]]
  /\ server = [at |-> "down", slot |-> 0, seq |-> 0]
  /\ owed = {} /\ others = 0

-----------------------------------------------------------------------------
(* The gantry, as the commands use it.                                     *)

\* axis_is_stopped
AxisStopped(w, a) == w.axis[a] \notin {"moving", "stopping", "recovering"}

AllStopped(w) == \A a \in Axes : AxisStopped(w, a)

\* MissionTask_IsActive: a requested start counts.
MissionActive(w) == w.mission # "idle"

\* MotionCoordinator_Acquire of MOTION_OWNER_MANUAL
MayAcquire(w) == ~w.abort /\ ~w.latch /\ w.owner \in {"NONE", "MANUAL"}

\* MotionCoordinator_SetManualHold(0) and MotionCoordinator_Release(MANUAL)
Released(w) ==
  IF w.owner = "MANUAL" THEN [w EXCEPT !.hold = FALSE, !.owner = "NONE"] ELSE w

StopMoving(w) ==
  [w EXCEPT !.axis = [a \in Axes |-> IF @[a] = "moving" THEN "stopping" ELSE @[a]]]

-----------------------------------------------------------------------------
(* The table of records.                                                   *)

\* find_record
Find(c) == {i \in Slots : rec[i].state # "free" /\ rec[i].cmd = c}

Lowest(S) == CHOOSE i \in S : \A j \in S : i <= j

\* Mutant: a command that is still being executed may be pushed out.
AllocateOldest ==
  LET free == {i \in Slots : rec[i].state = "free"}
  IN IF free # {} THEN {Lowest(free)}
     ELSE {i \in Slots : \A j \in Slots : rec[i].seq <= rec[j].seq}

\* allocate_record: a free slot, else the oldest record that is not being executed.
Allocate ==
  LET free == {i \in Slots : rec[i].state = "free"}
      over == {i \in Slots : rec[i].state \in Terminal}
  IN IF free # {} THEN {Lowest(free)}
     ELSE {i \in over : \A j \in over : rec[i].seq <= rec[j].seq}

\* complete_record, in the table r.
Completed(r, i, success) ==
  [r EXCEPT ![i].state = IF success THEN "completed" ELSE "failed", ![i].pending = TRUE]

-----------------------------------------------------------------------------
(* The socket task.                                                        *)

\* precheck_command; fits tells whether a move keeps to the step and soft limits, and
\* whether a mission has its configuration, positions and payload.
Precheck(c, fits) ==
  /\ c.kind # "emergency_stop" => ~g.latch
  /\ c.kind \in {"mission_start", "axis_move"} => fits
  /\ c.kind \in {"mission_start", "axis_move", "z_set_zero", "z_clear_fault"} =>
       g.owner = "NONE" /\ ~MissionActive(g)
  /\ c.kind = "axis_move" => move = 0 /\ g.axis[c.axis] = "idle"
  /\ c.kind = "payload_set" => ~MissionActive(g)
  /\ c.kind = "z_set_zero" => g.axis["Z"] \in {"idle", "unreferenced"}

\* Mutant: the queue is taken to have room.
AcceptOverfull(c, i, fits) ==
  LET queued == c.kind \notin {"emergency_stop", "axis_stop"}
      refused == ~Precheck(c, fits)
      state == CASE refused -> "rejected"
                 [] c.kind = "emergency_stop" -> "running"
                 [] OTHER -> "queued"
  IN /\ seq < MaxRecords /\ seq' = seq + 1
     /\ rec' = [rec EXCEPT ![i] = [Free EXCEPT !.state = state, !.cmd = c, !.seq = seq + 1]]
     /\ queue' = IF queued /\ ~refused THEN Append(queue, [slot |-> i, seq |-> seq + 1])
                 ELSE queue
     /\ g' = IF state = "running" THEN [g EXCEPT !.abort = TRUE] ELSE g

\* A command that is not known yet gets a record, and goes to the queue, to the
\* coordinator (an emergency stop) or stays in the table (an axis stop).
Accept(c, i, fits) ==
  LET queued == c.kind \notin {"emergency_stop", "axis_stop"}
      refused == ~Precheck(c, fits) \/ (queued /\ Len(queue) = QueueDepth)
      state == CASE refused -> "rejected"
                 [] c.kind = "emergency_stop" -> "running"
                 [] OTHER -> "queued"
  IN /\ seq < MaxRecords /\ seq' = seq + 1
     /\ rec' = [rec EXCEPT ![i] = [Free EXCEPT !.state = state, !.cmd = c, !.seq = seq + 1]]
     /\ queue' = IF queued /\ ~refused THEN Append(queue, [slot |-> i, seq |-> seq + 1])
                 ELSE queue
     /\ g' = IF state = "running" THEN [g EXCEPT !.abort = TRUE] ELSE g

\* The same id again: a final command has its event sent again.
Repeat(i) ==
  /\ rec' = [rec EXCEPT ![i].pending = @ \/ rec[i].state \in {"completed", "failed"}]
  /\ UNCHANGED <<queue, seq, g>>

\* RemoteControl_SubmitJson of a well-formed command. The answer is sent, and the
\* loop goes on with the rest of the bytes it has received, or from the beginning.
Submit(c, fits) ==
  /\ server.at = "receive"
  /\ \E at \in {"status", "receive"} : server' = [server EXCEPT !.at = at]
  /\ IF Find(c) # {} THEN \E i \in Find(c) : Repeat(i)
     ELSE IF Allocate = {} THEN UNCHANGED <<rec, queue, seq, g>>
     ELSE \E i \in Allocate : Accept(c, i, fits)
  /\ UNCHANGED <<move, job, asked, owed, others>>

Connect ==
  /\ server.at = "down" /\ server' = [server EXCEPT !.at = "status"]
  /\ UNCHANGED <<rec, queue, seq, move, job, asked, g, owed, others>>

\* The connection ends, in the middle of a line as well: serve_client returns. (What was
\* peeked then is never confirmed: the next connection peeks again.)
Disconnect ==
  /\ server.at # "down" /\ server' = [at |-> "down", slot |-> 0, seq |-> 0]
  /\ UNCHANGED <<rec, queue, seq, move, job, asked, g, owed, others>>

\* RemoteControl_TakeStatusRequest
TakeStatusRequest ==
  /\ server.at = "status" /\ server' = [server EXCEPT !.at = "events"]
  /\ asked' = FALSE
  /\ UNCHANGED <<rec, queue, seq, move, job, g, owed, others>>

\* Mutant: the event is taken for sent when it is peeked.
PeekConfirming ==
  /\ server.at = "events"
  /\ LET pending == {i \in Slots : rec[i].pending /\ rec[i].state \in {"completed", "failed"}}
     IN IF pending = {} THEN server' = [server EXCEPT !.at = "receive"] /\ UNCHANGED rec
        ELSE LET i == Lowest(pending)
             IN /\ server' = [at |-> "sending", slot |-> i, seq |-> rec[i].seq]
                /\ rec' = [rec EXCEPT ![i].pending = FALSE]
  /\ UNCHANGED <<queue, seq, move, job, asked, g, owed, others>>

\* RemoteControl_PeekEvent; without a pending event the loop goes on to receive.
PeekEvent ==
  /\ server.at = "events"
  /\ LET pending == {i \in Slots : rec[i].pending /\ rec[i].state \in {"completed", "failed"}}
     IN IF pending = {} THEN server' = [server EXCEPT !.at = "receive"]
        ELSE LET i == Lowest(pending)
             IN server' = [at |-> "sending", slot |-> i, seq |-> rec[i].seq]
  /\ UNCHANGED <<rec, queue, seq, move, job, asked, g, owed, others>>

\* The line is out: RemoteControl_ConfirmEvent
ConfirmEvent ==
  /\ server.at = "sending"
  /\ server' = [at |-> "events", slot |-> 0, seq |-> 0]
  /\ LET i == server.slot
     IN /\ rec' = IF rec[i].seq = server.seq THEN [rec EXCEPT ![i].pending = FALSE] ELSE rec
        /\ owed' = owed \ {rec[i].cmd}
  /\ UNCHANGED <<queue, seq, move, job, asked, g, others>>

\* Nothing received within TCP_RECEIVE_TIMEOUT_MS.
ReceiveNothing ==
  /\ server.at = "receive" /\ server' = [server EXCEPT !.at = "status"]
  /\ UNCHANGED <<rec, queue, seq, move, job, asked, g, owed, others>>

-----------------------------------------------------------------------------
(* RemoteControl_Poll, on the whole state at once: s holds rec, queue,     *)
(* move, job, asked and g; halted and took tell whether an axis takes the  *)
(* stop, or the request, that it is sent.                                  *)

Now == [rec |-> rec, queue |-> queue, move |-> move, job |-> job, asked |-> asked, g |-> g]

Finish(s, i, success) == [s EXCEPT !.rec = Completed(@, i, success)]

Run(s, i) == [s EXCEPT !.rec[i].state = "running"]

\* A stop is for the owner of the axes too: a mission or a task is cancelled.
CancelOwner(w) ==
  IF w.owner = "MISSION" THEN [w EXCEPT !.cancel = @ \/ MissionActive(w)]
  ELSE IF w.owner = "TASK" THEN [w EXCEPT !.cancel = TRUE] ELSE w

\* XY_Stop or ZAxisControl_Stop: an X or Y axis that cannot be reached is in FAULT.
StopAxis(w, a, took) ==
  [w EXCEPT !.axis[a] = IF took THEN "stopping" ELSE IF a = "Z" THEN @ ELSE "fault"]

\* Mutant: the move that is stopped remains the active one.
StopIssuedKeeping(s, i) ==
  LET a == s.rec[i].cmd.axis
      mine == s.move # 0 /\ s.rec[s.move].cmd.axis = a
      t == IF mine THEN [Finish(s, s.move, FALSE) EXCEPT !.rec[i].release = TRUE] ELSE s
  IN IF AxisStopped(t.g, a) THEN Finish(t, i, TRUE) ELSE t

\* The remote move on the axis, if there is one, has failed; the stop now has to give
\* its ownership back.
StopIssued(s, i) ==
  LET a == s.rec[i].cmd.axis
      mine == s.move # 0 /\ s.rec[s.move].cmd.axis = a
      t == IF mine THEN [Finish(s, s.move, FALSE) EXCEPT !.rec[i].release = TRUE, !.move = 0]
           ELSE s
  IN IF AxisStopped(t.g, a) THEN Finish(t, i, TRUE) ELSE t

\* execute_axis_stop of the first axis stop in the table.
ExecuteAxisStop(s, took) ==
  LET stops == {i \in Slots : s.rec[i].state = "queued" /\ s.rec[i].cmd.kind = "axis_stop"}
      i == Lowest(stops)
      t == [Run(s, i) EXCEPT !.g = CancelOwner(@)]
      a == s.rec[i].cmd.axis
  IN IF stops = {} THEN s
     ELSE IF AxisStopped(t.g, a) THEN StopIssued(t, i)
     ELSE LET u == [t EXCEPT !.g = StopAxis(@, a, took)]
          IN IF took THEN StopIssued(u, i) ELSE Finish(u, i, FALSE)

\* MissionTask_RequestStart
StartMission(s, i) ==
  IF MissionActive(s.g) \/ s.g.owner # "NONE" \/ s.g.latch THEN Finish(s, i, FALSE)
  ELSE [s EXCEPT !.g.mission = "asked", !.g.ended = "none", !.job = i]

CancelMission(s, i) ==
  IF MissionActive(s.g) THEN [s EXCEPT !.g.cancel = TRUE] ELSE Finish(s, i, TRUE)

\* Acquires MANUAL, holds it, and moves; what fails gives it back, whoever had it.
MoveAxis(s, i, took) ==
  LET a == s.rec[i].cmd.axis
  IN IF ~MayAcquire(s.g) THEN Finish(s, i, FALSE)
     ELSE IF took /\ s.g.axis[a] = "idle"
     THEN [s EXCEPT !.g.owner = "MANUAL", !.g.hold = TRUE, !.g.axis[a] = "moving", !.move = i]
     ELSE Finish([s EXCEPT !.g = Released([@ EXCEPT !.owner = "MANUAL"])], i, FALSE)

\* ZAxisControl_SetZero
SetZero(s, i, took) ==
  IF took /\ s.g.axis["Z"] \in {"idle", "unreferenced"}
  THEN Finish([s EXCEPT !.g.axis["Z"] = "idle"], i, TRUE)
  ELSE Finish(s, i, FALSE)

\* ZAxisControl_ClearFault: only a faulted axis has anything to recover from.
ClearFault(s, i, took) ==
  CASE s.g.axis["Z"] = "recovering" -> Finish(s, i, FALSE)
    [] s.g.axis["Z"] = "fault" ->
         IF took THEN [s EXCEPT !.g.axis["Z"] = "recovering"] ELSE Finish(s, i, FALSE)
    [] s.g.axis["Z"] = "idle" -> Finish(s, i, TRUE)
    [] OTHER -> s

\* execute_request of the first request in the queue.
ExecuteRequest(s, took) ==
  IF s.queue = << >> THEN s
  ELSE LET i == Head(s.queue).slot
           r == s.rec[i]
           t == Run([s EXCEPT !.queue = Tail(@)], i)
       IN IF r.seq # Head(s.queue).seq \/ r.state # "queued" THEN [s EXCEPT !.queue = Tail(@)]
          ELSE CASE r.cmd.kind = "mission_start" -> StartMission(t, i)
                 [] r.cmd.kind = "mission_cancel" -> CancelMission(t, i)
                 [] r.cmd.kind = "axis_move" -> MoveAxis(t, i, took)
                 [] r.cmd.kind = "payload_set" -> Finish(t, i, ~MissionActive(t.g))
                 [] r.cmd.kind = "query" -> [Finish(t, i, TRUE) EXCEPT !.asked = TRUE]
                 [] r.cmd.kind = "z_set_zero" -> SetZero(t, i, took)
                 [] OTHER -> ClearFault(t, i, took)

\* The mission that was started has ended.
PollMission(s) ==
  IF s.job # 0 /\ s.rec[s.job].state = "running" /\ s.g.mission # "asked" /\ s.g.ended # "none"
  THEN [Finish(s, s.job, s.g.ended = "completed") EXCEPT !.job = 0]
  ELSE s

\* The axis that was moved is idle, or has lost its position.
PollMove(s) ==
  IF s.move = 0 \/ s.rec[s.move].state # "running" THEN s
  ELSE LET phase == s.g.axis[s.rec[s.move].cmd.axis]
       IN IF phase \notin {"idle", "fault", "unreferenced"} THEN s
          ELSE [Finish(s, s.move, phase = "idle") EXCEPT !.g = Released(@), !.move = 0]

\* Mutant: an axis stop is only over when the axis is idle.
OverIdle(w, r) ==
  CASE r.cmd.kind = "mission_cancel" -> ~MissionActive(w)
    [] r.cmd.kind = "emergency_stop" -> w.latch /\ ~w.stop
    [] r.cmd.kind = "axis_stop" -> w.axis[r.cmd.axis] = "idle"
    [] r.cmd.kind = "z_clear_fault" -> w.axis["Z"] \in {"idle", "fault"}
    [] OTHER -> FALSE

\* What the other running commands wait for.
Over(w, r) ==
  CASE r.cmd.kind = "mission_cancel" -> ~MissionActive(w)
    [] r.cmd.kind = "emergency_stop" -> w.latch /\ ~w.stop
    [] r.cmd.kind = "axis_stop" -> AxisStopped(w, r.cmd.axis)
    [] r.cmd.kind = "z_clear_fault" -> w.axis["Z"] \in {"idle", "fault"}
    [] OTHER -> FALSE

PollWaiting(s) ==
  LET over == {i \in Slots : s.rec[i].state = "running" /\ Over(s.g, s.rec[i])}
      good(r) == ~(r.cmd.kind = "z_clear_fault" /\ s.g.axis["Z"] = "fault")
  IN [s EXCEPT !.rec = [i \in Slots |->
        IF i \in over THEN Completed(s.rec, i, good(s.rec[i]))[i] ELSE s.rec[i]],
               !.g = IF \E i \in over : s.rec[i].cmd.kind = "axis_stop" /\ s.rec[i].release
                     THEN Released(@) ELSE @]

\* Finished commands whose event is still to be sent.
Finishing(s) ==
  {s.rec[i].cmd : i \in {j \in Slots : s.rec[j].state \in {"completed", "failed"}
                                     /\ rec[j].state \in {"queued", "running"}}}

\* RemoteControl_Poll. MissionTask_Poll comes later in the same pass of the loop, so a
\* requested mission has been taken up before the next poll.
Poll(halted, took) ==
  /\ g.mission # "asked"
  /\ \E a \in {ExecuteAxisStop(Now, halted)} : \E b \in {ExecuteRequest(a, took)} :
     \E c \in {PollMission(b)} : \E d \in {PollMove(c)} : \E s \in {PollWaiting(d)} :
       /\ rec' = s.rec /\ queue' = s.queue /\ move' = s.move /\ job' = s.job
       /\ asked' = s.asked /\ g' = s.g
       /\ owed' = owed \cup Finishing(s)
  /\ UNCHANGED <<seq, server, others>>

-----------------------------------------------------------------------------
(* The gantry goes on: the axes, the coordinator, the mission, the shell   *)
(* and the automatic tasks, as far as commands can tell.                   *)

Gantry(w) == g' = w /\ UNCHANGED <<rec, queue, seq, move, job, asked, server, owed>>

\* A motion ends well or in a fault; Z may lose its position over a stop or a recovery.
AxisEnds(a) ==
  /\ ~AxisStopped(g, a)
  /\ \E end \in {"idle", "fault"} \cup
                (IF a = "Z" /\ g.axis[a] # "moving" THEN {"unreferenced"} ELSE {}) :
       Gantry([g EXCEPT !.axis[a] = end])
  /\ UNCHANGED others

\* MotionCoordinator_PollEmergency and the abort branch of MotionCoordinator_Poll:
\* latched and stopped at once, the owner released by the poll.
Emergency ==
  /\ g.abort /\ ~g.latch
  /\ Gantry(StopMoving([g EXCEPT !.latch = TRUE, !.stop = TRUE]))
  /\ UNCHANGED others

CoordAbort ==
  /\ g.abort
  /\ Gantry(StopMoving([g EXCEPT !.abort = FALSE, !.latch = TRUE, !.stop = TRUE,
                                 !.owner = "NONE",
                                 !.cancel = @ /\ g.owner # "TASK"]))
  /\ UNCHANGED others

StopDone ==
  /\ g.stop /\ AllStopped(g)
  /\ Gantry([g EXCEPT !.stop = FALSE])
  /\ UNCHANGED others

\* The automatic release of a manual owner that does not hold.
AutoRelease ==
  /\ g.owner = "MANUAL" /\ ~g.hold /\ ~g.stop /\ AllStopped(g)
  /\ Gantry([g EXCEPT !.owner = "NONE"])
  /\ UNCHANGED others

\* process_start_request
MissionBegin ==
  /\ g.mission = "asked"
  /\ Gantry(IF g.owner = "NONE" /\ ~g.abort /\ ~g.latch
            THEN [g EXCEPT !.owner = "MISSION", !.mission = "active"]
            ELSE [g EXCEPT !.mission = "idle", !.ended = "failed"])
  /\ UNCHANGED others

\* finish_complete and finish_terminal_fault; without its owner, latched or cancelled a
\* mission can only fail.
MissionEnd ==
  /\ g.mission = "active"
  /\ \/ /\ g.owner = "MISSION" /\ ~g.latch /\ ~g.cancel /\ AllStopped(g)
        /\ Gantry([g EXCEPT !.mission = "idle", !.ended = "completed", !.owner = "NONE"])
     \/ Gantry(StopMoving([g EXCEPT !.mission = "idle", !.ended = "failed", !.cancel = FALSE,
                                    !.owner = IF @ = "MISSION" THEN "NONE" ELSE @]))
  /\ UNCHANGED others

\* The mission, or the task that owns the axes, moves one of them.
OwnerMoves(a) ==
  /\ g.owner \in {"MISSION", "TASK"} /\ g.axis[a] = "idle" /\ ~g.cancel
  /\ Gantry([g EXCEPT !.axis[a] = "moving"])
  /\ UNCHANGED others

TaskStart ==
  /\ others < MaxOthers /\ others' = others + 1
  /\ MayAcquire(g) /\ g.owner = "NONE"
  /\ Gantry([g EXCEPT !.owner = "TASK"])

TaskEnd ==
  /\ g.owner = "TASK"
  /\ Gantry(StopMoving([g EXCEPT !.owner = "NONE", !.cancel = FALSE]))
  /\ UNCHANGED others

\* x_move, y_move and z_move share MANUAL with the network, and clear its hold.
ShellMove(a) ==
  /\ g.mission # "asked" /\ others < MaxOthers /\ others' = others + 1
  /\ MayAcquire(g)
  /\ Gantry([g EXCEPT !.owner = "MANUAL", !.hold = FALSE,
                      !.axis[a] = IF @ = "idle" THEN "moving" ELSE @])

\* xy_stop
ShellStop ==
  /\ g.mission # "asked" /\ others < MaxOthers /\ others' = others + 1
  /\ MayAcquire(g)
  /\ Gantry([g EXCEPT !.owner = "MANUAL", !.hold = FALSE,
                      !.axis = [a \in Axes |-> IF a = "Z" THEN @[a] ELSE "stopping"]])

-----------------------------------------------------------------------------
Socket ==
  \/ \E c \in Commands, fits \in BOOLEAN : Submit(c, fits)
  \/ Connect \/ Disconnect \/ TakeStatusRequest \/ PeekEvent \/ ConfirmEvent
  \/ ReceiveNothing

GantryNext ==
  \/ \E a \in Axes : AxisEnds(a) \/ OwnerMoves(a) \/ ShellMove(a)
  \/ Emergency \/ CoordAbort \/ StopDone \/ AutoRelease
  \/ MissionBegin \/ MissionEnd \/ TaskStart \/ TaskEnd \/ ShellStop

Next == Socket \/ (\E halted, took \in BOOLEAN : Poll(halted, took)) \/ GantryNext

\* The LegacyIo loop goes on, and with it the coordinator; every motion and every mission
\* comes to an end. Nothing is assumed of the connection and the centre.
Fairness ==
  /\ WF_vars(\E halted, took \in BOOLEAN : Poll(halted, took))
  /\ WF_vars(CoordAbort) /\ WF_vars(StopDone)
  /\ WF_vars(MissionBegin) /\ WF_vars(MissionEnd)
  /\ \A a \in Axes : WF_vars(AxisEnds(a))

Spec == Init /\ [][Next]_vars

FairSpec == Spec /\ Fairness

-----------------------------------------------------------------------------
RecordType == [state : RecordStates, cmd : Commands, seq : 0 .. MaxRecords,
               pending : BOOLEAN, release : BOOLEAN]
GantryType == [owner : {"NONE", "MANUAL", "TASK", "MISSION"}, hold : BOOLEAN,
               abort : BOOLEAN, latch : BOOLEAN, stop : BOOLEAN, cancel : BOOLEAN,
               mission : {"idle", "asked", "active"},
               ended : {"none", "completed", "failed"}, axis : [Axes -> AxisPhases]]
ServerType == [at : {"down", "status", "events", "sending", "receive"},
               slot : 0 .. History, seq : 0 .. MaxRecords]

\* Types; the queue never holds more than its depth, nor a slot that is not one.
TypeOK ==
  /\ rec \in [Slots -> RecordType] /\ seq \in 0 .. MaxRecords
  /\ queue \in Seq([slot : Slots, seq : 1 .. MaxRecords]) /\ Len(queue) <= QueueDepth
  /\ move \in 0 .. History /\ job \in 0 .. History /\ asked \in BOOLEAN
  /\ g \in GantryType /\ server \in ServerType
  /\ owed \subseteq Commands /\ others \in 0 .. MaxOthers

\* What the table says of a command.
LifeOf(c) ==
  IF Find(c) = {} THEN "unknown"
  ELSE IF Cardinality(Find(c)) > 1 THEN "twice"
  ELSE rec[CHOOSE i \in Find(c) : TRUE].state

Life == INSTANCE CommandLife WITH life <- [c \in Commands |-> LifeOf(c)]

\* Whatever is resent, refused, pushed out or finished: a command is executed at most
\* once while it is known, is not forgotten before it is final, and stays as it ended.
KeepsLife == Life!LifeSpec

\* The indices the loop keeps point at the command they were taken for: the active move
\* and the active mission are running, and no other command has taken over their slot.
ActiveIsRunning ==
  /\ move # 0 => rec[move].state = "running" /\ rec[move].cmd.kind = "axis_move"
  /\ job # 0 => rec[job].state = "running" /\ rec[job].cmd.kind = "mission_start"

\* A final event is only crossed off when it is out: as long as it is owed, through any
\* disconnection, its record has it pending.
OwedIsPending ==
  \A i \in Slots : rec[i].state \in {"completed", "failed"} /\ rec[i].cmd \in owed =>
    rec[i].pending

\* Every stop, emergency stop, cancellation, mission, query and setting that is accepted
\* comes to a final state. (A move need not: of two that are queued at once the first is
\* lost sight of. Nor need z_clear_fault on an axis without a reference.)
Answered ==
  \A c \in Commands : c.kind \notin {"axis_move", "z_clear_fault"} =>
    (LifeOf(c) \in {"queued", "running"} ~> LifeOf(c) \notin {"queued", "running"})

\* STM32H743_GANTRY_SERVER_GUIDE-new.md:632 and :835: the ownership is given back when
\* the motion of a remote command is over. Yet a stop that meets an axis which has just
\* come to rest leaves MANUAL held, and nobody left to release it.
ReleasedAtEnd ==
  g.owner = "MANUAL" /\ g.hold =>
    \E i \in Slots : rec[i].state = "running"
                      /\ (rec[i].cmd.kind = "axis_move" \/ rec[i].release)

\* The protocol description says that a final event that could not be sent is kept for
\* the next connection. Yet the record of a long command can be pushed out as the oldest
\* in the moment it has finished, before its event is sent.
EventKept ==
  \A c \in owed : \E i \in Find(c) : rec[i].pending
=============================================================================
