-------------------------------- MODULE ZAxis --------------------------------
(***************************************************************************)
(* The Z axis of the gantry: the USART6 transaction layer (z_axis_link.c), *)
(* the position layer above it (z_axis.c), the receive-DMA restart logic   *)
(* of usart.c and, as an external component, the F103 motor controller at  *)
(* the other end of the wire.                                              *)
(*                                                                         *)
(* Three kinds of actors interleave: the UART interrupts (Receive,         *)
(* UartError), the LegacyIo task (RxRestart .. ZPoll), which only an       *)
(* interrupt can preempt, and whoever holds the application mutex and      *)
(* issues a request (MoveRelative, MoveAbsolute, Stop, SetZero,            *)
(* ClearFault).                                                            *)
(***************************************************************************)
EXTENDS Integers, Sequences

CONSTANTS
  MaxPulses,        \* Z_AXIS_SOFT_MAX_PULSES; Z_AXIS_SOFT_MIN_PULSES is 0
  AckTicks,         \* Z_AXIS_ACK_TIMEOUT_MS, in ticks of the model's clock
  CompletionTicks,  \* completion_timeout() and Z_AXIS_COMPLETION_MARGIN_MS
  MaxReplies,       \* bound: controller replies in flight at the same time
  MaxTrouble        \* bound: transmit failures, lost frames, receive errors and
                    \* controller errors in one behaviour

ASSUME ConstantsAssumption ==
  /\ MaxPulses \in Nat \ {0}
  /\ AckTicks \in Nat \ {0}
  /\ CompletionTicks \in Nat \ {0}
  /\ MaxReplies \in Nat \ {0}
  /\ MaxTrouble \in Nat

VARIABLES
  link,      \* ZAxisStatus g_status and the deadline of z_axis_link.c
  motion,    \* the motion result the position layer has not read yet
  recovery,  \* the recovery result the position layer has not read yet
  timedOut,  \* TRUE iff g_status.timeouts # g_last_timeouts
  rx,        \* the USART6 receive DMA and its restart flags
  poll,      \* where the LegacyIo task is inside USART6_RxPoll / ZAxisLink_Poll
  z,         \* ZAxisControlStatus g_z and g_track_active_move of z_axis.c
  request,   \* the frame being transmitted (huart6.gState), or NoFrame
  replies,   \* frames the controller has sent and the H743 has not received
  ctl,       \* the F103 controller
  trouble,   \* how many things have gone wrong (bounded by MaxTrouble)
  phys       \* history: mechanical position since the zero point was set

vars == <<link, motion, recovery, timedOut, rx, poll, z, request, replies,
          ctl, trouble, phys>>

-----------------------------------------------------------------------------
LinkStates == {"IDLE", "WAIT_ACCEPT", "MOVING", "STOPPING", "WAIT_CLEAR_FAULT",
               "RECOVERY_VERIFY", "WAIT_QUERY_STATUS", "FAULT"}
ZStates == {"UNREFERENCED", "IDLE", "STARTING", "MOVING", "STOPPING",
            "RECOVERING", "FAULT"}
Commands == {"MOVE", "STOP", "CLEAR_FAULT", "QUERY_STATUS"}
\* "ERROR" stands for every status other than 00, 01 and 07 (and for 0xFF).
Statuses == {"ACCEPTED", "COMPLETE", "STOPPED", "ERROR"}

Off == -1                                \* g_deadline_active = 0
Deltas == (-MaxPulses .. MaxPulses) \ {0}
InLimits(p) == p \in 0 .. MaxPulses
Magnitude(n) == IF n < 0 THEN -n ELSE n

\* polled: ZAxis_Poll has run since the last request. A frame takes 17.7 ms at 9600
\* baud and the LegacyIo loop runs every millisecond, so the controller never has
\* the whole frame before that; and a second request in the same iteration only
\* finds the transmitter busy.
NoFrame(polled) == [cmd |-> "NONE", pulses |-> 0, polled |-> polled]
Frame(cmd, pulses) == [cmd |-> cmd, pulses |-> pulses, polled |-> FALSE]
Reply(cmd, status, steps) == [cmd |-> cmd, status |-> status, steps |-> steps]
NoResult == [unread |-> FALSE, status |-> "COMPLETE", steps |-> 0]
Reported == 0 .. MaxPulses + 1           \* MaxPulses + 1: above INT32_MAX

TxReady == request.cmd = "NONE"          \* huart6.gState == HAL_UART_STATE_READY

Init ==
  /\ link = [state |-> "IDLE", moveActive |-> FALSE, accepted |-> FALSE,
             requested |-> 0, stopAck |-> FALSE, timer |-> Off]
  /\ motion = NoResult
  /\ recovery = "none"
  /\ timedOut = FALSE
  /\ \E ok \in BOOLEAN :                 \* USART6_StartRx may fail
        rx = [ready |-> ok, pending |-> ~ok, on |-> ok]
  /\ poll = "idle"
  /\ z = [state |-> "UNREFERENCED", position |-> 0, valid |-> FALSE,
          fault |-> FALSE, suspect |-> FALSE, track |-> FALSE]
  /\ request = NoFrame(TRUE)
  /\ replies = <<>>
  /\ ctl = [move |-> 0, stopping |-> FALSE, fault |-> FALSE]
  /\ trouble = 0
  /\ phys = 0

-----------------------------------------------------------------------------
(* Requests. The caller holds the application mutex; ok is the result of   *)
(* HAL_UART_Transmit_DMA.                                                  *)

Idle == poll = "idle"
CanSend == Idle /\ TxReady /\ request.polled

Trouble == trouble < MaxTrouble /\ trouble' = trouble + 1
Outcome(ok) == IF ok THEN UNCHANGED trouble ELSE Trouble

\* ZAxisLink_MoveRelative: refused unless the link is idle, receiving and able
\* to transmit; a failed transmission takes the transaction back.
LinkMove(delta, ok) ==
  /\ CanSend /\ rx.ready /\ link.state = "IDLE"
  /\ IF ok
     THEN /\ link' = [link EXCEPT !.state = "WAIT_ACCEPT", !.moveActive = TRUE,
                        !.accepted = FALSE, !.requested = delta, !.timer = AckTicks]
          /\ request' = Frame("MOVE", delta)
     ELSE /\ link' = [link EXCEPT !.moveActive = FALSE, !.accepted = FALSE,
                        !.requested = delta, !.timer = Off]
          /\ request' = NoFrame(FALSE)

\* Mutant: only the distance is limited, never the target.
WithinDistance(delta) == Magnitude(delta) <= MaxPulses

\* The soft limits apply to the target when the axis is referenced and to the
\* distance when it is not.
Permitted(delta) ==
  IF z.valid THEN InLimits(z.position + delta) ELSE Magnitude(delta) <= MaxPulses

\* Mutant: an idle link is taken for an idle axis.
MoveUnguarded(delta, ok) ==
  /\ Idle
  /\ Permitted(delta)
  /\ LinkMove(delta, ok)
  /\ z' = IF ok THEN [z EXCEPT !.state = "STARTING", !.track = z.valid] ELSE z
  /\ Outcome(ok)
  /\ UNCHANGED <<motion, recovery, timedOut, rx, poll, replies, ctl, phys>>

\* ZAxisControl_MoveRelative
MoveRelative(delta, ok) ==
  /\ Idle
  /\ z.state \in {"IDLE", "UNREFERENCED"}
  /\ Permitted(delta)
  /\ LinkMove(delta, ok)
  /\ z' = IF ok THEN [z EXCEPT !.state = "STARTING", !.track = z.valid] ELSE z
  /\ Outcome(ok)
  /\ UNCHANGED <<motion, recovery, timedOut, rx, poll, replies, ctl, phys>>

\* ZAxisControl_MoveAbsolute
MoveAbsolute(target, ok) ==
  /\ InLimits(target)
  /\ z.valid /\ z.state # "UNREFERENCED"
  /\ target # z.position
  /\ MoveRelative(target - z.position, ok)

\* ZAxisControl_Stop and ZAxisLink_Stop: accepted in every state of the axis.
Stop(ok) ==
  /\ CanSend /\ rx.ready
  /\ IF ok
     THEN /\ link' = [link EXCEPT !.state = "STOPPING", !.stopAck = FALSE,
                                  !.timer = AckTicks]
          /\ request' = Frame("STOP", 0)
          /\ z' = [z EXCEPT !.state = "STOPPING"]
     ELSE /\ link' = [link EXCEPT !.state = "FAULT", !.stopAck = FALSE, !.timer = Off]
          /\ request' = NoFrame(FALSE)
          /\ UNCHANGED z
  /\ Outcome(ok)
  /\ UNCHANGED <<motion, recovery, timedOut, rx, poll, replies, ctl, phys>>

\* ZAxisControl_SetZero: the operator declares the present position to be zero.
SetZero ==
  /\ Idle /\ rx.ready /\ link.state = "IDLE"
  /\ z.state \in {"UNREFERENCED", "IDLE"}
  /\ z' = [z EXCEPT !.position = 0, !.valid = TRUE, !.fault = FALSE, !.state = "IDLE"]
  /\ phys' = IF z.suspect THEN phys ELSE 0
  /\ UNCHANGED <<link, motion, recovery, timedOut, rx, poll, request, replies, ctl, trouble>>

\* ZAxisControl_ClearFault and ZAxisLink_ClearFault
ClearFault(ok) ==
  /\ CanSend /\ z.state # "RECOVERING"
  /\ z.state = "FAULT" \/ link.state = "FAULT"
  /\ rx.ready /\ link.state \in {"FAULT", "IDLE"}
  /\ link' = [link EXCEPT !.state = IF ok THEN "WAIT_CLEAR_FAULT" ELSE "FAULT",
                          !.moveActive = FALSE, !.stopAck = FALSE,
                          !.timer = IF ok THEN AckTicks ELSE Off]
  /\ request' = IF ok THEN Frame("CLEAR_FAULT", 0) ELSE NoFrame(FALSE)
  /\ z' = IF ok THEN [z EXCEPT !.state = "RECOVERING", !.track = FALSE,
                          !.suspect = TRUE] ELSE z
  /\ Outcome(ok)
  /\ UNCHANGED <<motion, recovery, timedOut, rx, poll, replies, ctl, phys>>

-----------------------------------------------------------------------------
(* USART6 interrupts: a complete frame, or a receive error.                *)

\* Mutant: the step count is narrowed to an int32_t without a check.
PublishUnchecked(status, steps) ==
  motion' = IF ~link.moveActive THEN motion
            ELSE [unread |-> TRUE, status |-> status,
                  steps |-> IF link.requested < 0 THEN -steps ELSE steps]

\* publish_motion_result: only the first terminal reply of a move is published.
PublishMotion(status, steps) ==
  motion' = IF ~link.moveActive THEN motion
            ELSE IF steps > MaxPulses
            THEN [unread |-> TRUE, status |-> "ERROR", steps |-> 0]
            ELSE [unread |-> TRUE, status |-> status,
                  steps |-> IF link.requested < 0 THEN -steps ELSE steps]

OnClearReply(r) ==
  /\ r.cmd = "CLEAR_FAULT" /\ link.state = "WAIT_CLEAR_FAULT"
  /\ IF r.status = "COMPLETE"
     THEN /\ link' = [link EXCEPT !.state = "RECOVERY_VERIFY", !.timer = AckTicks]
          /\ UNCHANGED recovery
     ELSE /\ link' = [link EXCEPT !.state = "FAULT", !.timer = Off]
          /\ recovery' = "failed"
  /\ UNCHANGED motion

OnQueryReply(r) ==
  /\ r.cmd = "QUERY_STATUS" /\ link.state = "WAIT_QUERY_STATUS"
  /\ recovery' = IF r.status = "COMPLETE" THEN "complete" ELSE "failed"
  /\ link' = [link EXCEPT !.state = IF r.status = "COMPLETE" THEN "IDLE" ELSE "FAULT",
                          !.timer = Off]
  /\ UNCHANGED motion

\* Mutant: the acknowledgement disarms the deadline of the move it stops.
OnStopReplyDisarming(r) ==
  /\ r.cmd = "STOP" /\ link.state = "STOPPING"
  /\ link' = IF r.status # "COMPLETE"
             THEN [link EXCEPT !.state = "FAULT", !.timer = Off]
             ELSE [link EXCEPT !.stopAck = TRUE, !.timer = Off,
                               !.state = IF link.moveActive THEN @ ELSE "IDLE"]
  /\ UNCHANGED <<motion, recovery>>

\* Mutant: the acknowledgement ends the transaction at once.
OnStopReplyEnding(r) ==
  /\ r.cmd = "STOP" /\ link.state = "STOPPING"
  /\ link' = [link EXCEPT !.stopAck = r.status = "COMPLETE", !.timer = Off,
                          !.state = IF r.status = "COMPLETE" THEN "IDLE" ELSE "FAULT"]
  /\ UNCHANGED <<motion, recovery>>

\* The STOP acknowledgement does not end the transaction while the stopped move
\* still owes its own terminal reply.
OnStopReply(r) ==
  /\ r.cmd = "STOP" /\ link.state = "STOPPING"
  /\ link' = IF r.status # "COMPLETE"
             THEN [link EXCEPT !.state = "FAULT", !.timer = Off]
             ELSE IF link.moveActive
             THEN [link EXCEPT !.stopAck = TRUE, !.timer = CompletionTicks]
             ELSE [link EXCEPT !.stopAck = TRUE, !.state = "IDLE", !.timer = Off]
  /\ UNCHANGED <<motion, recovery>>

\* Mutant: the motion phase has no deadline of its own.
OnAcceptedUnbounded(r) ==
  /\ r.cmd = "MOVE" /\ r.status = "ACCEPTED" /\ link.state = "WAIT_ACCEPT"
  /\ link' = [link EXCEPT !.accepted = TRUE, !.timer = Off,
                          !.state = IF r.steps = 0 THEN "FAULT" ELSE "MOVING"]
  /\ UNCHANGED <<motion, recovery>>

\* ACCEPTED opens the motion phase; a payload out of range is a fault.
OnAccepted(r) ==
  /\ r.cmd = "MOVE" /\ r.status = "ACCEPTED" /\ link.state = "WAIT_ACCEPT"
  /\ link' = IF r.steps = 0
             THEN [link EXCEPT !.accepted = TRUE, !.state = "FAULT", !.timer = Off]
             ELSE [link EXCEPT !.accepted = TRUE, !.state = "MOVING",
                               !.timer = CompletionTicks]
  /\ UNCHANGED <<motion, recovery>>

OnMoveEnded(r) ==
  /\ r.cmd = "MOVE" /\ r.status \in {"COMPLETE", "STOPPED"}
  /\ link.state \in {"WAIT_ACCEPT", "MOVING", "STOPPING"}
  /\ PublishMotion(r.status, r.steps)
  /\ link' = IF link.state # "STOPPING" \/ link.stopAck
             THEN [link EXCEPT !.moveActive = FALSE, !.state = "IDLE", !.timer = Off]
             ELSE [link EXCEPT !.moveActive = FALSE]
  /\ UNCHANGED recovery

\* Any other MOVE status, and an ACCEPTED that arrives after the move was left.
OnMoveRejected(r) ==
  /\ r.cmd = "MOVE"
  /\ \/ r.status = "ERROR" /\ link.state \in {"WAIT_ACCEPT", "MOVING", "STOPPING"}
     \/ r.status = "ACCEPTED" /\ link.state \in {"MOVING", "STOPPING"}
  /\ LET published == link.accepted /\ link.state \in {"MOVING", "STOPPING"}
     IN /\ IF published THEN PublishMotion(r.status, r.steps) ELSE UNCHANGED motion
        /\ link' = [link EXCEPT !.state = "FAULT", !.timer = Off,
                                !.moveActive = @ /\ ~published]
  /\ UNCHANGED recovery

\* Everything else is counted as unexpected. A late STOPPED in IDLE would be
\* published if a move were still active.
OnUnexpected(r) ==
  /\ \/ r.cmd = "CLEAR_FAULT" /\ link.state # "WAIT_CLEAR_FAULT"
     \/ r.cmd = "QUERY_STATUS" /\ link.state # "WAIT_QUERY_STATUS"
     \/ r.cmd = "STOP" /\ link.state # "STOPPING"
     \/ r.cmd = "MOVE" /\ link.state \notin {"WAIT_ACCEPT", "MOVING", "STOPPING"}
  /\ LET late == r.cmd = "MOVE" /\ r.status = "STOPPED" /\ link.state = "IDLE"
     IN /\ IF late THEN PublishMotion(r.status, r.steps) ELSE UNCHANGED motion
        /\ link' = [link EXCEPT !.moveActive = @ /\ ~late]
  /\ UNCHANGED recovery

\* handle_response, for the frame at the head of the wire.
HandleResponse(r) ==
  \/ OnClearReply(r)
  \/ OnQueryReply(r)
  \/ OnStopReply(r)
  \/ OnAccepted(r)
  \/ OnMoveEnded(r)
  \/ OnMoveRejected(r)
  \/ OnUnexpected(r)

Receive ==
  /\ rx.on /\ replies # <<>>
  /\ HandleResponse(Head(replies))
  /\ replies' = Tail(replies)
  /\ UNCHANGED <<timedOut, rx, poll, z, request, ctl, trouble, phys>>

\* HAL aborts the reception on any error and calls HAL_UART_ErrorCallback,
\* which runs ZAxisLink_OnUartError: a move whose ACCEPTED may have been
\* damaged is given the time to complete.
UartError ==
  /\ rx.on
  /\ rx' = [ready |-> FALSE, pending |-> TRUE, on |-> FALSE]
  /\ link' = IF link.state = "WAIT_ACCEPT" THEN [link EXCEPT !.timer = CompletionTicks]
             ELSE link
  /\ Trouble
  /\ UNCHANGED <<motion, recovery, timedOut, poll, z, request, replies, ctl, phys>>

-----------------------------------------------------------------------------
(* The LegacyIo task.                                                      *)

\* USART6_RxPoll up to the moment the interrupts are enabled again ...
RxRestart(ok) ==
  /\ Idle /\ rx.pending
  /\ rx' = [rx EXCEPT !.on = ok]
  /\ poll' = IF ok THEN "restarted" ELSE "idle"
  /\ Outcome(ok)
  /\ UNCHANGED <<link, motion, recovery, timedOut, z, request, replies, ctl, phys>>

\* ... and the flags it writes afterwards.
RxRestartDone ==
  /\ poll = "restarted"
  /\ rx' = [rx EXCEPT !.pending = FALSE, !.ready = TRUE]
  /\ poll' = "idle"
  /\ UNCHANGED <<link, motion, recovery, timedOut, z, request, replies, ctl, trouble, phys>>

QueryDue == link.state = "RECOVERY_VERIFY" /\ rx.ready /\ TxReady

\* ZAxisLink_Poll, the QUERY_STATUS half of a recovery.
LinkPollQuery(ok) ==
  /\ Idle /\ QueryDue
  /\ link' = [link EXCEPT !.state = IF ok THEN "WAIT_QUERY_STATUS" ELSE "FAULT",
                          !.timer = IF ok THEN AckTicks ELSE Off]
  /\ request' = IF ok THEN Frame("QUERY_STATUS", 0) ELSE request
  /\ recovery' = IF ok THEN recovery ELSE "failed"
  /\ Outcome(ok)
  /\ UNCHANGED <<motion, timedOut, rx, poll, z, replies, ctl, phys>>

\* ZAxisLink_Poll finds the deadline expired ...
LinkPollExpired ==
  /\ Idle /\ ~QueryDue
  /\ link.timer = 0
  /\ poll' = "expired"
  /\ UNCHANGED <<link, motion, recovery, timedOut, rx, z, request, replies, ctl, trouble, phys>>

\* ... and acts on it, whatever an interrupt has changed in between.
LinkPollFault ==
  /\ poll = "expired"
  /\ link' = [link EXCEPT !.state = "FAULT", !.timer = Off]
  /\ timedOut' = TRUE
  /\ poll' = "idle"
  /\ UNCHANGED <<motion, recovery, rx, z, request, replies, ctl, trouble, phys>>

\* z_set_fault: no effect in FAULT. fault stands for g_z.fault # Z_FAULT_NONE (its
\* kind is left out). The history field suspect: a fault was raised or a recovery
\* started at some time.
SetFault(c) ==
  IF c.state = "FAULT" THEN c
  ELSE [c EXCEPT !.state = "FAULT", !.fault = TRUE, !.suspect = TRUE]

Succeeded == motion.status \in {"COMPLETE", "STOPPED"}

\* ZAxis_Poll, motion result of a move started without a reference.
UntrackedResult(c) ==
  IF Succeeded
  THEN [c EXCEPT !.fault = FALSE,
                 !.state = IF link.state = "STOPPING" THEN "STOPPING" ELSE "UNREFERENCED"]
  ELSE SetFault(c)

\* Mutant: a stopped move is counted as if it had gone all the way.
TrackedTarget(c) ==
  IF ~InLimits(c.position + link.requested) THEN SetFault(c)
  ELSE IF Succeeded
  THEN [c EXCEPT !.position = @ + link.requested, !.fault = FALSE,
                 !.state = IF link.state = "STOPPING" THEN "STOPPING" ELSE "IDLE"]
  ELSE SetFault(c)

\* ZAxis_Poll, motion result of a move started from a valid position.
TrackedResult(c) ==
  LET position == c.position + motion.steps
      moved == [c EXCEPT !.position = position]
  IN IF ~InLimits(position) THEN SetFault(c)
     ELSE IF Succeeded
     THEN [moved EXCEPT !.fault = FALSE,
                        !.state = IF link.state = "STOPPING" THEN "STOPPING" ELSE "IDLE"]
     ELSE SetFault(moved)

AfterMotion(c) ==
  IF ~motion.unread THEN c
  ELSE [(IF c.track THEN TrackedResult(c) ELSE UntrackedResult(c)) EXCEPT !.track = FALSE]

RestState(c) == IF c.valid THEN "IDLE" ELSE "UNREFERENCED"

AfterRecovery(c) ==
  IF recovery = "none" THEN c
  ELSE IF recovery = "complete"
  THEN [c EXCEPT !.fault = FALSE, !.state = RestState(c), !.track = FALSE]
  ELSE SetFault(c)

AfterTimeout(c) == IF timedOut THEN SetFault(c) ELSE c

AfterLinkFault(c) ==
  IF link.state = "FAULT" THEN SetFault(c) ELSE c

\* Mutant: the stop is over as soon as the link has its acknowledgement.
SettledAtAck(c) ==
  IF c.state = "STARTING" /\ link.state = "MOVING" THEN [c EXCEPT !.state = "MOVING"]
  ELSE IF c.state = "STOPPING" /\ (link.state = "IDLE" \/ link.stopAck)
  THEN [c EXCEPT !.state = RestState(c)]
  ELSE c

Settled(c) ==
  IF c.state = "STARTING" /\ link.state = "MOVING" THEN [c EXCEPT !.state = "MOVING"]
  ELSE IF c.state = "STOPPING" /\ link.state = "IDLE" /\ ~link.moveActive
  THEN [c EXCEPT !.state = RestState(c)]
  ELSE c

\* ZAxis_Poll, on one atomic snapshot of the link (ZAxisLink_GetStatus).
ZPoll ==
  /\ Idle
  /\ z' = Settled(AfterLinkFault(AfterTimeout(AfterRecovery(AfterMotion(z)))))
  /\ motion' = NoResult
  /\ recovery' = "none"
  /\ timedOut' = FALSE
  /\ request' = [request EXCEPT !.polled = TRUE]
  /\ UNCHANGED <<link, rx, poll, replies, ctl, trouble, phys>>

-----------------------------------------------------------------------------
(* The environment: time, the wire and the F103 controller. The controller *)
(* is external; it answers as the handlers above expect it to.             *)

Tick ==
  /\ link.timer > 0
  /\ link' = [link EXCEPT !.timer = @ - 1]
  /\ UNCHANGED <<motion, recovery, timedOut, rx, poll, z, request, replies, ctl, trouble, phys>>

RequestLost ==
  /\ ~TxReady /\ request.polled
  /\ request' = NoFrame(TRUE)
  /\ Trouble
  /\ UNCHANGED <<link, motion, recovery, timedOut, rx, poll, z, replies, ctl, phys>>

\* A reply is damaged on the wire, or sent while the receiver is down.
ReplyLost ==
  /\ replies # <<>>
  /\ replies' = Tail(replies)
  /\ Outcome(~rx.on)
  /\ UNCHANGED <<link, motion, recovery, timedOut, rx, poll, z, request, ctl, phys>>

Answer(r) == replies' = Append(replies, r)

CtlMove(f) ==
  /\ f.cmd = "MOVE"
  /\ \/ /\ ctl.move = 0 /\ ~ctl.fault
        /\ ctl' = [ctl EXCEPT !.move = f.pulses]
        /\ \E sane \in BOOLEAN :
             /\ Answer(Reply("MOVE", "ACCEPTED", IF sane THEN Magnitude(f.pulses) ELSE 0))
             /\ Outcome(sane)
     \/ /\ UNCHANGED ctl
        /\ Answer(Reply("MOVE", "ERROR", 0))
        /\ Outcome(ctl.move # 0 \/ ctl.fault)

CtlStop(f) ==
  /\ f.cmd = "STOP"
  /\ \E ok \in BOOLEAN :
       /\ Answer(Reply("STOP", IF ok THEN "COMPLETE" ELSE "ERROR", 0))
       /\ ctl' = [ctl EXCEPT !.stopping = @ \/ (ok /\ ctl.move # 0)]
       /\ Outcome(ok)

CtlClear(f) ==
  /\ f.cmd = "CLEAR_FAULT"
  /\ ctl' = [ctl EXCEPT !.fault = @ /\ ctl.move # 0]
  /\ Answer(Reply("CLEAR_FAULT", IF ctl.move = 0 THEN "COMPLETE" ELSE "ERROR", 0))
  /\ UNCHANGED trouble

CtlQuery(f) ==
  /\ f.cmd = "QUERY_STATUS"
  /\ Answer(Reply("QUERY_STATUS",
                  IF ctl.move = 0 /\ ~ctl.fault THEN "COMPLETE" ELSE "ERROR", 0))
  /\ UNCHANGED <<ctl, trouble>>

CtlHandle ==
  /\ ~TxReady /\ request.polled /\ Len(replies) < MaxReplies
  /\ CtlMove(request) \/ CtlStop(request) \/ CtlClear(request) \/ CtlQuery(request)
  /\ request' = NoFrame(TRUE)
  /\ UNCHANGED <<link, motion, recovery, timedOut, rx, poll, z, phys>>

\* The motion ends: all steps done, stopped part way, or failed part way. phys
\* follows it only while it is of use to NoSilentDrift.
CtlFinish ==
  /\ ctl.move # 0 /\ Len(replies) < MaxReplies
  /\ \E done \in 0 .. Magnitude(ctl.move), status \in {"COMPLETE", "STOPPED", "ERROR"} :
       /\ status = "COMPLETE" => done = Magnitude(ctl.move)
       /\ status = "STOPPED" => ctl.stopping
       /\ \E steps \in IF status = "ERROR" THEN {done, MaxPulses + 1} ELSE {done} :
            Answer(Reply("MOVE", status, steps))
       /\ Outcome(status # "ERROR")
       /\ ctl' = [move |-> 0, stopping |-> FALSE, fault |-> status = "ERROR"]
       /\ phys' = IF z.valid /\ ~z.suspect
                  THEN phys + (IF ctl.move < 0 THEN -done ELSE done) ELSE phys
  /\ UNCHANGED <<link, motion, recovery, timedOut, rx, poll, z, request>>

-----------------------------------------------------------------------------
Request ==
  \E ok \in BOOLEAN :
    \/ \E delta \in Deltas : MoveRelative(delta, ok)
    \/ \E target \in 0 .. MaxPulses : MoveAbsolute(target, ok)
    \/ Stop(ok)
    \/ ClearFault(ok)

LegacyIo ==
  \/ \E ok \in BOOLEAN : RxRestart(ok)
  \/ RxRestartDone
  \/ \E ok \in BOOLEAN : LinkPollQuery(ok)
  \/ LinkPollExpired
  \/ LinkPollFault
  \/ ZPoll

Environment == Tick \/ RequestLost \/ ReplyLost \/ CtlHandle \/ CtlFinish

Next == Request \/ SetZero \/ Receive \/ UartError \/ LegacyIo \/ Environment

\* The LegacyIo loop runs every millisecond and time passes. Nothing is assumed
\* of the controller, of the wire or of the operator.
Fairness ==
  /\ WF_vars(\E ok \in BOOLEAN : LinkPollQuery(ok))
  /\ WF_vars(LinkPollExpired) /\ WF_vars(LinkPollFault) /\ WF_vars(RxRestartDone)
  /\ WF_vars(ZPoll) /\ WF_vars(Tick)

Spec == Init /\ [][Next]_vars

FairSpec == Spec /\ Fairness

-----------------------------------------------------------------------------
LinkType == [state : LinkStates, moveActive : BOOLEAN, accepted : BOOLEAN,
             requested : Deltas \cup {0}, stopAck : BOOLEAN, timer : {Off} \cup Nat]
MotionType == [unread : BOOLEAN, status : Statuses, steps : -MaxPulses .. MaxPulses]
RecoveryType == {"none", "complete", "failed"}
RxType == [ready : BOOLEAN, pending : BOOLEAN, on : BOOLEAN]
ZType == [state : ZStates, position : 0 .. MaxPulses, valid : BOOLEAN, fault : BOOLEAN,
          suspect : BOOLEAN, track : BOOLEAN]
FrameType == [cmd : Commands \cup {"NONE"}, pulses : Deltas \cup {0}, polled : BOOLEAN]
ReplyType == [cmd : Commands, status : Statuses, steps : Reported]
CtlType == [move : Deltas \cup {0}, stopping : BOOLEAN, fault : BOOLEAN]

\* Types; the position stays inside the soft limits whatever the controller
\* reports, and a reported count never leaves the range of an int32_t.
TypeOK ==
  /\ link \in LinkType /\ motion \in MotionType /\ recovery \in RecoveryType
  /\ timedOut \in BOOLEAN /\ rx \in RxType /\ poll \in {"idle", "restarted", "expired"}
  /\ z \in ZType /\ request \in FrameType /\ replies \in Seq(ReplyType)
  /\ ctl \in CtlType /\ trouble \in 0 .. MaxTrouble /\ phys \in Int

\* While no fault has been raised, a referenced axis at rest is where the
\* position counter says it is: no step is lost or counted twice by a stop, a
\* late reply or a reset of the receiver.
NoSilentDrift ==
  z.state = "IDLE" /\ z.valid /\ ~z.suspect => z.position = phys

\* Every state that waits for the controller is bounded by an armed deadline.
DeadlineArmed ==
  link.state \in LinkStates \ {"IDLE", "FAULT"} => link.timer # Off

\* An idle link owes no terminal reply: z_axis_link.c:199-202, which would publish
\* a STOPPED that arrives in IDLE, never has a move to publish.
IdleOwesNothing == link.state = "IDLE" => ~link.moveActive

\* A move counted into the position can only end inside the soft limits.
CommandWithinLimits ==
  link.moveActive /\ z.track => InLimits(z.position + link.requested)

\* An axis that has never faulted is at rest only when the controller is: a stop is
\* not over before the move it stops, whichever of their replies comes first, and
\* no new move can be sent on top of it.
RestMeansStill ==
  z.state \in {"IDLE", "UNREFERENCED"} /\ ~z.suspect =>
    ctl.move = 0 /\ request.cmd # "MOVE"

\* A transaction ends: the axis leaves STARTING, MOVING, STOPPING and RECOVERING,
\* whatever the controller and the wire do, unless stops, which restart the
\* deadline, recur for ever. (Receive errors restart it too; MaxTrouble bounds them.)
Busy == z.state \in {"STARTING", "MOVING", "STOPPING", "RECOVERING"}
Settles ==
  \/ []<><<\E ok \in BOOLEAN : Stop(ok)>>_vars
  \/ Busy ~> ~Busy

\* The axis keeps to ZPromise, on which the motion coordinator is built: whatever
\* crosses on the wire, a move starts from rest only, never out of a fault, a stop
\* or a recovery.
Phase ==
  IF z.state \in {"UNREFERENCED", "IDLE"} THEN "REST"
  ELSE IF z.state \in {"STARTING", "MOVING"} THEN "MOVING"
  ELSE z.state
Promise == INSTANCE ZPromise WITH z <- Phase
KeepsPromise == Promise!ZSpec

\* z_axis_link.c:404: the receive DMA is restarted by USART6_RxPoll, so a stopped
\* DMA always has its restart pending. An error between the re-enabled interrupts
\* and the flags that USART6_RxPoll writes last loses it for good.
RestartNotForgotten == ~rx.on /\ poll = "idle" => rx.pending
=============================================================================
