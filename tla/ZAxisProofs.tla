----------------------------- MODULE ZAxisProofs -----------------------------
(***************************************************************************)
(* Proofs about the Z axis for every travel, timeout and bound: the types, *)
(* and the conditions the link keeps through stops, recoveries, receive    *)
(* errors and deadlines that race the interrupts.                          *)
(***************************************************************************)
EXTENDS ZAxis, TLAPS

-----------------------------------------------------------------------------
(* The stages of ZAxis_Poll.                                               *)

\* A fault only changes the state and the marks that go with it.
LEMMA SetFaultType ==
  ASSUME NEW c \in ZType
  PROVE  /\ SetFault(c) \in ZType
         /\ SetFault(c).track = c.track
         /\ SetFault(c).position = c.position
BY DEF SetFault, ZType, ZStates

\* A motion result moves the counter inside the soft limits or not at all, and
\* ends the tracking of the move.
LEMMA AfterMotionType ==
  ASSUME ConstantsAssumption, NEW c \in ZType, motion \in MotionType
  PROVE  /\ AfterMotion(c) \in ZType
         /\ motion.unread => ~AfterMotion(c).track
         /\ ~motion.unread => AfterMotion(c) = c
<1>1. UntrackedResult(c) \in ZType
  BY SetFaultType DEF UntrackedResult, ZType, ZStates
<1>2. TrackedResult(c) \in ZType
  <2> DEFINE position == c.position + motion.steps
             moved == [c EXCEPT !.position = position]
  <2>1. CASE ~InLimits(position)
    BY <2>1, SetFaultType DEF TrackedResult
  <2>2. CASE InLimits(position)
    <3>1. moved \in ZType
      BY <2>2 DEF ZType, InLimits
    <3>2. SetFault(moved) \in ZType
      BY <3>1, SetFaultType
    <3>3. [moved EXCEPT !.fault = FALSE,
              !.state = IF link.state = "STOPPING" THEN "STOPPING" ELSE "IDLE"] \in ZType
      BY <3>1 DEF ZType, ZStates
    <3> QED
      BY <2>2, <3>2, <3>3 DEF TrackedResult
  <2> QED
    BY <2>1, <2>2
<1> QED
  BY <1>1, <1>2 DEF AfterMotion, ZType

\* What follows the motion result in ZAxis_Poll neither moves the counter nor
\* starts to track a move.
LEMMA AfterRecoveryType ==
  ASSUME NEW c \in ZType
  PROVE  LET d == Settled(AfterLinkFault(AfterTimeout(AfterRecovery(c))))
         IN d \in ZType /\ d.position = c.position /\ (d.track => c.track)
<1> DEFINE r == AfterRecovery(c)
           t == AfterTimeout(r)
           f == AfterLinkFault(t)
<1>1. r \in ZType /\ r.position = c.position /\ (r.track => c.track)
  BY SetFaultType DEF AfterRecovery, RestState, ZType, ZStates
<1>2. t \in ZType /\ t.position = c.position /\ (t.track => c.track)
  BY <1>1, SetFaultType DEF AfterTimeout
<1>3. f \in ZType /\ f.position = c.position /\ (f.track => c.track)
  BY <1>2, SetFaultType DEF AfterLinkFault
<1> HIDE DEF f
<1>4. Settled(f) \in ZType /\ Settled(f).position = f.position /\ Settled(f).track = f.track
  BY <1>3 DEF Settled, RestState, ZType, ZStates
<1> QED
  BY <1>3, <1>4 DEF f

-----------------------------------------------------------------------------
(* Types.                                                                  *)

\* The initial state has the right types.
LEMMA InitType == ConstantsAssumption /\ Init => TypeOK
<1> SUFFICES ASSUME ConstantsAssumption, Init PROVE TypeOK
  OBVIOUS
<1>1. link \in LinkType
  BY DEF Init, LinkType, LinkStates
<1>2. motion \in MotionType
  BY DEF Init, MotionType, NoResult, Statuses, ConstantsAssumption
<1>3. z \in ZType
  BY DEF Init, ZType, ZStates, ConstantsAssumption
<1>4. rx \in RxType
  BY DEF Init, RxType
<1>5. replies \in Seq(ReplyType)
  BY DEF Init
<1>6. request \in FrameType
  BY DEF Init, NoFrame, FrameType
<1>7. ctl \in CtlType
  BY DEF Init, CtlType
<1>8. trouble \in 0 .. MaxTrouble
  BY DEF Init, ConstantsAssumption
<1>9. recovery \in RecoveryType /\ poll \in {"idle", "restarted", "expired"}
  BY DEF Init, RecoveryType
<1>10. timedOut \in BOOLEAN
  BY DEF Init
<1>11. phys \in Int
  BY DEF Init
<1> QED
  BY <1>1, <1>2, <1>3, <1>4, <1>5, <1>6, <1>7, <1>8, <1>9, <1>10, <1>11 DEF TypeOK

\* A frame's handler leaves the link and the results it publishes well typed.
LEMMA HandleType ==
  ASSUME ConstantsAssumption, TypeOK, NEW r \in ReplyType, HandleResponse(r)
  PROVE  link' \in LinkType /\ motion' \in MotionType
         /\ recovery' \in RecoveryType
<1> USE DEF LinkType, MotionType, ReplyType, RecoveryType, LinkStates, Statuses, Off
<1>0. link \in LinkType /\ motion \in MotionType /\ recovery \in RecoveryType
  BY DEF TypeOK
<1>p. ASSUME NEW status \in Statuses, NEW steps \in Reported, PublishMotion(status, steps)
      PROVE  motion' \in MotionType
  BY <1>0, <1>p DEF PublishMotion, Reported, ConstantsAssumption
<1>a. AckTicks \in Nat /\ CompletionTicks \in Nat
  BY DEF ConstantsAssumption
<1>1. CASE OnClearReply(r)
  BY <1>0, <1>1, <1>a, ZenonT(40) DEF OnClearReply
<1>2. CASE OnQueryReply(r)
  BY <1>0, <1>2, <1>a DEF OnQueryReply
<1>3. CASE OnStopReply(r)
  BY <1>0, <1>3, <1>a DEF OnStopReply
<1>4. CASE OnAccepted(r)
  BY <1>0, <1>4, <1>a DEF OnAccepted
<1>5. CASE OnMoveEnded(r)
  BY <1>0, <1>5, <1>p DEF OnMoveEnded
<1>6. CASE OnMoveRejected(r)
  BY <1>0, <1>6, <1>p DEF OnMoveRejected
<1>7. CASE OnUnexpected(r)
  BY <1>0, <1>7, <1>p DEF OnUnexpected
<1> QED
  BY <1>1, <1>2, <1>3, <1>4, <1>5, <1>6, <1>7 DEF HandleResponse
\* Every step of the specification preserves the types.
LEMMA NextType == ConstantsAssumption /\ TypeOK /\ [Next]_vars => TypeOK'
<1> SUFFICES ASSUME ConstantsAssumption, TypeOK, [Next]_vars PROVE TypeOK'
  OBVIOUS
<1>0. /\ link \in LinkType /\ motion \in MotionType /\ z \in ZType
      /\ replies \in Seq(ReplyType)
      /\ request \in FrameType /\ ctl \in CtlType
      /\ AckTicks \in Nat /\ CompletionTicks \in Nat /\ MaxPulses \in Nat
      /\ trouble \in 0 .. MaxTrouble /\ phys \in Int /\ MaxTrouble \in Nat
  BY DEF TypeOK, ConstantsAssumption
<1>f. /\ \A cmd \in Commands, pulses \in Deltas \cup {0} : Frame(cmd, pulses) \in FrameType
      /\ \A polled \in BOOLEAN : NoFrame(polled) \in FrameType
      /\ {"MOVE", "STOP", "CLEAR_FAULT", "QUERY_STATUS"} = Commands
  BY DEF Frame, NoFrame, FrameType, Commands
<1>t. ASSUME Trouble PROVE trouble' \in 0 .. MaxTrouble
  BY <1>0, <1>t DEF Trouble
<1>o. ASSUME NEW ok \in BOOLEAN, Outcome(ok) PROVE trouble' \in 0 .. MaxTrouble
  BY <1>0, <1>o, <1>t DEF Outcome
<1>ro. ASSUME Outcome(~rx.on) PROVE trouble' \in 0 .. MaxTrouble
  BY <1>0, <1>ro, <1>t DEF Outcome
<1>r. ASSUME NEW r \in ReplyType, Answer(r) PROVE replies' \in Seq(ReplyType)
  BY <1>0, <1>r DEF Answer
<1>h. ASSUME replies # <<>>
      PROVE  Head(replies) \in ReplyType /\ Tail(replies) \in Seq(ReplyType)
  BY <1>0, <1>h
<1>m. ASSUME NEW delta \in Deltas, NEW ok \in BOOLEAN, MoveRelative(delta, ok) PROVE TypeOK'
  <2>1. link' \in LinkType
    BY <1>0, <1>m, ZenonT(40) DEF MoveRelative, LinkMove, LinkType, LinkStates, Off
  <2>2. request' \in FrameType
    <3>1. request' = Frame("MOVE", delta) \/ request' = NoFrame(FALSE)
      BY <1>m DEF MoveRelative, LinkMove
    <3> QED
      BY <3>1, <1>f
  <2>3. z' \in ZType
    BY <1>0, <1>m DEF MoveRelative, ZType, ZStates
  <2> QED
    BY <2>1, <2>2, <2>3, <1>m, <1>o DEF MoveRelative, LinkMove, TypeOK
<1>1. ASSUME NEW delta \in Deltas, NEW ok \in BOOLEAN, MoveRelative(delta, ok) PROVE TypeOK'
  BY <1>1, <1>m
<1>2. ASSUME NEW target \in 0 .. MaxPulses, NEW ok \in BOOLEAN, MoveAbsolute(target, ok)
      PROVE  TypeOK'
  <2>1. target - z.position \in Deltas
    BY <1>0, <1>2 DEF MoveAbsolute, ZType, Deltas
  <2> QED
    BY <2>1, <1>2, <1>m DEF MoveAbsolute
<1>3. ASSUME NEW ok \in BOOLEAN, Stop(ok) PROVE TypeOK'
  <2>1. link' \in LinkType
    BY <1>0, <1>3, ZenonT(40) DEF Stop, LinkType, LinkStates, Off
  <2>2. request' \in FrameType
    <3>1. request' = Frame("STOP", 0) \/ request' = NoFrame(FALSE)
      BY <1>3 DEF Stop
    <3> QED
      BY <3>1, <1>f
  <2>3. z' \in ZType
    BY <1>0, <1>3 DEF Stop, ZType, ZStates
  <2> QED
    BY <2>1, <2>2, <2>3, <1>3, <1>o DEF Stop, TypeOK
<1>4. CASE SetZero
  <2>1. z' \in ZType
    <3>1. 0 \in 0 .. MaxPulses /\ "IDLE" \in ZStates
      BY <1>0 DEF ZStates
    <3> QED
      BY <1>0, <1>4, <3>1 DEF SetZero, ZType
  <2> QED
    BY <2>1, <1>0, <1>4 DEF SetZero, TypeOK
<1>5. ASSUME NEW ok \in BOOLEAN, ClearFault(ok) PROVE TypeOK'
  <2>1. link' \in LinkType
    BY <1>0, <1>5 DEF ClearFault, LinkType, LinkStates, Off
  <2>2. request' \in FrameType
    BY <1>5, <1>f DEF ClearFault
  <2>3. z' \in ZType
    BY <1>0, <1>5 DEF ClearFault, ZType, ZStates
  <2> QED
    BY <2>1, <2>2, <2>3, <1>5, <1>o DEF ClearFault, TypeOK
<1>6. CASE Receive
  <2>1. link' \in LinkType /\ motion' \in MotionType
        /\ recovery' \in RecoveryType
    BY <1>6, <1>h, HandleType DEF Receive
  <2>2. replies' \in Seq(ReplyType)
    BY <1>6, <1>h DEF Receive
  <2> QED
    BY <2>1, <2>2, <1>6 DEF Receive, TypeOK
<1>7. CASE UartError
  <2>1. link' \in LinkType
    BY <1>0, <1>7 DEF UartError, LinkType
  <2> QED
    BY <2>1, <1>7, <1>t DEF UartError, TypeOK, RxType
<1>8. ASSUME NEW ok \in BOOLEAN, RxRestart(ok) PROVE TypeOK'
  BY <1>8, <1>o DEF RxRestart, TypeOK, RxType
<1>9. CASE RxRestartDone
  BY <1>9 DEF RxRestartDone, TypeOK, RxType
<1>10. ASSUME NEW ok \in BOOLEAN, LinkPollQuery(ok) PROVE TypeOK'
  <2>1. link' \in LinkType
    BY <1>0, <1>10 DEF LinkPollQuery, LinkType, LinkStates, Off
  <2>2. request' \in FrameType
    <3>1. request' = Frame("QUERY_STATUS", 0) \/ request' = request
      BY <1>10 DEF LinkPollQuery
    <3> QED
      BY <3>1, <1>0, <1>f
  <2> QED
    BY <2>1, <2>2, <1>10, <1>o DEF LinkPollQuery, TypeOK, RecoveryType
<1>11. CASE LinkPollExpired
  BY <1>11 DEF LinkPollExpired, TypeOK
<1>12. CASE LinkPollFault
  <2>1. link' \in LinkType
    BY <1>0, <1>12 DEF LinkPollFault, LinkType, LinkStates, Off
  <2> QED
    BY <2>1, <1>12 DEF LinkPollFault, TypeOK
<1>13. CASE ZPoll
  <2>1. z' \in ZType
    BY <1>0, <1>13, AfterMotionType, AfterRecoveryType DEF ZPoll
  <2>2. motion' \in MotionType
    BY <1>0, <1>13 DEF ZPoll, NoResult, MotionType, Statuses
  <2>3. request' \in FrameType
    BY <1>0, <1>13 DEF ZPoll, FrameType
  <2> QED
    BY <2>1, <2>2, <2>3, <1>13 DEF ZPoll, TypeOK, RecoveryType
<1>14. CASE Tick
  <2>1. link' \in LinkType
    BY <1>0, <1>14, SMTT(30) DEF Tick, LinkType, Off
  <2> QED
    BY <2>1, <1>14 DEF Tick, TypeOK
<1>15. CASE RequestLost
  BY <1>15, <1>f, <1>t DEF RequestLost, TypeOK
<1>16. CASE ReplyLost
  BY <1>16, <1>h, <1>ro DEF ReplyLost, TypeOK
<1>17. CASE CtlHandle
  <2> DEFINE Goal == /\ replies' \in Seq(ReplyType) /\ ctl' \in CtlType
                     /\ trouble' \in 0 .. MaxTrouble
  <2>0. ctl \in CtlType /\ request.pulses \in Deltas \cup {0}
    BY <1>0 DEF FrameType
  <2>s. Magnitude(request.pulses) \in Reported /\ 0 \in Reported
    BY <2>0, <1>0 DEF Magnitude, Deltas, Reported
  <2>1. ASSUME CtlMove(request) PROVE Goal
    <3>1. ctl' \in CtlType
      BY <2>1, <2>0 DEF CtlMove, CtlType
    <3>2. /\ \A sane \in BOOLEAN :
                Reply("MOVE", "ACCEPTED",
                      IF sane THEN Magnitude(request.pulses) ELSE 0) \in ReplyType
          /\ Reply("MOVE", "ERROR", 0) \in ReplyType
      BY <2>s DEF Reply, ReplyType, Commands, Statuses
    <3>3. replies' \in Seq(ReplyType)
      BY <2>1, <3>2, <1>r DEF CtlMove
    <3>4. trouble' \in 0 .. MaxTrouble
      <4>1. (ctl.move # 0 \/ ctl.fault) \in BOOLEAN
        BY <2>0 DEF CtlType
      <4> QED
        BY <2>1, <1>o, <4>1 DEF CtlMove
    <3> QED
      BY <3>1, <3>3, <3>4
  <2>2. ASSUME CtlStop(request) PROVE Goal
    <3>1. ctl' \in CtlType
      BY <2>2, <2>0 DEF CtlStop, CtlType
    <3>2. \A ok \in BOOLEAN :
            Reply("STOP", IF ok THEN "COMPLETE" ELSE "ERROR", 0) \in ReplyType
      BY <2>s DEF Reply, ReplyType, Commands, Statuses
    <3> QED
      BY <2>2, <3>1, <3>2, <1>r, <1>o DEF CtlStop
  <2>3. ASSUME CtlClear(request) PROVE Goal
    <3>1. Reply("CLEAR_FAULT", IF ctl.move = 0 THEN "COMPLETE" ELSE "ERROR", 0) \in ReplyType
      BY <2>s DEF Reply, ReplyType, Commands, Statuses
    <3> QED
      BY <2>3, <2>0, <3>1, <1>0, <1>r DEF CtlClear, CtlType
  <2>4. ASSUME CtlQuery(request) PROVE Goal
    <3>1. Reply("QUERY_STATUS", IF ctl.move = 0 /\ ~ctl.fault THEN "COMPLETE" ELSE "ERROR", 0)
            \in ReplyType
      BY <2>s DEF Reply, ReplyType, Commands, Statuses
    <3> QED
      BY <2>4, <2>0, <3>1, <1>0, <1>r DEF CtlQuery
  <2>5. Goal
    BY <1>17, <2>1, <2>2, <2>3, <2>4 DEF CtlHandle
  <2>6. request' \in FrameType
    BY <1>17, <1>f DEF CtlHandle
  <2> QED
    BY <2>5, <2>6, <1>17 DEF CtlHandle, TypeOK
<1>18. CASE CtlFinish
  <2> PICK done \in 0 .. Magnitude(ctl.move), status \in {"COMPLETE", "STOPPED", "ERROR"} :
        /\ \E steps \in IF status = "ERROR" THEN {done, MaxPulses + 1} ELSE {done} :
             Answer(Reply("MOVE", status, steps))
        /\ Outcome(status # "ERROR")
        /\ ctl' = [move |-> 0, stopping |-> FALSE, fault |-> status = "ERROR"]
        /\ phys' = IF z.valid /\ ~z.suspect
                   THEN phys + (IF ctl.move < 0 THEN -done ELSE done) ELSE phys
    BY <1>18 DEF CtlFinish
  <2>1. done \in 0 .. MaxPulses
    BY <1>0 DEF Magnitude, Deltas, CtlType
  <2>2. \A steps \in {done, MaxPulses + 1} : Reply("MOVE", status, steps) \in ReplyType
    BY <2>1, <1>0 DEF Reply, ReplyType, Commands, Statuses, Reported
  <2>3. replies' \in Seq(ReplyType)
    BY <2>2, <1>r
  <2>4. trouble' \in 0 .. MaxTrouble
    BY <1>o
  <2>5. phys' \in Int
    BY <2>1, <1>0
  <2>6. ctl' \in CtlType
    BY DEF CtlType
  <2> QED
    BY <2>3, <2>4, <2>5, <2>6, <1>18 DEF CtlFinish, TypeOK
<1>19. CASE UNCHANGED vars
  BY <1>19 DEF vars, TypeOK
<1> QED
  BY <1>1, <1>2, <1>3, <1>4, <1>5, <1>6, <1>7, <1>8, <1>9, <1>10, <1>11, <1>12, <1>13,
     <1>14, <1>15, <1>16, <1>17, <1>18, <1>19
  DEF Next, Request, LegacyIo, Environment
\* In every reachable state the position is inside the soft limits, the counts are
\* in range and every field has its type.
THEOREM TypeCorrect == Spec => []TypeOK
<1>1. Init => TypeOK
  BY InitType, ConstantsAssumption
<1>2. TypeOK /\ [Next]_vars => TypeOK'
  BY NextType, ConstantsAssumption
<1> QED
  BY <1>1, <1>2, PTL DEF Spec

-----------------------------------------------------------------------------
(* Deadlines, debts and limits. IdleOwesNothing is not inductive: a        *)
(* recovery ends in IDLE too, so a recovery must not owe a reply either.   *)

RecoveryOwesNothing ==
  link.state \in {"WAIT_CLEAR_FAULT", "RECOVERY_VERIFY", "WAIT_QUERY_STATUS"} =>
    ~link.moveActive

LinkInv == DeadlineArmed /\ IdleOwesNothing /\ RecoveryOwesNothing

\* Each frame keeps the deadline armed exactly while something is awaited and
\* leaves no debt behind in IDLE.
LEMMA HandleLink ==
  ASSUME ConstantsAssumption, link \in LinkType, LinkInv, NEW r, HandleResponse(r)
  PROVE  LinkInv'
<1> USE DEF LinkInv, DeadlineArmed, IdleOwesNothing, RecoveryOwesNothing, LinkType,
            LinkStates, Off
<1>0. AckTicks # Off /\ CompletionTicks # Off
  BY DEF ConstantsAssumption
<1>1. CASE OnClearReply(r)
  BY <1>0, <1>1 DEF OnClearReply
<1>2. CASE OnQueryReply(r)
  BY <1>2 DEF OnQueryReply
<1>3. CASE OnStopReply(r)
  BY <1>0, <1>3 DEF OnStopReply
<1>4. CASE OnAccepted(r)
  BY <1>0, <1>4 DEF OnAccepted
<1>5. CASE OnMoveEnded(r)
  BY <1>5 DEF OnMoveEnded
<1>6. CASE OnMoveRejected(r)
  BY <1>6 DEF OnMoveRejected
<1>7. CASE OnUnexpected(r)
  BY <1>7 DEF OnUnexpected
<1> QED
  BY <1>1, <1>2, <1>3, <1>4, <1>5, <1>6, <1>7 DEF HandleResponse

\* Every step of the specification keeps LinkInv.
LEMMA NextLink ==
  ASSUME ConstantsAssumption, TypeOK, LinkInv, [Next]_vars
  PROVE  LinkInv'
<1> USE DEF LinkInv, DeadlineArmed, IdleOwesNothing, RecoveryOwesNothing, LinkStates, Off
<1>0. link \in LinkType /\ AckTicks # Off /\ CompletionTicks # Off
  BY DEF TypeOK, ConstantsAssumption
<1>m. ASSUME NEW delta, NEW ok \in BOOLEAN, MoveRelative(delta, ok) PROVE LinkInv'
  <2>1. /\ link'.state = IF ok THEN "WAIT_ACCEPT" ELSE "IDLE"
        /\ link'.moveActive = ok
        /\ ok => link'.timer = AckTicks
    BY <1>0, <1>m DEF MoveRelative, LinkMove, LinkType
  <2> QED
    BY <2>1, <1>0
<1>1. ASSUME NEW delta \in Deltas, NEW ok \in BOOLEAN, MoveRelative(delta, ok) PROVE LinkInv'
  BY <1>1, <1>m
<1>2. ASSUME NEW target \in 0 .. MaxPulses, NEW ok \in BOOLEAN, MoveAbsolute(target, ok)
      PROVE  LinkInv'
  BY <1>2, <1>m DEF MoveAbsolute
<1>3. ASSUME NEW ok \in BOOLEAN, Stop(ok) PROVE LinkInv'
  BY <1>0, <1>3, ZenonT(40) DEF Stop, LinkType
<1>4. ASSUME NEW ok \in BOOLEAN, ClearFault(ok) PROVE LinkInv'
  BY <1>0, <1>4 DEF ClearFault, LinkType
<1>5. CASE Receive
  BY <1>0, <1>5, HandleLink DEF Receive
<1>6. CASE UartError
  BY <1>0, <1>6 DEF UartError, LinkType
<1>7. ASSUME NEW ok \in BOOLEAN, LinkPollQuery(ok) PROVE LinkInv'
  BY <1>0, <1>7 DEF LinkPollQuery, QueryDue, LinkType
<1>8. CASE LinkPollFault
  BY <1>0, <1>8 DEF LinkPollFault, LinkType
<1>9. CASE Tick
  BY <1>0, <1>9 DEF Tick, LinkType
<1>10. ASSUME UNCHANGED link PROVE LinkInv'
  BY <1>10
<1>11. CASE SetZero \/ RxRestartDone \/ LinkPollExpired \/ ZPoll \/ UNCHANGED vars
  BY <1>10, <1>11 DEF SetZero, RxRestartDone, LinkPollExpired, ZPoll, vars
<1>12. CASE (\E ok \in BOOLEAN : RxRestart(ok)) \/ RequestLost \/ ReplyLost
            \/ CtlHandle \/ CtlFinish
  BY <1>10, <1>12 DEF RxRestart, RequestLost, ReplyLost, CtlHandle, CtlFinish
<1> QED
  BY <1>1, <1>2, <1>3, <1>4, <1>5, <1>6, <1>7, <1>8, <1>9, <1>11, <1>12
  DEF Next, Request, LegacyIo, Environment

\* The link never waits without a deadline, whatever replies, stops, receive errors
\* and recoveries it has seen and however the poll was interrupted.
THEOREM AlwaysArmed == Spec => []DeadlineArmed
<1>1. Init => LinkInv
  BY DEF Init, LinkInv, DeadlineArmed, IdleOwesNothing, RecoveryOwesNothing
<1>2. TypeOK /\ LinkInv /\ [Next]_vars => LinkInv'
  BY NextLink, ConstantsAssumption
<1>3. LinkInv => DeadlineArmed
  BY DEF LinkInv
<1> QED
  BY <1>1, <1>2, <1>3, TypeCorrect, PTL DEF Spec

\* A link in IDLE has no terminal reply outstanding, also after a recovery.
THEOREM NoDebtInIdle == Spec => []IdleOwesNothing
<1>1. Init => LinkInv
  BY DEF Init, LinkInv, DeadlineArmed, IdleOwesNothing, RecoveryOwesNothing
<1>2. TypeOK /\ LinkInv /\ [Next]_vars => LinkInv'
  BY NextLink, ConstantsAssumption
<1>3. LinkInv => IdleOwesNothing
  BY DEF LinkInv
<1> QED
  BY <1>1, <1>2, <1>3, TypeCorrect, PTL DEF Spec

\* A step keeps the active move inside the soft limits.
LEMMA NextLimits ==
  ASSUME ConstantsAssumption, TypeOK, IdleOwesNothing, CommandWithinLimits, [Next]_vars
  PROVE  CommandWithinLimits'
<1> USE DEF CommandWithinLimits
<1>0. link \in LinkType /\ z \in ZType /\ motion \in MotionType
  BY DEF TypeOK
<1>s. ASSUME UNCHANGED <<link, z>> PROVE CommandWithinLimits'
  BY <1>s
<1>m. ASSUME NEW delta, NEW ok \in BOOLEAN, MoveRelative(delta, ok)
      PROVE  CommandWithinLimits'
  <2>1. CASE ok
    <3>1. link'.requested = delta
      BY <1>0, <1>m, <2>1 DEF MoveRelative, LinkMove, LinkType
    <3>2. z'.position = z.position /\ z'.track = z.valid
      BY <1>0, <1>m, <2>1 DEF MoveRelative, ZType
    <3>3. z.valid => InLimits(z.position + delta)
      BY <1>m DEF MoveRelative, Permitted
    <3> QED
      BY <3>1, <3>2, <3>3
  <2>2. CASE ~ok
    <3>1. ~link'.moveActive
      BY <1>0, <1>m, <2>2 DEF MoveRelative, LinkMove, LinkType
    <3> QED
      BY <3>1
  <2> QED
    BY <2>1, <2>2
<1>1. ASSUME NEW delta \in Deltas, NEW ok \in BOOLEAN, MoveRelative(delta, ok)
      PROVE  CommandWithinLimits'
  BY <1>1, <1>m
<1>2. ASSUME NEW target \in 0 .. MaxPulses, NEW ok \in BOOLEAN, MoveAbsolute(target, ok)
      PROVE  CommandWithinLimits'
  BY <1>2, <1>m DEF MoveAbsolute
<1>3. ASSUME NEW ok \in BOOLEAN, Stop(ok) PROVE CommandWithinLimits'
  BY <1>0, <1>3 DEF Stop, LinkType, ZType
<1>4. CASE SetZero
  BY <1>0, <1>4 DEF SetZero, IdleOwesNothing
<1>5. ASSUME NEW ok \in BOOLEAN, ClearFault(ok) PROVE CommandWithinLimits'
  BY <1>0, <1>5 DEF ClearFault, LinkType
<1>6. CASE Receive
  <2>1. UNCHANGED z /\ (link'.moveActive => link.moveActive)
        /\ link'.requested = link.requested
    BY <1>0, <1>6, ZenonT(40) DEF Receive, HandleResponse, OnClearReply, OnQueryReply, OnStopReply,
         OnAccepted, OnMoveEnded, OnMoveRejected, OnUnexpected, LinkType
  <2> QED
    BY <2>1
<1>7. CASE UartError
  BY <1>0, <1>7 DEF UartError, LinkType
<1>8. ASSUME NEW ok \in BOOLEAN, LinkPollQuery(ok) PROVE CommandWithinLimits'
  BY <1>0, <1>8 DEF LinkPollQuery, LinkType
<1>9. CASE LinkPollFault
  BY <1>0, <1>9 DEF LinkPollFault, LinkType
<1>10. CASE ZPoll
  <2> DEFINE m == AfterMotion(z)
  <2>1. m \in ZType /\ (motion.unread => ~m.track) /\ (~motion.unread => m = z)
    BY <1>0, AfterMotionType
  <2> HIDE DEF m
  <2>2. z'.position = m.position /\ (z'.track => m.track) /\ UNCHANGED link
    BY <1>10, <2>1, AfterRecoveryType DEF ZPoll, m
  <2> QED
    BY <2>1, <2>2
<1>11. CASE Tick
  BY <1>0, <1>11 DEF Tick, LinkType
<1>12. CASE RxRestartDone \/ LinkPollExpired \/ UNCHANGED vars
  BY <1>s, <1>12 DEF RxRestartDone, LinkPollExpired, vars
<1>13. CASE (\E ok \in BOOLEAN : RxRestart(ok)) \/ RequestLost \/ ReplyLost
            \/ CtlHandle \/ CtlFinish
  BY <1>s, <1>13 DEF RxRestart, RequestLost, ReplyLost, CtlHandle, CtlFinish
<1> QED
  BY <1>1, <1>2, <1>3, <1>4, <1>5, <1>6, <1>7, <1>8, <1>9, <1>10, <1>11, <1>12, <1>13
  DEF Next, Request, LegacyIo, Environment

\* A move that will be counted can only end inside the soft limits, even if the
\* counter was moved or zeroed since it was permitted.
THEOREM AlwaysWithinLimits == Spec => []CommandWithinLimits
<1>1. Init => CommandWithinLimits
  BY DEF Init, CommandWithinLimits
<1>2. TypeOK /\ IdleOwesNothing /\ CommandWithinLimits /\ [Next]_vars
        => CommandWithinLimits'
  BY NextLimits, ConstantsAssumption
<1> QED
  BY <1>1, <1>2, TypeCorrect, NoDebtInIdle, PTL DEF Spec

-----------------------------------------------------------------------------
(***************************************************************************)
(* The motion. As long as no fault has been raised, the controller, the    *)
(* wire, the link and the position layer agree on the one move that is     *)
(* going on: so an axis at rest stands still, and where the counter says   *)
(* it is.                                                                  *)
(***************************************************************************)

Resting == z.state \in {"UNREFERENCED", "IDLE"}
Working == z.state \in {"STARTING", "MOVING", "STOPPING"}

IsAck(r) == r.cmd = "MOVE" /\ r.status = "ACCEPTED"
IsEnd(r) == r.cmd = "MOVE" /\ r.status # "ACCEPTED"
Done(r) == r.cmd = "MOVE" /\ r.status \in {"COMPLETE", "STOPPED"}

\* Of a sequence of replies.
NoMove(q) == \A i \in 1 .. Len(q) : q[i].cmd # "MOVE"
NoAck(q) == \A i \in 1 .. Len(q) : ~IsAck(q[i])
NoEnd(q) == \A i \in 1 .. Len(q) : ~IsEnd(q[i])
InOrder(q) ==
  \A i, j \in 1 .. Len(q) :
    (i < j /\ q[i].cmd = "MOVE" /\ q[j].cmd = "MOVE") => IsAck(q[i]) /\ IsEnd(q[j])

Signed(requested, steps) == IF requested < 0 THEN -steps ELSE steps

\* What a reply reports as done is the distance that has not been counted yet.
Reports(q, requested, distance) ==
  \A i \in 1 .. Len(q) : Done(q[i]) => distance = Signed(requested, q[i].steps)

NoneOut == request.cmd # "MOVE" /\ ctl.move = 0 /\ NoMove(replies)

\* There is one move at a time: on its way to the controller, going on there, or ended
\* with its replies on the wire, ACCEPTED before the terminal one.
OneMove ==
  /\ request.cmd = "MOVE" => ctl.move = 0 /\ NoMove(replies)
  /\ ctl.move # 0 => NoEnd(replies)
  /\ InOrder(replies)

\* The link knows of it, the position layer is at work as long as the link waits for it
\* or its result is unread, and no ACCEPTED comes after the one that the link has had.
Owed ==
  /\ NoneOut \/ link.moveActive
  /\ link.moveActive \/ motion.unread => Working
  /\ motion.unread => ~link.moveActive
  /\ request.cmd = "MOVE" \/ ~NoAck(replies) => ~link.accepted

\* Where the distance between the counter and the axis is accounted for.
Counted ==
  /\ link.moveActive \/ motion.unread => z.track = z.valid
  /\ request.cmd = "MOVE" => request.pulses = link.requested
  /\ ctl.move # 0 => ctl.move = link.requested
  /\ z.valid =>
       /\ request.cmd = "MOVE" \/ ctl.move # 0 => phys = z.position
       /\ Reports(replies, link.requested, phys - z.position)
       /\ motion.unread /\ Succeeded => phys = z.position + motion.steps
       /\ ~link.moveActive /\ ~motion.unread => phys = z.position

\* Recoveries only come after a fault.
NotRecovering ==
  /\ z.state \notin {"FAULT", "RECOVERING"}
  /\ link.state \notin {"WAIT_CLEAR_FAULT", "RECOVERY_VERIFY", "WAIT_QUERY_STATUS"}
  /\ recovery = "none"

Agreed == OneMove /\ Owed /\ Counted /\ NotRecovering

\* A fault has been raised, or the next poll cannot but raise it: a transmission that
\* failed has put the link in FAULT under a working axis, and no request can come before.
Doomed ==
  \/ z.suspect
  \/ link.state = "FAULT" /\ request.cmd = "NONE" /\ ~request.polled /\ Working

MotionInv == Doomed \/ Agreed

-----------------------------------------------------------------------------
(* Sequences of replies.                                                   *)

\* Taking the first reply from the wire.
LEMMA TailFacts ==
  ASSUME NEW q \in Seq(ReplyType), q # <<>>
  PROVE  /\ NoMove(q) => NoMove(Tail(q))
         /\ NoEnd(q) => NoEnd(Tail(q))
         /\ NoAck(q) => NoAck(Tail(q))
         /\ InOrder(q) => InOrder(Tail(q))
         /\ InOrder(q) /\ IsEnd(Head(q)) => NoMove(Tail(q))
         /\ InOrder(q) /\ IsAck(Head(q)) => NoAck(Tail(q))
         /\ \A requested, distance :
              Reports(q, requested, distance) => Reports(Tail(q), requested, distance)
<1> DEFINE t == Tail(q)
<1>1. Len(q) \in Nat \ {0} /\ Len(t) = Len(q) - 1 /\ Head(q) = q[1]
  OBVIOUS
<1>2. \A i \in 1 .. Len(t) : t[i] = q[i + 1]
  OBVIOUS
<1> HIDE DEF t
<1>3. \A i \in 1 .. Len(t) : i + 1 \in 1 .. Len(q) /\ 1 < i + 1 /\ 1 \in 1 .. Len(q)
  BY <1>1
<1>4. (NoMove(q) => NoMove(t)) /\ (NoEnd(q) => NoEnd(t)) /\ (NoAck(q) => NoAck(t))
  BY <1>2, <1>3 DEF NoMove, NoEnd, NoAck
<1>5. InOrder(q) => InOrder(t)
  <2> SUFFICES ASSUME InOrder(q), NEW i \in 1 .. Len(t), NEW j \in 1 .. Len(t),
                      i < j, t[i].cmd = "MOVE", t[j].cmd = "MOVE"
               PROVE  IsAck(t[i]) /\ IsEnd(t[j])
    BY DEF InOrder
  <2>1. i + 1 < j + 1 /\ i + 1 \in 1 .. Len(q) /\ j + 1 \in 1 .. Len(q)
    BY <1>3
  <2>2. t[i] = q[i + 1] /\ t[j] = q[j + 1]
    BY <1>2
  <2> QED BY <2>1, <2>2 DEF InOrder
<1>6. ASSUME InOrder(q), NEW i \in 1 .. Len(t), Head(q).cmd = "MOVE", t[i].cmd = "MOVE"
      PROVE  IsAck(Head(q)) /\ IsEnd(t[i])
  <2>1. t[i] = q[i + 1] /\ i + 1 \in 1 .. Len(q) /\ 1 < i + 1 /\ 1 \in 1 .. Len(q)
    BY <1>2, <1>3
  <2> QED BY <1>1, <1>6, <2>1 DEF InOrder
<1>7. InOrder(q) /\ IsEnd(Head(q)) => NoMove(t)
  BY <1>6 DEF NoMove, IsEnd, IsAck
<1>8. InOrder(q) /\ IsAck(Head(q)) => NoAck(t)
  BY <1>6 DEF NoAck, IsEnd, IsAck
<1>9. ASSUME NEW requested, NEW distance, Reports(q, requested, distance)
      PROVE  Reports(t, requested, distance)
  BY <1>2, <1>3, <1>9 DEF Reports
<1> QED BY <1>4, <1>5, <1>7, <1>8, <1>9 DEF t

\* A reply to anything but a MOVE.
LEMMA AppendOther ==
  ASSUME NEW q \in Seq(ReplyType), NEW r \in ReplyType, r.cmd # "MOVE"
  PROVE  LET t == Append(q, r)
         IN /\ NoMove(q) => NoMove(t)
            /\ NoEnd(q) => NoEnd(t)
            /\ NoAck(q) => NoAck(t)
            /\ InOrder(q) => InOrder(t)
            /\ \A requested, distance :
                 Reports(q, requested, distance) => Reports(t, requested, distance)
<1> DEFINE t == Append(q, r)
<1>1. Len(q) \in Nat /\ Len(t) = Len(q) + 1
  OBVIOUS
<1>2. \A i \in 1 .. Len(t) : (i \in 1 .. Len(q) /\ t[i] = q[i]) \/ t[i] = r
  OBVIOUS
<1> HIDE DEF t
<1>3. (NoMove(q) => NoMove(t)) /\ (NoEnd(q) => NoEnd(t)) /\ (NoAck(q) => NoAck(t))
  BY <1>2 DEF NoMove, NoEnd, NoAck, IsEnd, IsAck
<1>4. InOrder(q) => InOrder(t)
  BY <1>2 DEF InOrder
<1>5. ASSUME NEW requested, NEW distance, Reports(q, requested, distance)
      PROVE  Reports(t, requested, distance)
  BY <1>2, <1>5 DEF Reports, Done
<1> QED BY <1>3, <1>4, <1>5 DEF t

\* A reply to a MOVE, after no other that ends one.
LEMMA AppendMove ==
  ASSUME NEW q \in Seq(ReplyType), NEW r \in ReplyType, r.cmd = "MOVE"
  PROVE  LET t == Append(q, r)
         IN /\ NoMove(q) => InOrder(t)
            /\ NoMove(q) /\ IsAck(r) => NoEnd(t)
            /\ IsEnd(r) /\ InOrder(q) /\ NoEnd(q) => InOrder(t)
            /\ IsEnd(r) /\ NoAck(q) => NoAck(t)
            /\ \A requested, distance :
                 NoEnd(q) /\ (Done(r) => distance = Signed(requested, r.steps))
                   => Reports(t, requested, distance)
<1> DEFINE t == Append(q, r)
<1>1. Len(q) \in Nat /\ Len(t) = Len(q) + 1
  OBVIOUS
<1>a. t[Len(q) + 1] = r /\ \A i \in 1 .. Len(q) : t[i] = q[i]
  OBVIOUS
<1> HIDE DEF t
<1>b. \A i \in 1 .. Len(t) : i \in 1 .. Len(q) \/ i = Len(q) + 1
  BY <1>1
<1>2. \A i \in 1 .. Len(t) : (i \in 1 .. Len(q) /\ t[i] = q[i]) \/ (i = Len(q) + 1 /\ t[i] = r)
  BY <1>a, <1>b
<1>3. NoMove(q) => InOrder(t)
  BY <1>1, <1>2 DEF NoMove, InOrder
<1>4. NoMove(q) /\ IsAck(r) => NoEnd(t)
  BY <1>2 DEF NoMove, NoEnd, IsAck, IsEnd
<1>5. IsEnd(r) /\ InOrder(q) /\ NoEnd(q) => InOrder(t)
  <2> SUFFICES ASSUME IsEnd(r), InOrder(q), NoEnd(q),
                      NEW i \in 1 .. Len(t), NEW j \in 1 .. Len(t),
                      i < j, t[i].cmd = "MOVE", t[j].cmd = "MOVE"
               PROVE  IsAck(t[i]) /\ IsEnd(t[j])
    BY DEF InOrder
  <2>1. i \in 1 .. Len(q) /\ t[i] = q[i]
    BY <1>1, <1>2
  <2>2. IsAck(t[i])
    BY <2>1 DEF NoEnd, IsAck, IsEnd
  <2>3. CASE j \in 1 .. Len(q) /\ t[j] = q[j]
    BY <2>1, <2>3 DEF InOrder
  <2>4. CASE t[j] = r
    BY <2>2, <2>4
  <2> QED BY <1>2, <2>3, <2>4
<1>6. IsEnd(r) /\ NoAck(q) => NoAck(t)
  BY <1>2 DEF NoAck, IsAck, IsEnd
<1>7. ASSUME NEW requested, NEW distance, NoEnd(q),
             Done(r) => distance = Signed(requested, r.steps)
      PROVE  Reports(t, requested, distance)
  BY <1>2, <1>7 DEF Reports, NoEnd, IsEnd, Done
<1> QED BY <1>3, <1>4, <1>5, <1>6, <1>7 DEF t

-----------------------------------------------------------------------------
(* What no longer matters stays so.                                        *)

\* A record of the position layer in which a fault has left its mark.
Marked(c) == c \in ZType /\ (c.state = "FAULT" => c.suspect)

LEMMA SetFaultMarks ==
  ASSUME NEW c, Marked(c) PROVE Marked(SetFault(c)) /\ SetFault(c).suspect
<1>1. CASE c.state = "FAULT"
  BY <1>1 DEF SetFault, Marked
<1>2. CASE c.state # "FAULT"
  BY <1>2, SetFaultType DEF SetFault, Marked, ZType
<1> QED BY <1>1, <1>2

LEMMA TrackedMarks ==
  ASSUME NEW c, Marked(c), motion \in MotionType
  PROVE  Marked(TrackedResult(c)) /\ (c.suspect => TrackedResult(c).suspect)
<1> DEFINE position == c.position + motion.steps
           moved == [c EXCEPT !.position = position]
           v == [moved EXCEPT !.fault = FALSE,
                   !.state = IF link.state = "STOPPING" THEN "STOPPING" ELSE "IDLE"]
<1>0. c \in ZType
  BY DEF Marked
<1>1. CASE ~InLimits(position)
  <2>1. TrackedResult(c) = SetFault(c)
    BY <1>1 DEF TrackedResult
  <2> QED BY <2>1, SetFaultMarks
<1>2. CASE InLimits(position)
  <2>1. moved \in ZType /\ moved.state = c.state /\ moved.suspect = c.suspect
    BY <1>0, <1>2 DEF ZType, InLimits
  <2>2. TrackedResult(c) = v \/ TrackedResult(c) = SetFault(moved)
    BY <1>2 DEF TrackedResult
  <2>3. Marked(moved)
    BY <2>1 DEF Marked
  <2> HIDE DEF moved
  <2>4. v \in ZType /\ v.state # "FAULT" /\ v.suspect = moved.suspect
    BY <2>1 DEF ZType, ZStates
  <2> HIDE DEF v
  <2> QED BY <2>1, <2>2, <2>3, <2>4, SetFaultMarks DEF Marked
<1> QED BY <1>1, <1>2

\* The stages of ZAxis_Poll keep the mark, and a link in FAULT leaves one.
LEMMA StagesMark ==
  ASSUME ConstantsAssumption, NEW c, Marked(c), motion \in MotionType
  PROVE  /\ Marked(AfterMotion(c)) /\ (c.suspect => AfterMotion(c).suspect)
         /\ Marked(AfterRecovery(c)) /\ (c.suspect => AfterRecovery(c).suspect)
         /\ Marked(AfterTimeout(c)) /\ (c.suspect => AfterTimeout(c).suspect)
         /\ timedOut => AfterTimeout(c).suspect
         /\ Marked(AfterLinkFault(c)) /\ (c.suspect => AfterLinkFault(c).suspect)
         /\ link.state = "FAULT" => AfterLinkFault(c).suspect
         /\ Marked(Settled(c)) /\ (c.suspect => Settled(c).suspect)
<1>1. c \in ZType
  BY DEF Marked
<1>2. /\ Marked(UntrackedResult(c)) /\ (c.suspect => UntrackedResult(c).suspect)
      /\ UntrackedResult(c) \in ZType
  <2> DEFINE u == [c EXCEPT !.fault = FALSE,
                   !.state = IF link.state = "STOPPING" THEN "STOPPING" ELSE "UNREFERENCED"]
  <2>1. u \in ZType /\ u.state # "FAULT" /\ u.suspect = c.suspect
    BY <1>1 DEF ZType, ZStates
  <2>2. UntrackedResult(c) = u \/ UntrackedResult(c) = SetFault(c)
    BY DEF UntrackedResult
  <2> HIDE DEF u
  <2> QED BY <2>1, <2>2, SetFaultMarks DEF Marked
<1>3. Marked(TrackedResult(c)) /\ (c.suspect => TrackedResult(c).suspect)
  BY TrackedMarks
<1>4. Marked(AfterMotion(c)) /\ (c.suspect => AfterMotion(c).suspect)
  <2>1. \A d : Marked(d) => /\ Marked([d EXCEPT !.track = FALSE])
                             /\ [d EXCEPT !.track = FALSE].suspect = d.suspect
    BY DEF Marked, ZType
  <2>2. \/ AfterMotion(c) = c
        \/ AfterMotion(c) = [TrackedResult(c) EXCEPT !.track = FALSE]
        \/ AfterMotion(c) = [UntrackedResult(c) EXCEPT !.track = FALSE]
    BY DEF AfterMotion
  <2> QED BY <1>2, <1>3, <2>1, <2>2
<1>5. Marked(AfterRecovery(c)) /\ (c.suspect => AfterRecovery(c).suspect)
  <2> DEFINE u == [c EXCEPT !.fault = FALSE, !.state = RestState(c), !.track = FALSE]
  <2>1. u \in ZType /\ u.state # "FAULT" /\ u.suspect = c.suspect
    BY <1>1 DEF ZType, ZStates, RestState
  <2>2. AfterRecovery(c) \in {c, u, SetFault(c)}
    BY DEF AfterRecovery
  <2> HIDE DEF u
  <2> QED BY <2>1, <2>2, SetFaultMarks DEF Marked
<1>6. Marked(Settled(c)) /\ (c.suspect => Settled(c).suspect)
  <2> DEFINE u == [c EXCEPT !.state = "MOVING"]
             v == [c EXCEPT !.state = RestState(c)]
  <2>1. /\ u \in ZType /\ u.state # "FAULT" /\ u.suspect = c.suspect
        /\ v \in ZType /\ v.state # "FAULT" /\ v.suspect = c.suspect
    BY <1>1 DEF ZType, ZStates, RestState
  <2>2. Settled(c) \in {c, u, v}
    BY DEF Settled
  <2> HIDE DEF u, v
  <2> QED BY <2>1, <2>2 DEF Marked
<1>7. /\ Marked(AfterTimeout(c)) /\ (c.suspect => AfterTimeout(c).suspect)
      /\ timedOut => AfterTimeout(c).suspect
  BY SetFaultMarks DEF AfterTimeout
<1>8. /\ Marked(AfterLinkFault(c)) /\ (c.suspect => AfterLinkFault(c).suspect)
      /\ link.state = "FAULT" => AfterLinkFault(c).suspect
  BY SetFaultMarks DEF AfterLinkFault
<1> QED BY <1>4, <1>5, <1>6, <1>7, <1>8

\* A poll takes no mark away; it marks a link in FAULT and an expired deadline, and
\* without either it only takes in the motion result.
LEMMA PollMarks ==
  ASSUME ConstantsAssumption, TypeOK, ZPoll, Marked(z)
  PROVE  /\ z.suspect \/ link.state = "FAULT" => z'.suspect
         /\ recovery = "none" /\ ~z'.suspect =>
              link.state # "FAULT" /\ z' = Settled(AfterMotion(z)) /\ ~AfterMotion(z).suspect
<1> DEFINE m == AfterMotion(z)
           r == AfterRecovery(m)
           t == AfterTimeout(r)
           f == AfterLinkFault(t)
<1>0. motion \in MotionType /\ z' = Settled(f)
  BY DEF TypeOK, ZPoll
<1>1. Marked(m) /\ (z.suspect => m.suspect)
  BY <1>0, StagesMark
<1>a. recovery = "none" => r = m
  BY DEF AfterRecovery
<1> HIDE DEF m
<1>2. Marked(r) /\ (m.suspect => r.suspect)
  BY <1>0, <1>1, StagesMark
<1>b. ~timedOut => t = r
  BY DEF AfterTimeout
<1> HIDE DEF r
<1>3. Marked(t) /\ (r.suspect \/ timedOut => t.suspect)
  BY <1>0, <1>2, StagesMark
<1>c. link.state # "FAULT" => f = t
  BY DEF AfterLinkFault
<1> HIDE DEF t
<1>4. Marked(f) /\ (t.suspect \/ link.state = "FAULT" => f.suspect)
  BY <1>0, <1>3, StagesMark
<1> HIDE DEF f
<1>5. f.suspect => z'.suspect
  BY <1>0, <1>4, StagesMark
<1> QED BY <1>0, <1>1, <1>2, <1>3, <1>4, <1>5, <1>a, <1>b, <1>c DEF m

LEMMA AllMarked == ASSUME TypeOK, MotionInv PROVE Marked(z)
BY DEF TypeOK, MotionInv, Doomed, Working, Agreed, NotRecovering, Marked

\* A fault that has been raised is remembered, and one that must be raised will be.
LEMMA DoomStays ==
  ASSUME ConstantsAssumption, TypeOK, MotionInv, Doomed, [Next]_vars
  PROVE  Doomed'
<1>0. link \in LinkType /\ z \in ZType /\ request \in FrameType /\ Marked(z)
  BY AllMarked DEF TypeOK
<1>1. CASE ZPoll
  BY <1>0, <1>1, PollMarks DEF Doomed
<1>2. CASE z.suspect /\ ~ZPoll
  <2>1. z'.suspect = z.suspect \/ z'.suspect
    <3>1. ASSUME NEW delta, NEW ok \in BOOLEAN, MoveRelative(delta, ok) PROVE z'.suspect = z.suspect
      BY <1>0, <3>1 DEF MoveRelative, ZType
    <3>2. ASSUME NEW ok \in BOOLEAN, Stop(ok) PROVE z'.suspect = z.suspect
      BY <1>0, <3>2 DEF Stop, ZType
    <3>3. ASSUME NEW ok \in BOOLEAN, ClearFault(ok) PROVE z'.suspect = z.suspect \/ z'.suspect
      BY <1>0, <3>3 DEF ClearFault, ZType
    <3>4. CASE SetZero
      BY <1>0, <3>4 DEF SetZero, ZType
    <3>5. CASE Receive \/ UartError \/ RxRestartDone \/ LinkPollExpired \/ LinkPollFault
               \/ Environment \/ UNCHANGED vars
      BY <3>5 DEF Receive, UartError, RxRestartDone, LinkPollExpired, LinkPollFault,
                  Environment, Tick, RequestLost, ReplyLost, CtlHandle, CtlFinish, vars
    <3>6. CASE \E ok \in BOOLEAN : RxRestart(ok) \/ LinkPollQuery(ok)
      BY <3>6 DEF RxRestart, LinkPollQuery
    <3> QED BY <1>2, <3>1, <3>2, <3>3, <3>4, <3>5, <3>6
            DEF Next, Request, LegacyIo, MoveAbsolute
  <2> QED BY <1>2, <2>1 DEF Doomed
<1>3. ASSUME link.state = "FAULT", request.cmd = "NONE", ~request.polled, Working, ~ZPoll
      PROVE  Doomed'
  <2>1. ~Request
    BY <1>3 DEF Request, MoveRelative, MoveAbsolute, LinkMove, Stop, ClearFault, CanSend
  <2>2. UNCHANGED <<z, request>> /\ link'.state = "FAULT"
    <3>1. CASE Receive
      <4>1. PICK r : HandleResponse(r) /\ UNCHANGED <<z, request>>
        BY <3>1 DEF Receive
      <4>2. OnUnexpected(r)
        BY <1>3, <4>1 DEF HandleResponse, OnClearReply, OnQueryReply, OnStopReply, OnAccepted,
                          OnMoveEnded, OnMoveRejected
      <4> QED BY <1>0, <1>3, <4>1, <4>2 DEF OnUnexpected, LinkType
    <3>2. CASE UartError \/ Tick \/ LinkPollFault
      BY <1>0, <1>3, <3>2 DEF UartError, Tick, LinkPollFault, LinkType
    <3>3. ~SetZero /\ ~RequestLost /\ ~CtlHandle /\ ~(\E ok \in BOOLEAN : LinkPollQuery(ok))
      BY <1>3 DEF SetZero, RequestLost, CtlHandle, LinkPollQuery, QueryDue, TxReady
    <3>4. CASE RxRestartDone \/ LinkPollExpired \/ ReplyLost \/ CtlFinish \/ UNCHANGED vars
      BY <1>3, <3>4 DEF RxRestartDone, LinkPollExpired, ReplyLost, CtlFinish, vars
    <3>5. CASE \E ok \in BOOLEAN : RxRestart(ok)
      BY <1>3, <3>5 DEF RxRestart
    <3> QED BY <1>3, <2>1, <3>1, <3>2, <3>3, <3>4, <3>5 DEF Next, LegacyIo, Environment
  <2> QED BY <1>3, <2>2 DEF Doomed, Working
<1> QED BY <1>1, <1>2, <1>3 DEF Doomed

-----------------------------------------------------------------------------
(* The steps that keep the agreement.                                      *)

\* Only the deadline, or the state of the link outside a recovery, changes.
LEMMA LinkOnly ==
  ASSUME Agreed, UNCHANGED <<motion, recovery, z, request, replies, ctl, phys>>,
         link'.moveActive = link.moveActive, link'.accepted = link.accepted,
         link'.requested = link.requested,
         link'.state \notin {"WAIT_CLEAR_FAULT", "RECOVERY_VERIFY", "WAIT_QUERY_STATUS"}
  PROVE  Agreed'
<1>1. OneMove'
  BY DEF Agreed, OneMove
<1>2. Owed'
  BY DEF Agreed, Owed, NoneOut, Working
<1>3. Counted'
  BY DEF Agreed, Counted, Succeeded
<1>4. NotRecovering'
  BY DEF Agreed, NotRecovering
<1> QED BY <1>1, <1>2, <1>3, <1>4 DEF Agreed

\* A resting axis has nothing going on.
LEMMA RestingIsClear ==
  ASSUME TypeOK, Agreed, Resting
  PROVE  NoneOut /\ ~link.moveActive /\ ~motion.unread /\ (z.valid => phys = z.position)
BY DEF Agreed, Owed, Counted, Resting, Working

LEMMA MoveAgrees ==
  ASSUME TypeOK, Agreed, NEW delta, NEW ok \in BOOLEAN, MoveRelative(delta, ok)
  PROVE  Agreed'
<1>0. /\ link \in LinkType /\ z \in ZType /\ z.state \in {"IDLE", "UNREFERENCED"}
      /\ UNCHANGED <<motion, recovery, replies, ctl, phys>>
  BY DEF MoveRelative, TypeOK
<1>1. NoneOut /\ ~link.moveActive /\ ~motion.unread /\ (z.valid => phys = z.position)
  BY <1>0, RestingIsClear DEF Resting
<1>2. link.state = "IDLE"
  BY DEF MoveRelative, LinkMove
<1>3. CASE ok
  <2>1. /\ link' = [link EXCEPT !.state = "WAIT_ACCEPT", !.moveActive = TRUE,
                        !.accepted = FALSE, !.requested = delta, !.timer = AckTicks]
        /\ request' = Frame("MOVE", delta)
        /\ z' = [z EXCEPT !.state = "STARTING", !.track = z.valid]
    BY <1>3 DEF MoveRelative, LinkMove
  <2>2. /\ link'.state = "WAIT_ACCEPT" /\ link'.moveActive /\ ~link'.accepted /\ link'.requested = delta
    BY <1>0, <2>1 DEF LinkType
  <2>3. request'.cmd = "MOVE" /\ request'.pulses = delta
    BY <2>1 DEF Frame
  <2>4. z'.state = "STARTING" /\ z'.track = z.valid /\ z'.valid = z.valid /\ z'.position = z.position
    BY <1>0, <2>1 DEF ZType
  <2>5. ctl.move = 0 /\ NoMove(replies)
    BY <1>1 DEF NoneOut
  <2>6. OneMove'
    BY <1>0, <2>5 DEF OneMove, Agreed
  <2>7. Owed'
    BY <1>0, <1>1, <2>2, <2>4 DEF Owed, Working
  <2>8. Counted'
    <3>1. Reports(replies, delta, phys - z.position)
      BY <2>5 DEF Reports, NoMove, Done
    <3>2. (z.valid => phys = z.position) /\ ~motion'.unread /\ ctl'.move = 0
      BY <1>0, <1>1, <2>5
    <3> QED BY <1>0, <2>2, <2>3, <2>4, <3>1, <3>2 DEF Counted
  <2>9. NotRecovering'
    BY <1>0, <2>2, <2>4 DEF Agreed, NotRecovering
  <2> QED BY <2>6, <2>7, <2>8, <2>9 DEF Agreed
<1>4. CASE ~ok
  <2>1. /\ link' = [link EXCEPT !.moveActive = FALSE, !.accepted = FALSE,
                        !.requested = delta, !.timer = Off]
        /\ request' = NoFrame(FALSE) /\ z' = z
    BY <1>4 DEF MoveRelative, LinkMove
  <2>2. link'.state = "IDLE" /\ ~link'.moveActive /\ ~link'.accepted /\ link'.requested = delta
    BY <1>0, <1>2, <2>1 DEF LinkType
  <2>3. request'.cmd = "NONE"
    BY <2>1 DEF NoFrame
  <2>5. ctl.move = 0 /\ NoMove(replies)
    BY <1>1 DEF NoneOut
  <2>6. OneMove'
    BY <1>0, <2>3, <2>5 DEF OneMove, Agreed
  <2>7. Owed'
    BY <1>0, <1>1, <2>2, <2>3, <2>5 DEF Owed, NoneOut
  <2>8. Counted'
    <3>1. Reports(replies, delta, phys - z.position)
      BY <2>5 DEF Reports, NoMove, Done
    <3> QED BY <1>0, <1>1, <2>1, <2>2, <2>3, <2>5, <3>1 DEF Counted
  <2>9. NotRecovering'
    BY <1>0, <2>1, <2>2 DEF Agreed, NotRecovering
  <2> QED BY <2>6, <2>7, <2>8, <2>9 DEF Agreed
<1> QED BY <1>3, <1>4

LEMMA StopAgrees ==
  ASSUME TypeOK, Agreed, NEW ok \in BOOLEAN, Stop(ok) PROVE Agreed'
<1>0. /\ link \in LinkType /\ z \in ZType /\ request.cmd = "NONE"
      /\ UNCHANGED <<motion, recovery, replies, ctl, phys>>
  BY DEF Stop, CanSend, TxReady, TypeOK
<1>1. /\ link'.moveActive = link.moveActive /\ link'.accepted = link.accepted
      /\ link'.requested = link.requested /\ link'.state \in {"STOPPING", "FAULT"}
  BY <1>0 DEF Stop, LinkType
<1>2. request'.cmd # "MOVE"
  BY DEF Stop, Frame, NoFrame
<1>3. /\ z'.track = z.track /\ z'.valid = z.valid /\ z'.position = z.position
      /\ z' = z \/ z'.state = "STOPPING"
  BY <1>0 DEF Stop, ZType
<1>4. OneMove'
  BY <1>0, <1>2 DEF Agreed, OneMove
<1>5. Owed'
  <2>1. Working => Working'
    BY <1>3 DEF Working
  <2>2. NoneOut => NoneOut'
    BY <1>0, <1>2 DEF NoneOut
  <2> QED BY <1>0, <1>1, <1>2, <2>1, <2>2 DEF Agreed, Owed
<1>6. Counted'
  BY <1>0, <1>1, <1>2, <1>3 DEF Agreed, Counted, Succeeded
<1>7. NotRecovering'
  BY <1>0, <1>1, <1>3 DEF Agreed, NotRecovering
<1> QED BY <1>4, <1>5, <1>6, <1>7 DEF Agreed

\* CLEAR_FAULT comes after a fault, or to a link in FAULT under a resting axis.
LEMMA ClearAgrees ==
  ASSUME TypeOK, Agreed, NEW ok \in BOOLEAN, ClearFault(ok) PROVE MotionInv'
<1>0. /\ link \in LinkType /\ z \in ZType /\ request.cmd = "NONE" /\ link.state = "FAULT"
      /\ UNCHANGED <<motion, recovery, replies, ctl, phys>>
  BY DEF ClearFault, CanSend, TxReady, TypeOK, Agreed, NotRecovering
<1>1. CASE ok
  BY <1>0, <1>1 DEF ClearFault, ZType, MotionInv, Doomed
<1>2. CASE ~ok
  <2>1. request'.cmd = "NONE" /\ ~request'.polled /\ z' = z
    BY <1>2 DEF ClearFault, NoFrame
  <2>2. /\ link'.state = "FAULT" /\ ~link'.moveActive /\ link'.accepted = link.accepted
        /\ link'.requested = link.requested
    BY <1>0, <1>2 DEF ClearFault, LinkType
  <2>3. CASE Working
    BY <2>1, <2>2, <2>3 DEF MotionInv, Doomed, Working
  <2>4. CASE ~Working
    <3>1. ~link.moveActive /\ ~motion.unread
      BY <2>4 DEF Agreed, Owed
    <3>2. OneMove'
      BY <1>0, <2>1 DEF Agreed, OneMove
    <3>3. Owed'
      BY <1>0, <2>1, <2>2, <3>1 DEF Agreed, Owed, NoneOut
    <3>4. Counted'
      BY <1>0, <2>1, <2>2, <3>1 DEF Agreed, Counted
    <3>5. NotRecovering'
      BY <1>0, <2>1, <2>2 DEF Agreed, NotRecovering
    <3> QED BY <3>2, <3>3, <3>4, <3>5 DEF Agreed, MotionInv
  <2> QED BY <2>3, <2>4
<1> QED BY <1>1, <1>2

LEMMA ZeroAgrees ==
  ASSUME ConstantsAssumption, TypeOK, Agreed, ~z.suspect, SetZero PROVE Agreed'
<1>0. /\ z \in ZType /\ UNCHANGED <<link, motion, recovery, request, replies, ctl>> /\ phys' = 0
  BY DEF SetZero, TypeOK
<1>1. NoneOut /\ ~link.moveActive /\ ~motion.unread
  BY RestingIsClear DEF SetZero, Resting
<1>2. z'.state = "IDLE" /\ z'.position = 0 /\ z'.valid
  BY <1>0 DEF SetZero, ZType
<1>3. OneMove'
  BY <1>0 DEF Agreed, OneMove
<1>4. Owed'
  BY <1>0, <1>1 DEF Agreed, Owed, NoneOut
<1>5. Counted'
  <2>1. Reports(replies, link.requested, 0)
    BY <1>1 DEF NoneOut, Reports, NoMove, Done
  <2>2. phys' - z'.position = 0 /\ phys' = z'.position
    BY <1>0, <1>2
  <2>3. Reports(replies', link'.requested, phys' - z'.position)
    BY <1>0, <2>1, <2>2
  <2> QED BY <1>0, <1>1, <2>2, <2>3 DEF Counted, NoneOut
<1>6. NotRecovering'
  BY <1>0, <1>2 DEF Agreed, NotRecovering
<1> QED BY <1>3, <1>4, <1>5, <1>6 DEF Agreed

\* A reply goes, and with it nothing else that counts.
LEMMA ReplyGone ==
  ASSUME TypeOK, Agreed, replies # <<>>, replies' = Tail(replies),
         UNCHANGED <<motion, recovery, z, request, ctl, phys>>,
         link'.moveActive = link.moveActive, link'.accepted = link.accepted,
         link'.requested = link.requested,
         link'.state \notin {"WAIT_CLEAR_FAULT", "RECOVERY_VERIFY", "WAIT_QUERY_STATUS"}
  PROVE  Agreed'
<1>0. replies \in Seq(ReplyType)
  BY DEF TypeOK
<1>1. /\ NoMove(replies) => NoMove(replies')
      /\ NoEnd(replies) => NoEnd(replies')
      /\ NoAck(replies) => NoAck(replies')
      /\ InOrder(replies) => InOrder(replies')
      /\ \A requested, distance :
           Reports(replies, requested, distance) => Reports(replies', requested, distance)
  BY <1>0, TailFacts
<1>2. OneMove'
  BY <1>1 DEF Agreed, OneMove
<1>3. Owed'
  <2>1. NoneOut => NoneOut'
    BY <1>1 DEF NoneOut
  <2> QED BY <1>1, <2>1 DEF Agreed, Owed, Working
<1>4. Counted'
  BY <1>1 DEF Agreed, Counted, Succeeded
<1>5. NotRecovering'
  BY DEF Agreed, NotRecovering
<1> QED BY <1>2, <1>3, <1>4, <1>5 DEF Agreed

\* The reply that ends the move is taken and its result published.
LEMMA MoveEnds ==
  ASSUME TypeOK, Agreed, replies # <<>>, replies' = Tail(replies), IsEnd(Head(replies)),
         PublishMotion(Head(replies).status, Head(replies).steps),
         Done(Head(replies)) \/ Head(replies).status = "ERROR",
         UNCHANGED <<recovery, z, request, ctl, phys>>,
         ~link'.moveActive, link'.accepted = link.accepted, link'.requested = link.requested,
         link'.state \notin {"WAIT_CLEAR_FAULT", "RECOVERY_VERIFY", "WAIT_QUERY_STATUS"}
  PROVE  Agreed'
<1> DEFINE r == Head(replies)
<1>0. /\ replies \in Seq(ReplyType) /\ r \in ReplyType /\ r = replies[1] /\ 1 \in 1 .. Len(replies)
      /\ z \in ZType /\ link \in LinkType /\ phys \in Int /\ r.cmd = "MOVE"
  BY DEF TypeOK, IsEnd
<1>1. InOrder(replies') /\ NoMove(replies')
  BY <1>0, TailFacts DEF Agreed, OneMove
<1>2. request.cmd # "MOVE" /\ ctl.move = 0 /\ link.moveActive /\ Working
  BY <1>0 DEF Agreed, OneMove, Owed, NoneOut, NoMove, NoEnd
<1>3. /\ motion'.unread
      /\ motion'.status \in {"COMPLETE", "STOPPED"} =>
           Done(r) /\ motion'.steps = Signed(link.requested, r.steps)
  BY <1>0, <1>2 DEF PublishMotion, Done, Signed
<1>4. OneMove'
  BY <1>1, <1>2 DEF OneMove
<1>5. NoneOut' /\ NoAck(replies')
  BY <1>1, <1>2 DEF NoneOut, NoMove, NoAck, IsAck
<1>6. Owed'
  BY <1>2, <1>5 DEF Owed, Working, NoneOut
<1>7. Counted'
  <2>1. z.track = z.valid
    BY <1>2 DEF Agreed, Counted
  <2>2. Reports(replies', link.requested, phys - z.position)
    BY <1>1 DEF Reports, NoMove, Done
  <2>3. ASSUME z.valid, motion'.status \in {"COMPLETE", "STOPPED"}
        PROVE  phys = z.position + motion'.steps
    <3>1. phys - z.position = Signed(link.requested, r.steps)
      BY <1>0, <1>3, <2>3 DEF Agreed, Counted, Reports
    <3>2. z.position \in Int
      BY <1>0 DEF ZType
    <3> QED BY <1>0, <1>3, <2>3, <3>1, <3>2
  <2> QED BY <1>2, <1>3, <2>1, <2>2, <2>3 DEF Counted, Succeeded
<1>8. NotRecovering'
  BY DEF Agreed, NotRecovering
<1> QED BY <1>4, <1>6, <1>7, <1>8 DEF Agreed

LEMMA ReceiveAgrees ==
  ASSUME TypeOK, Agreed, IdleOwesNothing, Receive PROVE Agreed'
<1> DEFINE r == Head(replies)
<1>0. /\ replies \in Seq(ReplyType) /\ replies # <<>> /\ r \in ReplyType /\ link \in LinkType
      /\ r = replies[1] /\ 1 \in 1 .. Len(replies)
      /\ HandleResponse(r) /\ replies' = Tail(replies) /\ UNCHANGED <<z, request, ctl, phys>>
      /\ link.state \notin {"WAIT_CLEAR_FAULT", "RECOVERY_VERIFY", "WAIT_QUERY_STATUS"}
  BY DEF Receive, TypeOK, Agreed, NotRecovering
<1>a. r.cmd = "MOVE" => /\ request.cmd # "MOVE" /\ ~NoMove(replies) /\ link.moveActive
                         /\ (IsAck(r) => ~link.accepted)
  BY <1>0 DEF Agreed, OneMove, Owed, NoneOut, NoMove, NoAck
<1> HIDE DEF r
<1>1. ASSUME UNCHANGED <<motion, recovery>>,
             link'.moveActive = link.moveActive, link'.accepted = link.accepted,
             link'.requested = link.requested,
             link'.state \notin {"WAIT_CLEAR_FAULT", "RECOVERY_VERIFY", "WAIT_QUERY_STATUS"}
      PROVE  Agreed'
  BY <1>0, <1>1, ReplyGone
<1>2. ~OnClearReply(r) /\ ~OnQueryReply(r)
  BY <1>0 DEF OnClearReply, OnQueryReply
<1>3. CASE OnStopReply(r)
  BY <1>0, <1>1, <1>3 DEF OnStopReply, LinkType
<1>4. CASE OnAccepted(r)
  <2>1. /\ link'.moveActive = link.moveActive /\ link'.requested = link.requested
        /\ link'.state \in {"FAULT", "MOVING"} /\ UNCHANGED <<motion, recovery>>
    BY <1>0, <1>4 DEF OnAccepted, LinkType
  <2>2. /\ InOrder(replies') /\ NoAck(replies') /\ (NoMove(replies) => NoMove(replies'))
        /\ (NoEnd(replies) => NoEnd(replies'))
        /\ \A requested, distance :
             Reports(replies, requested, distance) => Reports(replies', requested, distance)
    BY <1>0, <1>4, TailFacts DEF r, OnAccepted, IsAck, Agreed, OneMove
  <2>3. OneMove'
    BY <1>0, <2>2 DEF Agreed, OneMove
  <2>4. Owed'
    BY <1>0, <1>a, <1>4, <2>1, <2>2 DEF Agreed, Owed, NoneOut, Working, OnAccepted
  <2>5. Counted'
    BY <1>0, <2>1, <2>2 DEF Agreed, Counted, Succeeded
  <2>6. NotRecovering'
    BY <1>0, <2>1 DEF Agreed, NotRecovering
  <2> QED BY <2>3, <2>4, <2>5, <2>6 DEF Agreed
<1>5. CASE OnMoveEnded(r)
  <2>1. /\ ~link'.moveActive /\ link'.accepted = link.accepted /\ link'.requested = link.requested
        /\ link'.state \in {"IDLE", link.state} /\ PublishMotion(r.status, r.steps)
        /\ recovery' = recovery /\ IsEnd(r) /\ Done(r)
    BY <1>0, <1>5 DEF OnMoveEnded, LinkType, IsEnd, Done
  <2> QED BY <1>0, <2>1, MoveEnds DEF r
<1>6. CASE OnMoveRejected(r)
  <2> DEFINE published == link.accepted /\ link.state \in {"MOVING", "STOPPING"}
  <2>1. /\ link'.accepted = link.accepted /\ link'.requested = link.requested
        /\ link'.state = "FAULT" /\ recovery' = recovery /\ r.cmd = "MOVE"
        /\ r.status \in {"ERROR", "ACCEPTED"}
    BY <1>0, <1>6 DEF OnMoveRejected, LinkType
  <2>2. CASE published
    <3>1. /\ ~link'.moveActive /\ PublishMotion(r.status, r.steps)
      BY <1>0, <1>6, <2>2 DEF OnMoveRejected, LinkType
    <3>2. r.status = "ERROR" /\ IsEnd(r)
      BY <1>a, <2>1, <2>2 DEF IsAck, IsEnd
    <3> QED BY <1>0, <2>1, <3>1, <3>2, MoveEnds DEF r
  <2>3. CASE ~published
    <3>1. link'.moveActive = link.moveActive /\ motion' = motion
      BY <1>0, <1>6, <2>3 DEF OnMoveRejected, LinkType
    <3> QED BY <1>1, <2>1, <3>1
  <2> QED BY <2>2, <2>3
<1>7. CASE OnUnexpected(r)
  <2>1. ~(r.cmd = "MOVE" /\ link.state = "IDLE")
    BY <1>a DEF IdleOwesNothing
  <2>2. /\ UNCHANGED <<motion, recovery>> /\ link'.moveActive = link.moveActive
        /\ link'.accepted = link.accepted /\ link'.requested = link.requested
        /\ link'.state = link.state
    BY <1>0, <1>7, <2>1 DEF OnUnexpected, LinkType
  <2> QED BY <1>0, <1>1, <2>2
<1> QED BY <1>0, <1>2, <1>3, <1>4, <1>5, <1>6, <1>7 DEF HandleResponse

\* The position layer takes the result of the move, and rests when it is over.
LEMMA PollAgrees ==
  ASSUME ConstantsAssumption, TypeOK, Agreed, ~z.suspect, ZPoll PROVE MotionInv'
<1> DEFINE m == AfterMotion(z)
<1>0. /\ z \in ZType /\ motion \in MotionType /\ request \in FrameType /\ link \in LinkType
      /\ UNCHANGED <<link, replies, ctl, phys>> /\ ~motion'.unread /\ recovery' = "none"
      /\ request'.cmd = request.cmd /\ request'.pulses = request.pulses /\ Marked(z)
      /\ phys \in Int
  BY DEF ZPoll, TypeOK, NoResult, FrameType, Agreed, NotRecovering, Marked
<1>1. CASE z'.suspect
  BY <1>1 DEF MotionInv, Doomed
<1>2. CASE ~z'.suspect
  <2>1. z' = Settled(m) /\ ~m.suspect /\ link.state # "FAULT"
    BY <1>0, <1>2, PollMarks DEF Agreed, NotRecovering
  <2>2. /\ m \in ZType /\ m.valid = z.valid /\ m.state \notin {"FAULT", "RECOVERING"}
        /\ link.moveActive => m = z /\ ~motion.unread
        /\ z.valid /\ ~link.moveActive => phys = m.position
    <3>1. CASE ~motion.unread
      BY <1>0, <3>1 DEF AfterMotion, Agreed, Owed, Counted, NotRecovering
    <3>2. CASE motion.unread
      <4>1. ~link.moveActive /\ z.track = z.valid
        BY <3>2 DEF Agreed, Owed, Counted
      <4>2. m \in ZType
        BY <1>0, AfterMotionType
      <4>5. Marked(TrackedResult(z))
        BY <1>0, TrackedMarks
      <4>3. CASE z.track
        <5> DEFINE position == z.position + motion.steps
                   moved == [z EXCEPT !.position = position]
                   state == IF link.state = "STOPPING" THEN "STOPPING" ELSE "IDLE"
                   t == [moved EXCEPT !.fault = FALSE, !.state = state]
        <5>1. ~TrackedResult(z).suspect
          <6>1. m = [TrackedResult(z) EXCEPT !.track = FALSE]
            BY <3>2, <4>3 DEF AfterMotion
          <6>2. Marked(TrackedResult(z))
            BY <4>5
          <6> HIDE DEF m
          <6> QED BY <2>1, <6>1, <6>2 DEF Marked, ZType
        <5>2. InLimits(position)
          BY <1>0, <5>1, SetFaultMarks DEF TrackedResult
        <5>3. moved \in ZType /\ Marked(moved) /\ moved.valid = z.valid /\ moved.position = position
          BY <1>0, <5>2 DEF ZType, InLimits, Marked
        <5>4. Succeeded /\ TrackedResult(z) = t
          BY <5>1, <5>2, <5>3, SetFaultMarks DEF TrackedResult
        <5>5. state \in {"STOPPING", "IDLE"}
          OBVIOUS
        <5>6. m = [t EXCEPT !.track = FALSE]
          BY <3>2, <4>3, <5>4 DEF AfterMotion
        <5> HIDE DEF moved, state, m
        <5>7. m.valid = z.valid /\ m.state = state /\ m.position = position
          BY <5>3, <5>6 DEF ZType
        <5>8. phys = position
          BY <3>2, <4>1, <4>3, <5>4 DEF Agreed, Counted
        <5> QED BY <4>1, <4>2, <5>5, <5>7, <5>8
      <4>4. CASE ~z.track
        <5> DEFINE state == IF link.state = "STOPPING" THEN "STOPPING" ELSE "UNREFERENCED"
                   t == [z EXCEPT !.fault = FALSE, !.state = state]
        <5>1. UntrackedResult(z) = t \/ UntrackedResult(z) = SetFault(z)
          BY DEF UntrackedResult
        <5>2. m = [UntrackedResult(z) EXCEPT !.track = FALSE]
          BY <3>2, <4>4 DEF AfterMotion
        <5>3. UntrackedResult(z) # SetFault(z)
          <6>1. Marked(SetFault(z)) /\ SetFault(z).suspect
            BY <1>0, SetFaultMarks
          <6> HIDE DEF m
          <6> QED BY <2>1, <5>2, <6>1 DEF Marked, ZType
        <5>4. m = [t EXCEPT !.track = FALSE]
          BY <5>1, <5>2, <5>3
        <5>5. state \in {"STOPPING", "UNREFERENCED"}
          OBVIOUS
        <5> HIDE DEF state, m
        <5>6. m.valid = z.valid /\ m.state = state
          BY <1>0, <5>4 DEF ZType
        <5> QED BY <4>1, <4>2, <4>4, <5>5, <5>6
      <4> QED BY <4>3, <4>4
    <3> QED BY <3>1, <3>2
  <2> HIDE DEF m
  <2>3. /\ z' \in ZType /\ z'.position = m.position /\ z'.valid = m.valid /\ z'.track = m.track
        /\ z'.state \notin {"FAULT", "RECOVERING"}
        /\ link.moveActive => z'.state = m.state \/ z'.state = "MOVING"
    BY <2>1, <2>2 DEF Settled, RestState, ZType, ZStates
  <2>4. OneMove'
    BY <1>0 DEF Agreed, OneMove
  <2>5. Owed'
    BY <1>0, <2>2, <2>3 DEF Agreed, Owed, NoneOut, Working
  <2>6. Counted'
    <3>1. CASE link.moveActive
      BY <1>0, <2>2, <2>3, <3>1 DEF Agreed, Counted
    <3>2. CASE ~link.moveActive
      <4>1. NoneOut
        BY <3>2 DEF Agreed, Owed
      <4>2. Reports(replies, link.requested, phys - z'.position)
        BY <4>1 DEF NoneOut, Reports, NoMove, Done
      <4> QED BY <1>0, <2>2, <2>3, <3>2, <4>1, <4>2 DEF Counted, NoneOut
    <3> QED BY <3>1, <3>2
  <2>7. NotRecovering'
    BY <1>0, <2>3 DEF Agreed, NotRecovering
  <2> QED BY <2>4, <2>5, <2>6, <2>7 DEF Agreed, MotionInv
<1> QED BY <1>1, <1>2

LEMMA RequestLostAgrees == ASSUME Agreed, RequestLost PROVE Agreed'
<1>1. /\ request'.cmd = "NONE"
      /\ UNCHANGED <<link, motion, recovery, z, replies, ctl, phys>>
  BY DEF RequestLost, NoFrame
<1>2. OneMove'
  BY <1>1 DEF Agreed, OneMove
<1>3. Owed'
  BY <1>1 DEF Agreed, Owed, NoneOut, Working
<1>4. Counted'
  BY <1>1 DEF Agreed, Counted, Succeeded
<1>5. NotRecovering'
  BY <1>1 DEF Agreed, NotRecovering
<1> QED BY <1>2, <1>3, <1>4, <1>5 DEF Agreed

\* The controller begins the move that it is sent, or refuses it.
LEMMA CtlMoveAgrees ==
  ASSUME ConstantsAssumption, TypeOK, Agreed, CtlHandle, CtlMove(request) PROVE Agreed'
<1>0. /\ replies \in Seq(ReplyType) /\ request \in FrameType /\ ctl \in CtlType
      /\ request'.cmd = "NONE" /\ request.cmd = "MOVE"
      /\ UNCHANGED <<link, motion, recovery, z, phys>>
  BY DEF TypeOK, CtlHandle, CtlMove, NoFrame
<1>1. /\ ctl.move = 0 /\ NoMove(replies) /\ NoEnd(replies) /\ NoAck(replies)
      /\ link.moveActive /\ ~link.accepted
      /\ request.pulses = link.requested /\ (z.valid => phys = z.position)
  BY <1>0 DEF Agreed, OneMove, Owed, Counted, NoneOut, NoMove, NoEnd, NoAck, IsEnd, IsAck
<1>2. PICK r \in ReplyType :
        /\ replies' = Append(replies, r) /\ r.cmd = "MOVE"
        /\ \/ IsAck(r) /\ ctl'.move = request.pulses
           \/ IsEnd(r) /\ r.status = "ERROR" /\ ctl' = ctl
  <2>1. /\ Magnitude(request.pulses) \in Reported /\ 0 \in Reported
    BY <1>0 DEF FrameType, Magnitude, Deltas, Reported, ConstantsAssumption
  <2>2. CASE /\ ctl' = [ctl EXCEPT !.move = request.pulses]
             /\ \E sane \in BOOLEAN :
                  Answer(Reply("MOVE", "ACCEPTED", IF sane THEN Magnitude(request.pulses) ELSE 0))
    <3>1. PICK steps \in Reported : Answer(Reply("MOVE", "ACCEPTED", steps))
      BY <2>1, <2>2
    <3> DEFINE r == Reply("MOVE", "ACCEPTED", steps)
    <3>2. r \in ReplyType /\ IsAck(r) /\ r.cmd = "MOVE"
      BY DEF Reply, ReplyType, IsAck, Commands, Statuses
    <3>3. replies' = Append(replies, r)
      BY <3>1 DEF Answer
    <3>4. ctl'.move = request.pulses
      BY <1>0, <2>2 DEF CtlType
    <3> HIDE DEF r
    <3> QED BY <3>2, <3>3, <3>4
  <2>3. CASE ctl' = ctl /\ Answer(Reply("MOVE", "ERROR", 0))
    <3> DEFINE r == Reply("MOVE", "ERROR", 0)
    <3>1. r \in ReplyType /\ IsEnd(r) /\ r.cmd = "MOVE" /\ r.status = "ERROR"
      BY <2>1 DEF Reply, ReplyType, IsEnd, Commands, Statuses
    <3>2. replies' = Append(replies, r)
      BY <2>3 DEF Answer
    <3> HIDE DEF r
    <3> QED BY <2>3, <3>1, <3>2
  <2> QED BY <2>2, <2>3 DEF CtlMove
<1>3. /\ InOrder(replies') /\ (IsAck(r) => NoEnd(replies'))
      /\ Reports(replies', link.requested, phys - z.position)
  <2>1. ~Done(r)
    BY <1>2 DEF IsAck, Done
  <2> QED BY <1>0, <1>1, <1>2, <2>1, AppendMove
<1>4. OneMove'
  BY <1>0, <1>1, <1>2, <1>3 DEF OneMove
<1>5. Owed'
  BY <1>0, <1>1 DEF Agreed, Owed, Working
<1>6. Counted'
  BY <1>0, <1>1, <1>2, <1>3 DEF Agreed, Counted, Succeeded
<1>7. NotRecovering'
  BY <1>0 DEF Agreed, NotRecovering
<1> QED BY <1>4, <1>5, <1>6, <1>7 DEF Agreed

\* The controller answers anything else.
LEMMA CtlOtherAgrees ==
  ASSUME ConstantsAssumption, TypeOK, Agreed, CtlHandle,
         CtlStop(request) \/ CtlClear(request) \/ CtlQuery(request)
  PROVE  Agreed'
<1>0. /\ replies \in Seq(ReplyType) /\ ctl \in CtlType
      /\ request'.cmd = "NONE" /\ request.cmd # "MOVE"
      /\ UNCHANGED <<link, motion, recovery, z, phys>>
  BY DEF TypeOK, CtlHandle, CtlStop, CtlClear, CtlQuery, NoFrame
<1>1. ctl'.move = ctl.move
  BY <1>0 DEF CtlStop, CtlClear, CtlQuery, CtlType
<1>2. PICK r \in ReplyType : replies' = Append(replies, r) /\ r.cmd # "MOVE"
  <2>1. PICK cmd \in Commands \ {"MOVE"}, status \in Statuses : Answer(Reply(cmd, status, 0))
    BY DEF CtlStop, CtlClear, CtlQuery, Commands, Statuses
  <2>2. Reply(cmd, status, 0) \in ReplyType /\ Reply(cmd, status, 0).cmd # "MOVE"
    BY DEF Reply, ReplyType, Reported, ConstantsAssumption
  <2> QED BY <2>1, <2>2 DEF Answer
<1>3. /\ NoMove(replies) => NoMove(replies')
      /\ NoEnd(replies) => NoEnd(replies')
      /\ NoAck(replies) => NoAck(replies')
      /\ InOrder(replies) => InOrder(replies')
      /\ \A requested, distance :
           Reports(replies, requested, distance) => Reports(replies', requested, distance)
  BY <1>0, <1>2, AppendOther
<1>4. OneMove'
  BY <1>0, <1>1, <1>3 DEF Agreed, OneMove
<1>5. Owed'
  <2>1. NoneOut => NoneOut'
    BY <1>0, <1>1, <1>3 DEF NoneOut
  <2> QED BY <1>0, <1>3, <2>1 DEF Agreed, Owed, Working
<1>6. Counted'
  BY <1>0, <1>1, <1>3 DEF Agreed, Counted, Succeeded
<1>7. NotRecovering'
  BY <1>0 DEF Agreed, NotRecovering
<1> QED BY <1>4, <1>5, <1>6, <1>7 DEF Agreed

\* The motion ends, and the axis stands where the reply will say.
LEMMA FinishAgrees ==
  ASSUME ConstantsAssumption, TypeOK, Agreed, ~z.suspect, CtlFinish PROVE Agreed'
<1>0. /\ replies \in Seq(ReplyType) /\ ctl \in CtlType /\ z \in ZType /\ phys \in Int
      /\ MaxPulses \in Nat /\ ctl.move # 0
      /\ UNCHANGED <<link, motion, recovery, z, request>>
  BY DEF TypeOK, CtlFinish, ConstantsAssumption
<1>1. /\ request.cmd # "MOVE" /\ NoEnd(replies) /\ InOrder(replies) /\ link.moveActive
      /\ ~motion.unread /\ ctl.move = link.requested /\ (z.valid => phys = z.position)
  BY <1>0 DEF Agreed, OneMove, Owed, Counted, NoneOut
<1>2. PICK done \in 0 .. Magnitude(ctl.move), status \in {"COMPLETE", "STOPPED", "ERROR"} :
        /\ \E steps \in IF status = "ERROR" THEN {done, MaxPulses + 1} ELSE {done} :
             Answer(Reply("MOVE", status, steps))
        /\ ctl' = [move |-> 0, stopping |-> FALSE, fault |-> status = "ERROR"]
        /\ phys' = IF z.valid /\ ~z.suspect
                   THEN phys + (IF ctl.move < 0 THEN -done ELSE done) ELSE phys
  BY DEF CtlFinish
<1>3. done \in 0 .. MaxPulses /\ done \in Int
  BY <1>0 DEF Magnitude, Deltas, CtlType
<1>4. PICK r \in ReplyType :
        /\ replies' = Append(replies, r) /\ r.cmd = "MOVE" /\ IsEnd(r)
        /\ Done(r) => r.steps = done
  <2>1. PICK steps \in Reported : Answer(Reply("MOVE", status, steps))
                                   /\ (status # "ERROR" => steps = done)
    BY <1>0, <1>2, <1>3 DEF Reported
  <2> DEFINE r == Reply("MOVE", status, steps)
  <2>2. r \in ReplyType /\ r.cmd = "MOVE" /\ IsEnd(r) /\ (Done(r) => r.steps = done)
    BY <2>1 DEF Reply, ReplyType, IsEnd, Done, Commands, Statuses
  <2>3. replies' = Append(replies, r)
    BY <2>1 DEF Answer
  <2> HIDE DEF r
  <2> QED BY <2>2, <2>3
<1>5. ctl'.move = 0
  BY <1>2
<1>6. InOrder(replies') /\ (NoAck(replies) => NoAck(replies'))
  BY <1>0, <1>1, <1>4, AppendMove
<1>7. z.valid => Reports(replies', link.requested, phys' - z.position)
  <2> SUFFICES ASSUME z.valid PROVE Reports(replies', link.requested, phys' - z.position)
    OBVIOUS
  <2>1. phys' - z.position = Signed(link.requested, done)
    <3>1. z.position \in Int /\ phys = z.position
      BY <1>0, <1>1 DEF ZType
    <3>2. phys' = phys + (IF ctl.move < 0 THEN -done ELSE done)
      BY <1>2
    <3> QED BY <1>1, <1>3, <3>1, <3>2 DEF Signed
  <2>2. Done(r) => phys' - z.position = Signed(link.requested, r.steps)
    BY <1>4, <2>1
  <2> QED BY <1>0, <1>1, <1>4, <2>2, AppendMove
<1>8. OneMove'
  BY <1>0, <1>1, <1>5, <1>6 DEF OneMove
<1>9. Owed'
  BY <1>0, <1>1, <1>6 DEF Agreed, Owed, Working
<1>10. Counted'
  BY <1>0, <1>1, <1>5, <1>7 DEF Agreed, Counted
<1>11. NotRecovering'
  BY <1>0 DEF Agreed, NotRecovering
<1> QED BY <1>8, <1>9, <1>10, <1>11 DEF Agreed

\* The initial state has nothing to account for.
LEMMA InitAgrees == Init => MotionInv
<1> SUFFICES ASSUME Init PROVE Agreed
  BY DEF MotionInv
<1>1. replies = <<>> /\ request.cmd = "NONE" /\ ctl.move = 0
      /\ z.state = "UNREFERENCED" /\ ~z.valid /\ ~link.moveActive /\ ~link.accepted
      /\ link.state = "IDLE" /\ recovery = "none" /\ ~motion.unread
  BY DEF Init, NoFrame, NoResult
<1>2. Len(replies) = 0
  BY <1>1
<1>3. NoMove(replies) /\ NoAck(replies) /\ InOrder(replies)
  BY <1>2 DEF NoMove, NoAck, InOrder
<1> QED BY <1>1, <1>3 DEF Agreed, OneMove, Owed, NoneOut, Counted, NotRecovering

\* Every step keeps the agreement, or raises a fault, or cannot avoid one.
LEMMA NextAgrees ==
  ASSUME ConstantsAssumption, TypeOK, IdleOwesNothing, MotionInv, [Next]_vars
  PROVE  MotionInv'
<1>1. CASE Doomed
  BY <1>1, DoomStays DEF MotionInv
<1>2. CASE Agreed /\ ~z.suspect
  <2>0. link \in LinkType
    BY DEF TypeOK
  <2>1. ASSUME NEW delta, NEW ok \in BOOLEAN, MoveRelative(delta, ok) PROVE MotionInv'
    BY <1>2, <2>1, MoveAgrees DEF MotionInv
  <2>2. ASSUME NEW ok \in BOOLEAN, Stop(ok) PROVE MotionInv'
    BY <1>2, <2>2, StopAgrees DEF MotionInv
  <2>3. ASSUME NEW ok \in BOOLEAN, ClearFault(ok) PROVE MotionInv'
    BY <1>2, <2>3, ClearAgrees
  <2>4. CASE SetZero
    BY <1>2, <2>4, ZeroAgrees DEF MotionInv
  <2>5. CASE Receive
    BY <1>2, <2>5, ReceiveAgrees DEF MotionInv
  <2>6. CASE UartError \/ Tick \/ LinkPollFault
    <3>1. /\ UNCHANGED <<motion, recovery, z, request, replies, ctl, phys>>
          /\ link'.moveActive = link.moveActive /\ link'.accepted = link.accepted
          /\ link'.requested = link.requested /\ link'.state \in {link.state, "FAULT"}
      BY <2>0, <2>6 DEF UartError, Tick, LinkPollFault, LinkType
    <3>2. link'.state \notin {"WAIT_CLEAR_FAULT", "RECOVERY_VERIFY", "WAIT_QUERY_STATUS"}
      BY <1>2, <3>1 DEF Agreed, NotRecovering
    <3> QED BY <1>2, <3>1, <3>2, LinkOnly DEF MotionInv
  <2>7. ~(\E ok \in BOOLEAN : LinkPollQuery(ok))
    BY <1>2 DEF LinkPollQuery, QueryDue, Agreed, NotRecovering
  <2>8. CASE RxRestartDone \/ LinkPollExpired \/ UNCHANGED vars
             \/ \E ok \in BOOLEAN : RxRestart(ok)
    <3>1. UNCHANGED <<link, motion, recovery, z, request, replies, ctl, phys>>
      BY <2>8 DEF RxRestartDone, LinkPollExpired, RxRestart, vars
    <3>2. link'.state \notin {"WAIT_CLEAR_FAULT", "RECOVERY_VERIFY", "WAIT_QUERY_STATUS"}
      BY <1>2, <3>1 DEF Agreed, NotRecovering
    <3> QED BY <1>2, <3>1, <3>2, LinkOnly DEF MotionInv
  <2>9. CASE ZPoll
    BY <1>2, <2>9, PollAgrees
  <2>10. CASE RequestLost
    BY <1>2, <2>10, RequestLostAgrees DEF MotionInv
  <2>11. CASE ReplyLost
    <3>1. /\ replies # <<>> /\ replies' = Tail(replies)
          /\ UNCHANGED <<link, motion, recovery, z, request, ctl, phys>>
      BY <2>11 DEF ReplyLost
    <3>2. link'.state \notin {"WAIT_CLEAR_FAULT", "RECOVERY_VERIFY", "WAIT_QUERY_STATUS"}
      BY <1>2, <3>1 DEF Agreed, NotRecovering
    <3> QED BY <1>2, <3>1, <3>2, ReplyGone DEF MotionInv
  <2>12. CASE CtlHandle
    BY <1>2, <2>12, CtlMoveAgrees, CtlOtherAgrees DEF CtlHandle, MotionInv
  <2>13. CASE CtlFinish
    BY <1>2, <2>13, FinishAgrees DEF MotionInv
  <2> QED
    BY <2>1, <2>2, <2>3, <2>4, <2>5, <2>6, <2>7, <2>8, <2>9, <2>10, <2>11, <2>12, <2>13
    DEF Next, Request, LegacyIo, Environment, MoveAbsolute
<1> QED BY <1>1, <1>2 DEF MotionInv, Doomed

LEMMA MotionAgrees == Spec => []MotionInv
<1>1. TypeOK /\ IdleOwesNothing /\ MotionInv /\ [Next]_vars => MotionInv'
  BY NextAgrees, ConstantsAssumption
<1> QED BY <1>1, InitAgrees, TypeCorrect, NoDebtInIdle, PTL DEF Spec

-----------------------------------------------------------------------------
(* What the rest of the firmware relies on.                                *)

\* Without a fault so far the axis is at rest only when the controller is, and no move is
\* on its way: for every order in which a stop, the move it stops and their replies cross.
THEOREM StillAtRest == Spec => []RestMeansStill
<1>1. TypeOK /\ MotionInv => RestMeansStill
  BY RestingIsClear DEF MotionInv, Doomed, RestMeansStill, Resting, Working, NoneOut
<1> QED BY <1>1, MotionAgrees, TypeCorrect, PTL

\* Without a fault so far a referenced axis at rest is where the counter says: no step is
\* lost or counted twice, for every travel, every distance and every partial stop.
THEOREM CounterIsTrue == Spec => []NoSilentDrift
<1>1. TypeOK /\ MotionInv => NoSilentDrift
  BY RestingIsClear DEF MotionInv, Doomed, NoSilentDrift, Resting, Working
<1> QED BY <1>1, MotionAgrees, TypeCorrect, PTL

-----------------------------------------------------------------------------
(* The refinement: ZAxis implements ZPromise.                              *)

\* From c to d no motion starts.
Calm(c, d) ==
  /\ c \in ZType => d \in ZType
  /\ d.state \in {"STARTING", "MOVING"} => c.state \in {"STARTING", "MOVING"}

LEMMA SetFaultCalm == ASSUME NEW c \in ZType PROVE Calm(c, SetFault(c))
<1>1. SetFault(c).state = "FAULT"
  BY DEF SetFault, ZType
<1> QED BY <1>1, SetFaultType DEF Calm

\* ZAxis_Poll starts none.
LEMMA PollCalm ==
  ASSUME ConstantsAssumption, TypeOK, ZPoll PROVE Calm(z, z')
<1> DEFINE m == AfterMotion(z)
           r == AfterRecovery(m)
           t == AfterTimeout(r)
           f == AfterLinkFault(t)
<1>0. z \in ZType /\ motion \in MotionType /\ z' = Settled(f)
  BY DEF TypeOK, ZPoll
<1>1. m \in ZType /\ Calm(z, m)
  <2>1. m \in ZType
    BY <1>0, AfterMotionType
  <2>2. m.state \in {z.state, "FAULT", "STOPPING", "IDLE", "UNREFERENCED"}
    <3> DEFINE moved == [z EXCEPT !.position = z.position + motion.steps]
    <3>1. /\ SetFault(z).state = "FAULT" /\ SetFault(moved).state = "FAULT"
          /\ moved.state = z.state
      BY <1>0 DEF SetFault, ZType
    <3>2. TrackedResult(z).state \in {"FAULT", "STOPPING", "IDLE"}
      BY <1>0, <3>1 DEF TrackedResult, ZType
    <3>3. UntrackedResult(z).state \in {"FAULT", "STOPPING", "UNREFERENCED"}
      BY <1>0, <3>1 DEF UntrackedResult, ZType
    <3>4. \A d : [d EXCEPT !.track = FALSE].state = d.state
      OBVIOUS
    <3> QED BY <3>2, <3>3, <3>4 DEF AfterMotion
  <2> QED BY <2>1, <2>2 DEF Calm
<1> HIDE DEF m
<1>2. r \in ZType /\ Calm(m, r)
  <2> DEFINE u == [m EXCEPT !.fault = FALSE, !.state = RestState(m), !.track = FALSE]
  <2>1. u \in ZType /\ u.state \in {"IDLE", "UNREFERENCED"}
    BY <1>1 DEF ZType, ZStates, RestState
  <2>2. r \in {m, u, SetFault(m)}
    BY DEF AfterRecovery
  <2> HIDE DEF u, r
  <2> QED BY <1>1, <2>1, <2>2, SetFaultCalm DEF Calm
<1> HIDE DEF r
<1>3. t \in ZType /\ Calm(r, t)
  BY <1>2, SetFaultCalm DEF AfterTimeout, Calm
<1> HIDE DEF t
<1>4. f \in ZType /\ Calm(t, f)
  BY <1>3, SetFaultCalm DEF AfterLinkFault, Calm
<1> HIDE DEF f
<1>5. z' \in ZType /\ Calm(f, z')
  <2> DEFINE u == [f EXCEPT !.state = "MOVING"]
             v == [f EXCEPT !.state = RestState(f)]
  <2>1. /\ u \in ZType /\ v \in ZType /\ v.state \in {"IDLE", "UNREFERENCED"}
    BY <1>4 DEF ZType, ZStates, RestState
  <2>2. z' = f \/ z' = v \/ (z' = u /\ f.state = "STARTING")
    BY <1>0 DEF Settled
  <2> HIDE DEF u, v
  <2> QED BY <1>4, <2>1, <2>2 DEF Calm
<1> QED BY <1>1, <1>2, <1>3, <1>4, <1>5 DEF Calm

\* For every travel, time-out and bound, and whatever crosses on the wire: a move starts
\* from rest only, never out of a fault, a stop or a recovery.
THEOREM ImplementsPromise == Spec => KeepsPromise
<1>1. Init => Promise!ZInit
  BY DEF Init, Promise!ZInit, Phase
<1>2. TypeOK /\ TypeOK' /\ [Next]_vars => [Promise!ZNext]_Phase
  <2> SUFFICES ASSUME TypeOK, TypeOK', [Next]_vars PROVE [Promise!ZNext]_Phase
    OBVIOUS
  <2> USE DEF Promise!ZNext, Promise!ZStart, Promise!ZHalt, Promise!ZEnd, Promise!ZFail,
              Promise!ZRecover, Promise!ZRecovered
  <2>0. z \in ZType /\ z'\in ZType
    BY DEF TypeOK
  <2>p. /\ Phase = IF z.state \in {"UNREFERENCED", "IDLE"} THEN "REST"
                   ELSE IF z.state \in {"STARTING", "MOVING"} THEN "MOVING" ELSE z.state
        /\ Phase' = IF z'.state \in {"UNREFERENCED", "IDLE"} THEN "REST"
                    ELSE IF z'.state \in {"STARTING", "MOVING"} THEN "MOVING" ELSE z'.state
    BY DEF Phase
  <2>s. ASSUME z' = z \/ z'.state = z.state PROVE UNCHANGED Phase
    BY <2>p, <2>s
  <2>1. ASSUME NEW delta, NEW ok \in BOOLEAN, MoveRelative(delta, ok) PROVE [Promise!ZNext]_Phase
    <3>1. /\ z.state \in {"IDLE", "UNREFERENCED"}
          /\ z' = z \/ z'.state = "STARTING"
      BY <2>0, <2>1 DEF MoveRelative, ZType
    <3> QED BY <2>p, <2>s, <3>1
  <2>2. ASSUME NEW ok \in BOOLEAN, Stop(ok) PROVE [Promise!ZNext]_Phase
    <3>1. z' = z \/ z'.state = "STOPPING"
      BY <2>0, <2>2 DEF Stop, ZType
    <3> QED BY <2>p, <2>s, <3>1
  <2>3. ASSUME NEW ok \in BOOLEAN, ClearFault(ok) PROVE [Promise!ZNext]_Phase
    <3>1. z.state # "RECOVERING" /\ (z' = z \/ z'.state = "RECOVERING")
      BY <2>0, <2>3 DEF ClearFault, ZType
    <3> QED BY <2>0, <2>p, <2>s, <3>1 DEF ZType, ZStates
  <2>4. CASE SetZero
    <3>1. z.state \in {"IDLE", "UNREFERENCED"} /\ z'.state = "IDLE"
      BY <2>0, <2>4 DEF SetZero, ZType
    <3> QED BY <2>p, <3>1
  <2>5. CASE ZPoll
    <3>1. z'.state \in {"STARTING", "MOVING"} => z.state \in {"STARTING", "MOVING"}
      BY <2>5, PollCalm, ConstantsAssumption DEF Calm
    <3> QED BY <2>0, <2>p, <3>1 DEF ZType, ZStates
  <2>6. CASE Receive \/ UartError \/ RxRestartDone \/ LinkPollExpired \/ LinkPollFault
             \/ Environment \/ UNCHANGED vars
    BY <2>6, <2>s DEF Receive, UartError, RxRestartDone, LinkPollExpired, LinkPollFault,
            Environment, Tick, RequestLost, ReplyLost, CtlHandle, CtlFinish, vars
  <2>7. CASE \E ok \in BOOLEAN : RxRestart(ok) \/ LinkPollQuery(ok)
    BY <2>7, <2>s DEF RxRestart, LinkPollQuery
  <2> QED
    BY <2>1, <2>2, <2>3, <2>4, <2>5, <2>6, <2>7 DEF Next, Request, LegacyIo, MoveAbsolute
<1> QED BY <1>1, <1>2, TypeCorrect, PTL DEF Spec, KeepsPromise, Promise!ZSpec
=============================================================================
