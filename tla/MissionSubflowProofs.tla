------------------------ MODULE MissionSubflowProofs ------------------------
(***************************************************************************)
(* Proofs about the subflows and the alignment of the missions, for all    *)
(* budgets: what a poll of the subflow and one of the alignment keep to.   *)
(* Only the axis moves that the subflow's state stands for, an alignment   *)
(* ends with its subflow, and ownership is given back at the end alone.    *)
(*                                                                         *)
(* The inductive invariant that MissionProofs needs is stated here, too,   *)
(* since its parts are about the machine that both work on.                *)
(***************************************************************************)
EXTENDS Mission, TLAPS

\* The states that the operators of the subflow work on, Now among them, and those of the
\* mission task, World among them. Most operators work on both.
FlowMachine == [co : CoType, axis : [Axes -> AxisStates], news : BOOLEAN, sub : SubType,
                align : [state : AlignStates, why : AlignFaults], k : CommandType,
                busy : SUBSET {"XY", "Z"}]
MissionMachine == [co : CoType, axis : [Axes -> AxisStates], news : BOOLEAN, sub : SubType,
                   align : [state : AlignStates, why : AlignFaults], k : CommandType,
                   busy : SUBSET {"XY", "Z"}, job : JobType]
Machine == FlowMachine \cup MissionMachine

\* t is a state of the same kind, and of the same mission.
SameKind(s, t) ==
  /\ s \in FlowMachine => t \in FlowMachine
  /\ s \in MissionMachine => t \in MissionMachine /\ t.job = s.job

Moves(s, a) == s.axis[a] = "moving"
Still(s) == \A a \in Axes : ~Moves(s, a)
OneMoves(s) == \A a, b \in Axes : Moves(s, a) /\ Moves(s, b) => a = b

\* From s to t nothing is set in motion.
Calm(s, t) == \A a \in Axes : Moves(t, a) => Moves(s, a)

\* The axes that may move in any state of a subflow of this type: the one it drives, and Z,
\* whose stop may have been lost.
Leftover(type) ==
  IF type = "BLIND_Y" THEN {"Y"} ELSE IF type \in {"DESCEND", "ALIGN_XZ"} THEN {"Z"} ELSE {}

\* The axes that a subflow may have set in motion, with its alignment.
Movers(f, al) ==
  IF f.type \in PoseTypes THEN IF f.state = "WAIT_IDLE" THEN {PoseAxis(f)} ELSE {}
  ELSE IF f.type \notin AlignTypes \/ f.state # "RUNNING" \/ al.state \in {"off", "fault"}
  THEN Leftover(f.type)
  ELSE IF al.state = "waitx" THEN {"X"}
  ELSE IF al.state = "waitz" THEN {IF f.type = "ALIGN_XZ" THEN "Z" ELSE "Y"}
  ELSE {}

\* The budgets of a subflow under way.
Within(f) ==
  Active(f) =>
    /\ f.type \in FlowTypes /\ f.stage < 3
    /\ f.type = "RECORD" => f.attempt < MaxAttempts
    /\ f.type \in ObserveTypes => f.stable < StableSamples

\* An alignment under way belongs to a subflow that runs it and to an owner.
Attended(s) ==
  AlignActive(s) =>
    s.sub.type \in AlignTypes /\ s.sub.state = "RUNNING" /\ s.co.owner = "MISSION"

Tracked(s) == \A a \in Axes : Moves(s, a) => a \in Movers(s.sub, s.align)

\* A mission under way.
Running(s) == s.job.state \notin Resting

Owned(s) == Running(s) => (s.co.owner = "MISSION" \/ s.co.latch) /\ s.sub.retain

Belongs(s) ==
  Running(s) =>
    /\ s.job.started => Expected(s.job.state) # "NONE"
    /\ Active(s.sub) =>
         /\ s.sub.task = s.job.task
         /\ s.job.state = "ABORTING" \/ (s.job.started /\ s.sub.type = Expected(s.job.state))

\* What a failed subflow may leave in motion is waited for.
MayLinger(s) ==
  s.job.state \in {"ABORTING", "RECOVERY_WAIT_IDLE"} \/ (s.job.started /\ s.sub.state = "FAULT")

Orderly(s) ==
  Running(s) =>
    /\ OneMoves(s)
    /\ IF Active(s.sub) THEN Tracked(s) ELSE MayLinger(s) \/ Still(s)

Picking == {"PRECHECK", "PREPARE_GRIP_OPEN", "RED_OBSERVE", "FRONT_RED_READY", "RECORD_XYZ"}

Holding(s) ==
  s.job.task \in Puts =>
    s.job.state \notin Picking /\ (s.job.state \in Carrying => s.job.payload = "HELD")

Told(s) ==
  Running(s) /\ s.job.started /\ s.sub.type \in GripTypes /\ s.sub.state = "COMPLETE"
    => Applied(s, s.sub.type)

Good(s) ==
  /\ s \in MissionMachine
  /\ Within(s.sub) /\ Attended(s)
  /\ Owned(s) /\ Belongs(s) /\ Orderly(s) /\ Holding(s) /\ Told(s)

\* The latch closes the mission out as soon as the loop has seen the abort.
ShutOut == co.latch => co.owner # "MISSION" \/ (pc = "coord" /\ co.abort)

\* A gripper command that was answered has been done, and nothing has moved it since.
GripKnown == k.state = "applied" /\ k.what \in GripTypes => grip = Position(k.what)

IInv ==
  /\ Good(World)
  /\ pc \in {"coord", "subflow", "task", "align"}
  /\ grip \in {"open", "closed"}
  /\ requests \in 0 .. MaxRequests /\ trouble \in 0 .. MaxTrouble
  /\ ShutOut /\ GripKnown

-----------------------------------------------------------------------------
(* Stops, aborted alignments, ends.                                        *)

\* Only the axes differ, some of these have been told to stop.
Stops(s, t, axes) ==
  /\ SameKind(s, t) /\ t.co = s.co /\ t.news = s.news /\ t.sub = s.sub
  /\ t.align = s.align /\ t.k = s.k /\ t.busy = s.busy
  /\ Calm(s, t) /\ \A a \in axes : Moves(t, a) => a = "Z"

\* An order to stop concerns the axes it names; only the stop of Z may be lost to its line.
LEMMA StopThis ==
  ASSUME NEW s \in Machine, NEW axes \in SUBSET Axes
  PROVE  Stops(s, StopThese(s, axes), axes)
BY DEF StopThese, Stops, SameKind, Machine, FlowMachine, MissionMachine, AxisStates, Moves, Calm

\* The order to stop every axis.
LEMMA StopAll ==
  ASSUME NEW s \in Machine PROVE Stops(s, StopAxes(s), Axes)
BY StopThis DEF StopAxes

\* An alignment that is aborted is off, and its axes have been told to stop.
LEMMA AbortThis ==
  ASSUME NEW s \in Machine
  PROVE  LET t == AlignAborted(s)
         IN /\ SameKind(s, t) /\ t.co = s.co /\ t.news = s.news /\ t.sub = s.sub
            /\ t.k = s.k /\ t.busy = s.busy /\ Calm(s, t)
            /\ s.sub.type \in AlignTypes =>
                 /\ t.align.state = "off"
                 /\ AlignActive(s) => \A a \in AlignAxes(s.sub.type) : Moves(t, a) => a = "Z"
            /\ s.sub.type \notin AlignTypes => t = s
<1> DEFINE axes == AlignAxes(s.sub.type)
           r == IF AlignActive(s) THEN StopThese(s, axes) ELSE s
           off == [state |-> "off", why |-> "NONE"]
<1>1. axes \in SUBSET Axes
  BY DEF AlignAxes, Axes
<1>2. /\ SameKind(s, r) /\ r.co = s.co /\ r.news = s.news /\ r.sub = s.sub
      /\ r.k = s.k /\ r.busy = s.busy /\ Calm(s, r)
      /\ AlignActive(s) => \A a \in axes : Moves(r, a) => a = "Z"
  BY <1>1, StopThis DEF Stops, SameKind, Calm
<1> HIDE DEF r
<1>3. off \in [state : AlignStates, why : AlignFaults]
  BY DEF AlignStates, AlignFaults
<1>4. LET t == [r EXCEPT !.align = off]
      IN /\ SameKind(r, t) /\ t.co = r.co /\ t.news = r.news /\ t.sub = r.sub
         /\ t.k = r.k /\ t.busy = r.busy /\ t.axis = r.axis /\ t.align.state = "off"
  BY <1>2, <1>3 DEF SameKind, Machine, FlowMachine, MissionMachine
<1>5. AlignAborted(s) = IF s.sub.type \notin AlignTypes THEN s ELSE [r EXCEPT !.align = off]
  BY DEF AlignAborted, r
<1> QED
  BY <1>2, <1>4, <1>5 DEF SameKind, Calm, Moves

\* A subflow that ends does so with the ownership, unless a mission retains it.
LEMMA FinishThis ==
  ASSUME NEW s \in Machine, NEW state \in FlowStates, NEW reason \in Reasons
  PROVE  LET t == Finish(s, state, reason)
         IN /\ SameKind(s, t) /\ t.news = s.news /\ t.axis = s.axis /\ t.align = s.align
            /\ t.k = s.k /\ t.busy = s.busy
            /\ t.sub = [s.sub EXCEPT !.state = state, !.reason = reason]
            /\ t.co = IF s.co.owner = "MISSION" /\ ~s.sub.retain
                      THEN [s.co EXCEPT !.owner = "NONE"] ELSE s.co
<1> DEFINE f == [s.sub EXCEPT !.state = state, !.reason = reason]
           t == [s EXCEPT !.sub.state = state, !.sub.reason = reason]
           c == [s.co EXCEPT !.owner = "NONE"]
<1>1. s.sub \in SubType /\ s.co \in CoType
  BY DEF Machine, FlowMachine, MissionMachine
<1>2. f \in SubType /\ c \in CoType
  BY <1>1 DEF SubType, CoType
<1>3. t = [s EXCEPT !.sub = f] /\ [t EXCEPT !.co.owner = "NONE"] = [t EXCEPT !.co = c]
  BY DEF Machine, FlowMachine, MissionMachine
<1> HIDE DEF f, c, t
<1>4. /\ SameKind(s, t) /\ t.news = s.news /\ t.axis = s.axis /\ t.align = s.align
      /\ t.k = s.k /\ t.busy = s.busy /\ t.sub = f /\ t.co = s.co
  BY <1>2, <1>3 DEF SameKind, Machine, FlowMachine, MissionMachine
<1>5. LET v == [t EXCEPT !.co = c]
      IN /\ SameKind(t, v) /\ v.news = t.news /\ v.axis = t.axis /\ v.align = t.align
         /\ v.k = t.k /\ v.busy = t.busy /\ v.sub = t.sub /\ v.co = c
  BY <1>2, <1>4 DEF SameKind, Machine, FlowMachine, MissionMachine
<1>6. Finish(s, state, reason) =
        IF s.sub.retain THEN t
        ELSE IF t.co.owner = "MISSION" THEN [t EXCEPT !.co = c] ELSE t
  BY <1>3 DEF Finish, Released, t
<1> QED
  BY <1>4, <1>5, <1>6 DEF SameKind, f, c

\* The same subflow, with the coordinator, the commands and the lines as they were, and
\* nothing set in motion.
Like(s, u) ==
  /\ u \in FlowMachine /\ u.co = s.co /\ u.k = s.k /\ u.busy = s.busy
  /\ u.sub.type = s.sub.type /\ u.sub.task = s.sub.task /\ u.sub.retain = s.sub.retain
  /\ Calm(s, u)

\* What a poll keeps to: the subflow stays what it is and within its budgets, no alignment
\* is left behind, ownership is only given back at the end, and only the axis moves that
\* the new state stands for.
From(s, t) ==
  /\ t \in FlowMachine /\ t.busy = s.busy
  /\ t.sub.type = s.sub.type /\ t.sub.task = s.sub.task /\ t.sub.retain = s.sub.retain
  /\ \/ t.co = s.co
     \/ ~Active(t.sub) /\ ~s.sub.retain /\ t.co = [s.co EXCEPT !.owner = "NONE"]
  /\ t.k = s.k \/ t.k.state = "active"
  /\ Within(t.sub) /\ Attended(t)
  /\ ~Active(t.sub) => t.sub.state \in {"COMPLETE", "FAULT"}
  /\ Tracked(s) =>
       /\ OneMoves(t)
       /\ Active(t.sub) => Tracked(t)
       /\ t.sub.state = "COMPLETE" => Still(t)
  /\ t.sub.type \in GripTypes /\ t.sub.state = "COMPLETE" => Applied(t, t.sub.type)

\* A subflow sets one axis in motion at a time ...
LEMMA OneMover ==
  ASSUME NEW f, NEW al, NEW a \in Movers(f, al), NEW b \in Movers(f, al) PROVE a = b
BY DEF Movers, Leftover

\* ... so if only that one moves, at most one does.
LEMMA TrackedIsOne == ASSUME NEW s, Tracked(s) PROVE OneMoves(s)
BY OneMover DEF Tracked, OneMoves

\* fail, from a state without an alignment.
LEMMA FailFrom ==
  ASSUME NEW s \in FlowMachine, NEW u, Like(s, u), ~AlignActive(u), NEW r \in Reasons
  PROVE  From(s, Fail(u, r)) /\ Fail(u, r).sub.state = "FAULT"
<1> DEFINE v == StopAxes(u)
           t == Finish(v, "FAULT", r)
<1>1. Stops(u, v, Axes) /\ v \in FlowMachine
  BY StopAll DEF Like, Machine, Stops, SameKind
<1> HIDE DEF v
<1>2. /\ t \in FlowMachine /\ t.axis = v.axis /\ t.align = u.align /\ t.k = u.k
      /\ t.busy = u.busy
      /\ t.sub = [u.sub EXCEPT !.state = "FAULT", !.reason = r]
      /\ t.co = IF u.co.owner = "MISSION" /\ ~u.sub.retain
                THEN [u.co EXCEPT !.owner = "NONE"] ELSE u.co
  <2>1. v \in Machine /\ "FAULT" \in FlowStates
    BY <1>1 DEF Machine, FlowStates
  <2>2. /\ SameKind(v, t) /\ t.axis = v.axis /\ t.align = v.align /\ t.k = v.k
        /\ t.busy = v.busy
        /\ t.sub = [v.sub EXCEPT !.state = "FAULT", !.reason = r]
        /\ t.co = IF v.co.owner = "MISSION" /\ ~v.sub.retain
                  THEN [v.co EXCEPT !.owner = "NONE"] ELSE v.co
    BY <2>1, FinishThis, ZenonT(40)
  <2> QED
    BY <1>1, <2>2 DEF Stops, SameKind
<1> HIDE DEF t
<1>3. /\ t.sub.state = "FAULT" /\ t.sub.type = u.sub.type /\ t.sub.task = u.sub.task
      /\ t.sub.retain = u.sub.retain
  BY <1>2 DEF Like, FlowMachine, SubType
<1>4. Tracked(s) => OneMoves(t)
  BY <1>1, <1>2, TrackedIsOne DEF Like, Stops, Calm, OneMoves, Moves
<1>5. ~AlignActive(t)
  BY <1>2 DEF AlignActive
<1>6. ~Active(t.sub) /\ Within(t.sub) /\ Attended(t)
  BY <1>3, <1>5 DEF Active, Within, Attended
<1>7. \/ t.co = s.co
      \/ ~Active(t.sub) /\ ~s.sub.retain /\ t.co = [s.co EXCEPT !.owner = "NONE"]
  BY <1>2, <1>6 DEF Like
<1>8. t.k = s.k /\ t.busy = s.busy /\ t.sub.type = s.sub.type /\ t.sub.task = s.sub.task
      /\ t.sub.retain = s.sub.retain
  BY <1>2, <1>3 DEF Like
<1>9. From(s, t)
  BY <1>2, <1>3, <1>4, <1>6, <1>7, <1>8 DEF From
<1> QED
  BY <1>3, <1>9 DEF Fail, t, v

\* complete, when nothing moves any more and the gripper command was answered.
LEMMA CompleteFrom ==
  ASSUME NEW s \in FlowMachine, NEW u, Like(s, u), ~AlignActive(u), Tracked(s) => Still(u),
         u.sub.type \in GripTypes => Applied(u, u.sub.type)
  PROVE  From(s, Complete(u)) /\ Complete(u).sub.state = "COMPLETE"
<1> DEFINE t == Finish(u, "COMPLETE", "NONE")
<1>2. /\ t \in FlowMachine /\ t.axis = u.axis /\ t.align = u.align /\ t.k = u.k
      /\ t.busy = u.busy
      /\ t.sub = [u.sub EXCEPT !.state = "COMPLETE", !.reason = "NONE"]
      /\ t.co = IF u.co.owner = "MISSION" /\ ~u.sub.retain
                THEN [u.co EXCEPT !.owner = "NONE"] ELSE u.co
  BY FinishThis, ZenonT(40) DEF Like, Machine, SameKind, FlowStates, Reasons
<1> HIDE DEF t
<1>3. /\ t.sub.state = "COMPLETE" /\ t.sub.type = u.sub.type /\ t.sub.task = u.sub.task
      /\ t.sub.retain = u.sub.retain
  BY <1>2 DEF Like, FlowMachine, SubType
<1>4. Tracked(s) => OneMoves(t) /\ Still(t)
  BY <1>2 DEF OneMoves, Moves, Still
<1>5. ~AlignActive(t)
  BY <1>2 DEF AlignActive
<1>6. ~Active(t.sub) /\ Within(t.sub) /\ Attended(t)
  BY <1>3, <1>5 DEF Active, Within, Attended
<1>7. From(s, t)
  BY <1>2, <1>3, <1>4, <1>6 DEF From, Like, Applied
<1> QED
  BY <1>3, <1>7 DEF Complete, t

-----------------------------------------------------------------------------
(* Another attempt, a recovery, a command.                                 *)

\* What a state must be for the subflow to be tried again from it.
Retriable(s, u) ==
  /\ Like(s, u) /\ ~AlignActive(u)
  /\ u.sub.type \in FlowTypes \ {"RECORD"} /\ u.sub.stage < 3
  /\ Tracked(s) => \A a \in Axes : Moves(u, a) => a \in Leftover(u.sub.type)

\* Updates of the subflow's record, one after the other and at once.
LEMMA WaitingIs ==
  ASSUME NEW u \in FlowMachine
  PROVE  Waiting(u) = [u EXCEPT !.sub = [u.sub EXCEPT !.state = "RETRY_WAIT", !.stable = 0,
                                                      !.issued = FALSE]]
BY DEF Waiting, FlowMachine, SubType

\* The two counters of a recovery.
LEMMA RefundedIs ==
  ASSUME NEW u \in FlowMachine, NEW refund \in BOOLEAN
  PROVE  [u EXCEPT !.sub.recoveries = @ + 1,
                   !.sub.attempt = IF refund /\ @ > 0 THEN @ - 1 ELSE @]
           = [u EXCEPT !.sub = [u.sub EXCEPT !.recoveries = @ + 1,
                                   !.attempt = IF refund /\ @ > 0 THEN @ - 1 ELSE @]]
BY DEF FlowMachine, SubType

\* The subflow waits to be tried again: what moves still is what its stop may have missed.
LEMMA WaitFrom ==
  ASSUME NEW s \in FlowMachine, NEW u, Retriable(s, u) PROVE From(s, Waiting(u))
<1> DEFINE f == [u.sub EXCEPT !.state = "RETRY_WAIT", !.stable = 0, !.issued = FALSE]
           t == [u EXCEPT !.sub = f]
<1>1. u \in FlowMachine /\ u.sub \in SubType /\ StableSamples \in Nat
  BY FlowAssumption DEF Retriable, Like, FlowMachine
<1>2. /\ f \in SubType /\ f.state = "RETRY_WAIT" /\ f.type = u.sub.type
      /\ f.task = u.sub.task /\ f.retain = u.sub.retain /\ f.stage = u.sub.stage
      /\ f.stable = 0
  <2>1. 0 \in 0 .. StableSamples
    BY <1>1
  <2>2. f \in SubType
    BY <1>1, <2>1 DEF SubType, FlowStates
  <2> QED
    BY <1>1, <2>2 DEF SubType
<1>3. Waiting(u) = t
  BY <1>1, WaitingIs
<1> HIDE DEF f
<1>4. /\ t \in FlowMachine /\ t.co = u.co /\ t.axis = u.axis /\ t.align = u.align
      /\ t.k = u.k /\ t.busy = u.busy /\ t.sub = f
  BY <1>1, <1>2 DEF FlowMachine
<1> HIDE DEF t
<1>5. Within(t.sub) /\ Attended(t) /\ t.sub.state \notin {"COMPLETE", "FAULT"} /\ Active(t.sub)
  BY <1>2, <1>4, FlowAssumption DEF Retriable, Within, Attended, AlignActive, Active
<1>6. Movers(t.sub, t.align) = Leftover(t.sub.type)
  BY <1>2, <1>4 DEF Movers, Leftover, PoseTypes
<1>7. Tracked(s) => Tracked(t)
  BY <1>2, <1>4, <1>6 DEF Retriable, Tracked, Moves
<1>8. /\ t.k = s.k /\ t.busy = s.busy /\ t.sub.type = s.sub.type /\ t.sub.task = s.sub.task
      /\ t.sub.retain = s.sub.retain /\ t.co = s.co
  BY <1>2, <1>4 DEF Retriable, Like
<1>9. From(s, t)
  BY <1>4, <1>5, <1>7, <1>8, TrackedIsOne DEF From
<1> QED
  BY <1>3, <1>9

\* retry_or_fail.
LEMMA RetryOrFailFrom ==
  ASSUME NEW s \in FlowMachine, NEW u, Retriable(s, u) PROVE From(s, RetryOrFail(u))
BY WaitFrom, FailFrom DEF RetryOrFail, Retriable, Reasons

\* What follows a fault of an axis.
LEMMA RetryFaultFrom ==
  ASSUME NEW s \in FlowMachine, NEW u, Retriable(s, u), NEW source, NEW refund \in BOOLEAN
  PROVE  From(s, RetryFault(u, source, refund))
<1>1. CASE source = "Z" /\ u.sub.recoveries < MaxRecoveries
  <2> DEFINE f == [u.sub EXCEPT !.recoveries = @ + 1,
                                !.attempt = IF refund /\ @ > 0 THEN @ - 1 ELSE @]
             t == [u EXCEPT !.sub = f]
  <2>1. u \in FlowMachine /\ u.sub \in SubType
    BY DEF Retriable, Like, FlowMachine
  <2>2. /\ f \in SubType /\ f.type = u.sub.type /\ f.task = u.sub.task
        /\ f.retain = u.sub.retain /\ f.stage = u.sub.stage
    <3> DEFINE r == u.sub.recoveries + 1
               n == IF refund /\ u.sub.attempt > 0 THEN u.sub.attempt - 1 ELSE u.sub.attempt
    <3>1. u.sub.recoveries \in 0 .. MaxRecoveries /\ u.sub.attempt \in 0 .. MaxAttempts
      BY <2>1 DEF SubType
    <3>2. r \in 0 .. MaxRecoveries /\ n \in 0 .. MaxAttempts
      BY <1>1, <3>1, FlowAssumption
    <3>3. f = [u.sub EXCEPT !.recoveries = r, !.attempt = n]
      BY <2>1 DEF SubType
    <3> HIDE DEF r, n
    <3> QED
      BY <2>1, <3>2, <3>3 DEF SubType
  <2>3. [u EXCEPT !.sub.recoveries = @ + 1,
                  !.sub.attempt = IF refund /\ @ > 0 THEN @ - 1 ELSE @] = t
    BY <2>1, RefundedIs
  <2> HIDE DEF f
  <2>4. /\ t \in FlowMachine /\ t.co = u.co /\ t.axis = u.axis /\ t.align = u.align
        /\ t.k = u.k /\ t.busy = u.busy /\ t.sub = f
    BY <2>1, <2>2 DEF FlowMachine
  <2> HIDE DEF t
  <2>5. Retriable(s, t)
    BY <2>2, <2>4 DEF Retriable, Like, Calm, Moves, AlignActive
  <2> QED
    BY <1>1, <2>3, <2>5, WaitFrom DEF RetryFault
<1>2. CASE ~(source = "Z" /\ u.sub.recoveries < MaxRecoveries)
  BY <1>2, FailFrom DEF RetryFault, Retriable, Reasons
<1> QED
  BY <1>1, <1>2

\* recover_z_fault and axes_faulted move nothing.
LEMMA RecoverThis ==
  ASSUME NEW u \in FlowMachine
  PROVE  /\ RecoverZ(u) \in FlowMachine /\ Calm(u, RecoverZ(u))
         /\ RecoverZ(u).co = u.co /\ RecoverZ(u).sub = u.sub /\ RecoverZ(u).align = u.align
         /\ RecoverZ(u).k = u.k /\ RecoverZ(u).busy = u.busy
         /\ Seen(u) \in FlowMachine /\ Seen(u).axis = u.axis
         /\ Seen(u).co = u.co /\ Seen(u).sub = u.sub /\ Seen(u).align = u.align
         /\ Seen(u).k = u.k /\ Seen(u).busy = u.busy
BY DEF RecoverZ, Seen, FlowMachine, Calm, Moves, AxisStates, Axes

\* A subflow that recovers its own faults ends, or is tried again, with nothing set in motion.
LEMMA RecoverFrom ==
  ASSUME NEW s \in FlowMachine, NEW u, Like(s, u), ~AlignActive(u), u.sub.type \in OwnFaults,
         u.sub.stage < 3, NEW refund \in BOOLEAN
  PROVE  From(s, Recover(u, refund))
<1> DEFINE v == StopAxes(Seen(u))
           w == IF FaultSource(u) = "Z" THEN RecoverZ(v) ELSE v
<1>1. Seen(u) \in Machine /\ u \in FlowMachine
  BY RecoverThis DEF Like, Machine
<1>2. Stops(Seen(u), v, Axes)
  BY <1>1, StopAll
<1>3. /\ v \in FlowMachine /\ v.co = u.co /\ v.sub = u.sub /\ v.align = u.align
      /\ v.k = u.k /\ v.busy = u.busy
      /\ \A a \in Axes : Moves(v, a) => Moves(u, a) /\ a = "Z"
  BY <1>1, <1>2, RecoverThis DEF Stops, SameKind, Calm, Moves
<1> HIDE DEF v
<1>4. /\ w \in FlowMachine /\ w.co = u.co /\ w.sub = u.sub /\ w.align = u.align
      /\ w.k = u.k /\ w.busy = u.busy
      /\ \A a \in Axes : Moves(w, a) => Moves(u, a) /\ a = "Z"
  BY <1>3, RecoverThis DEF Calm
<1> HIDE DEF w
<1>5. "Z" \in Movers(s.sub, s.align) => "Z" \in Leftover(u.sub.type)
  BY DEF Like, Movers, Leftover, OwnFaults, PoseTypes, AlignTypes
<1>6. Retriable(s, w)
  <2>1. Like(s, w)
    BY <1>4 DEF Like, Calm
  <2>2. w.sub.type \in FlowTypes \ {"RECORD"}
    BY <1>4 DEF OwnFaults, AlignTypes, FlowTypes
  <2>3. Tracked(s) => \A a \in Axes : Moves(w, a) => a \in Leftover(w.sub.type)
    BY <1>4, <1>5 DEF Like, Calm, Tracked
  <2> QED
    BY <1>4, <2>1, <2>2, <2>3 DEF Retriable, AlignActive
<1> QED
  BY <1>6, RetryFaultFrom DEF Recover, w, v

\* A command to the C552, sent or refused.
LEMMA CommandedFrom ==
  ASSUME NEW s \in FlowMachine, NEW u, Retriable(s, u), u.sub.type \in ObserveTypes \cup GripTypes,
         u.sub.type \in ObserveTypes => u.sub.stable < StableSamples
  PROVE  From(s, Commanded(u, u.sub.type))
<1>1. CASE u.k.state = "active"
  BY <1>1, RetryOrFailFrom DEF Commanded
<1>2. CASE u.k.state # "active"
  <2> DEFINE c == [what |-> u.sub.type, state |-> "active"]
             f == [u.sub EXCEPT !.state = "WAIT_APPLIED"]
             t == [u EXCEPT !.k = c, !.sub = f]
  <2>1. u \in FlowMachine /\ u.sub \in SubType
    BY DEF Retriable, Like, FlowMachine
  <2>2. /\ f \in SubType /\ f.type = u.sub.type /\ f.task = u.sub.task
        /\ f.retain = u.sub.retain /\ f.stage = u.sub.stage /\ f.stable = u.sub.stable
        /\ f.state = "WAIT_APPLIED"
    BY <2>1 DEF SubType, FlowStates
  <2>3. c \in CommandType /\ c.state = "active"
    BY DEF CommandType
  <2>4. Commanded(u, u.sub.type) = t
    BY <1>2, <2>1 DEF Commanded, FlowMachine
  <2> HIDE DEF c, f
  <2>5. /\ t \in FlowMachine /\ t.co = u.co /\ t.axis = u.axis /\ t.align = u.align
        /\ t.k = c /\ t.busy = u.busy /\ t.sub = f
    BY <2>1, <2>2, <2>3 DEF FlowMachine
  <2> HIDE DEF t
  <2>6. Within(t.sub) /\ Attended(t) /\ Active(t.sub)
    BY <2>2, <2>5 DEF Retriable, Within, Attended, AlignActive, Active, ObserveTypes, GripTypes
  <2>7. Movers(t.sub, t.align) = Leftover(t.sub.type)
    BY <2>2, <2>5 DEF Movers, Leftover, PoseTypes
  <2>8. Tracked(s) => Tracked(t)
    BY <2>2, <2>5, <2>7 DEF Retriable, Tracked, Moves
  <2>9. /\ t.busy = s.busy /\ t.sub.type = s.sub.type /\ t.sub.task = s.sub.task
        /\ t.sub.retain = s.sub.retain /\ t.co = s.co /\ t.k.state = "active"
        /\ t.sub.state = "WAIT_APPLIED"
    BY <2>2, <2>3, <2>5 DEF Retriable, Like
  <2>10. From(s, t)
    BY <2>5, <2>6, <2>8, <2>9, TrackedIsOne DEF From
  <2> QED
    BY <2>4, <2>10
<1> QED
  BY <1>1, <1>2

-----------------------------------------------------------------------------
(* The steps a poll is made of.                                            *)

\* The parts of the state of a poll.
LEMMA NowIs ==
  /\ Now.co = co /\ Now.axis = axis /\ Now.news = news /\ Now.sub = sub /\ Now.align = align
  /\ Now.k = k /\ Now.busy = busy
BY DEF Now

\* A poll's next state is the one its operators give ...
LEMMA BecomeThis ==
  ASSUME NEW t, t \in FlowMachine, t.busy = busy, Become(t), busy' = busy
  PROVE  Now' = t
BY DEF Become, Now, FlowMachine

\* ... and keeps to what that one keeps to.
LEMMA BecomeFrom ==
  ASSUME NEW t, From(Now, t), Become(t), busy' = busy
  PROVE  From(Now, Now')
<1>1. Now' = t
  BY BecomeThis, NowIs DEF From
<1> QED
  BY <1>1

\* A state is like itself.
LEMMA LikeSelf == ASSUME NEW s \in FlowMachine PROVE Like(s, s)
BY DEF Like, Calm

\* A poll that changes nothing.
LEMMA SameFrom ==
  ASSUME NEW s \in FlowMachine, Active(s.sub), Within(s.sub), Attended(s)
  PROVE  From(s, s)
<1>1. s.sub.state # "COMPLETE"
  BY DEF Active
<1> QED
  BY <1>1, TrackedIsOne DEF From

\* The subflow's record changes, and nothing else ...
LEMMA SubFrom ==
  ASSUME NEW s \in FlowMachine, ~AlignActive(s), NEW f \in SubType,
         f.type = s.sub.type, f.task = s.sub.task, f.retain = s.sub.retain,
         Active(f), Within(f),
         Tracked(s) => \A a \in Axes : Moves(s, a) => a \in Movers(f, s.align)
  PROVE  From(s, [s EXCEPT !.sub = f])
<1> DEFINE t == [s EXCEPT !.sub = f]
<1>1. /\ t \in FlowMachine /\ t.co = s.co /\ t.axis = s.axis /\ t.align = s.align
      /\ t.k = s.k /\ t.busy = s.busy /\ t.sub = f
  BY DEF FlowMachine
<1> HIDE DEF t
<1>2. Attended(t) /\ t.sub.state \notin {"COMPLETE", "FAULT"}
  BY <1>1 DEF Attended, AlignActive, Active
<1>3. Tracked(s) => Tracked(t)
  BY <1>1 DEF Tracked, Moves
<1>4. From(s, t)
  BY <1>1, <1>2, <1>3, TrackedIsOne DEF From
<1> QED
  BY <1>4 DEF t

\* ... or an axis is set in motion besides.
LEMMA MoveFrom ==
  ASSUME NEW s \in FlowMachine, ~AlignActive(s), NEW f \in SubType,
         f.type = s.sub.type, f.task = s.sub.task, f.retain = s.sub.retain,
         Active(f), Within(f), NEW a \in Axes, a \in Movers(f, s.align),
         Tracked(s) => \A b \in Axes : Moves(s, b) => b = a
  PROVE  From(s, [s EXCEPT !.axis[a] = "moving", !.sub = f])
<1> DEFINE t == [s EXCEPT !.axis[a] = "moving", !.sub = f]
<1>1. /\ t \in FlowMachine /\ t.co = s.co /\ t.axis = [s.axis EXCEPT ![a] = "moving"]
      /\ t.align = s.align /\ t.k = s.k /\ t.busy = s.busy /\ t.sub = f
  BY DEF FlowMachine, AxisStates
<1> HIDE DEF t
<1>2. Attended(t) /\ t.sub.state \notin {"COMPLETE", "FAULT"}
  BY <1>1 DEF Attended, AlignActive, Active
<1>3. Tracked(s) => Tracked(t)
  <2> SUFFICES ASSUME Tracked(s), NEW b \in Axes, Moves(t, b) PROVE b \in Movers(t.sub, t.align)
    BY DEF Tracked
  <2>1. b = a
    BY <1>1 DEF Moves, FlowMachine
  <2> QED
    BY <1>1, <2>1
<1>4. From(s, t)
  BY <1>1, <1>2, <1>3, TrackedIsOne DEF From
<1> QED
  BY <1>4 DEF t

\* The subflow of a poll.
Polling(s) == s \in FlowMachine /\ Active(s.sub) /\ Within(s.sub) /\ Attended(s)

\* The subflow's state changes, and nothing else.
LEMMA StateFrom ==
  ASSUME NEW s, Polling(s), ~AlignActive(s),
         NEW state \in FlowStates \ {"IDLE", "COMPLETE", "FAULT"},
         Tracked(s) =>
           \A a \in Axes : Moves(s, a) => a \in Movers([s.sub EXCEPT !.state = state], s.align)
  PROVE  From(s, [s EXCEPT !.sub.state = state])
<1> DEFINE f == [s.sub EXCEPT !.state = state]
<1>1. s \in FlowMachine /\ s.sub \in SubType
  BY DEF Polling, FlowMachine
<1>2. /\ f \in SubType /\ f.type = s.sub.type /\ f.task = s.sub.task
      /\ f.retain = s.sub.retain /\ f.stage = s.sub.stage /\ f.stable = s.sub.stable
      /\ f.state = state /\ f.attempt = s.sub.attempt
  BY <1>1 DEF SubType
<1>3. [s EXCEPT !.sub.state = state] = [s EXCEPT !.sub = f]
  BY <1>1 DEF FlowMachine
<1>4. Tracked(s) => \A a \in Axes : Moves(s, a) => a \in Movers(f, s.align)
  OBVIOUS
<1> HIDE DEF f
<1>5. Active(f) /\ Within(f)
  BY <1>2 DEF Polling, Within, Active
<1> QED
  BY <1>1, <1>2, <1>3, <1>4, <1>5, SubFrom

\* An attempt is counted, within its budget.
LEMMA AttemptThis ==
  ASSUME NEW s \in FlowMachine, ~Exhausted(s)
  PROVE  LET n == s.sub.attempt + 1
             f == [s.sub EXCEPT !.attempt = n]
         IN /\ n \in 0 .. MaxAttempts /\ f \in SubType
            /\ Attempt(s) = [s EXCEPT !.sub = f] /\ Attempt(s) \in FlowMachine
            /\ Attempt(s).co = s.co /\ Attempt(s).axis = s.axis /\ Attempt(s).news = s.news
            /\ Attempt(s).align = s.align /\ Attempt(s).k = s.k /\ Attempt(s).busy = s.busy
            /\ Attempt(s).sub = f
            /\ f.type = s.sub.type /\ f.task = s.sub.task /\ f.retain = s.sub.retain
            /\ f.stage = s.sub.stage /\ f.state = s.sub.state /\ f.stable = s.sub.stable
            /\ f.issued = s.sub.issued /\ f.left = s.sub.left /\ f.recorded = s.sub.recorded
<1> DEFINE n == s.sub.attempt + 1
           f == [s.sub EXCEPT !.attempt = n]
<1>1. s.sub \in SubType
  BY DEF FlowMachine
<1>2. s.sub.attempt \in 0 .. MaxAttempts
  BY <1>1 DEF SubType
<1>3. n \in 0 .. MaxAttempts
  BY <1>2, FlowAssumption DEF Exhausted
<1>4. Attempt(s) = [s EXCEPT !.sub = f]
  BY <1>1 DEF Attempt, FlowMachine, SubType
<1> HIDE DEF n
<1>5. f \in SubType
  BY <1>1, <1>3 DEF SubType
<1>6. /\ f.type = s.sub.type /\ f.task = s.sub.task /\ f.retain = s.sub.retain
      /\ f.stage = s.sub.stage /\ f.state = s.sub.state /\ f.stable = s.sub.stable
      /\ f.issued = s.sub.issued /\ f.left = s.sub.left /\ f.recorded = s.sub.recorded
  BY <1>1 DEF SubType
<1> HIDE DEF f
<1>7. LET t == [s EXCEPT !.sub = f]
      IN /\ t \in FlowMachine /\ t.co = s.co /\ t.axis = s.axis /\ t.news = s.news
         /\ t.align = s.align /\ t.k = s.k /\ t.busy = s.busy /\ t.sub = f
  BY <1>5 DEF FlowMachine
<1> QED
  BY <1>3, <1>4, <1>5, <1>6, <1>7 DEF f, n

\* Before a subflow has moved anything it can be tried again from any counters.
LEMMA SelfRetriable ==
  ASSUME NEW s, Polling(s), ~AlignActive(s), s.sub.type # "RECORD",
         NEW u, u = s \/ (~Exhausted(s) /\ u = Attempt(s)),
         Tracked(s) => \A a \in Axes : Moves(s, a) => a \in Leftover(s.sub.type)
  PROVE  Retriable(s, u)
<1>1. /\ u \in FlowMachine /\ u.co = s.co /\ u.axis = s.axis /\ u.align = s.align
      /\ u.k = s.k /\ u.busy = s.busy /\ u.sub.type = s.sub.type /\ u.sub.task = s.sub.task
      /\ u.sub.retain = s.sub.retain /\ u.sub.stage = s.sub.stage
  <2>1. CASE u = s
    BY <2>1 DEF Polling
  <2>2. CASE ~Exhausted(s) /\ u = Attempt(s)
    BY <2>2, AttemptThis DEF Polling
  <2> QED
    BY <2>1, <2>2
<1> QED
  BY <1>1 DEF Retriable, Like, Calm, Moves, AlignActive, Polling, Within

-----------------------------------------------------------------------------
(* The subflows, one by one.                                               *)

\* No alignment is under way outside of the subflow that runs it.
LEMMA NotAligning ==
  ASSUME NEW s, Attended(s), s.sub.type \notin AlignTypes \/ s.sub.state # "RUNNING"
  PROVE  ~AlignActive(s)
BY DEF Attended

\* An attempt of a subflow that is a command to the C552.
LEMMA CommandAttempt ==
  ASSUME NEW s, Polling(s), s.sub.type \in ObserveTypes \cup GripTypes,
         s.sub.type \in ObserveTypes => s.sub.stable < StableSamples
  PROVE  From(s, IF Exhausted(s) THEN Fail(s, "TRANSIENT") ELSE Commanded(Attempt(s), s.sub.type))
<1>1. s \in FlowMachine /\ Like(s, s) /\ ~AlignActive(s) /\ "TRANSIENT" \in Reasons
  BY LikeSelf, NotAligning DEF Polling, ObserveTypes, GripTypes, AlignTypes, Reasons
<1>2. CASE Exhausted(s)
  BY <1>1, <1>2, FailFrom
<1>3. CASE ~Exhausted(s)
  <2> DEFINE u == Attempt(s)
  <2>1. Movers(s.sub, s.align) = Leftover(s.sub.type) /\ s.sub.type # "RECORD"
    BY DEF Movers, Leftover, ObserveTypes, GripTypes, PoseTypes, AlignTypes
  <2>2. Retriable(s, u)
    BY <1>1, <1>3, <2>1, SelfRetriable DEF Tracked
  <2>3. u.sub.type = s.sub.type /\ u.sub.stable = s.sub.stable
    BY <1>1, <1>3, AttemptThis
  <2> HIDE DEF u
  <2>4. From(s, Commanded(u, u.sub.type))
    BY <1>1, <2>2, <2>3, CommandedFrom
  <2> QED
    BY <1>3, <2>3, <2>4 DEF u
<1> QED
  BY <1>2, <1>3

\* The observations.
LEMMA ObserveFrom ==
  ASSUME Polling(Now), busy' = busy, NEW late \in BOOLEAN, Observe(late)
  PROVE  From(Now, Now')
<1> DEFINE s == Now
<1>1. /\ s.sub = sub /\ s.k = k /\ s.busy = busy /\ s.axis = axis
      /\ s \in FlowMachine /\ s.sub \in SubType
  BY NowIs DEF Polling, FlowMachine
<1>2. s.sub.type \in ObserveTypes
  BY <1>1 DEF Observe, PolledHealthy, Polled
<1>3. /\ ~AlignActive(s) /\ s.sub.type # "RECORD" /\ s.sub.stable < StableSamples
      /\ Movers(s.sub, s.align) = {} /\ Leftover(s.sub.type) = {}
      /\ s.sub.stable \in 0 .. StableSamples /\ s.sub.type \notin GripTypes
  BY <1>1, <1>2, NotAligning
  DEF Polling, Within, ObserveTypes, GripTypes, AlignTypes, Movers, Leftover, PoseTypes, SubType
<1>4. From(s, ObserveAttempt(s))
  BY <1>2, <1>3, CommandAttempt DEF ObserveAttempt
<1>5. From(s, RetryOrFail(s))
  BY <1>1, <1>3, SelfRetriable, RetryOrFailFrom DEF Tracked
<1>6. From(s, s)
  BY SameFrom DEF Polling
<1>7. From(s, [s EXCEPT !.sub.state = "WAIT_SAMPLE"])
  <2>1. "WAIT_SAMPLE" \in FlowStates \ {"IDLE", "COMPLETE", "FAULT"}
    BY DEF FlowStates
  <2> QED
    BY <1>3, <2>1, StateFrom DEF Tracked
<1>8. ASSUME NEW n \in {s.sub.stable, 1, s.sub.stable + 1}
      PROVE  LET t == [s EXCEPT !.sub.stable = n]
             IN From(s, IF n >= StableSamples THEN Complete(t) ELSE t)
  <2> DEFINE f == [s.sub EXCEPT !.stable = n]
             t == [s EXCEPT !.sub = f]
  <2>1. n \in 0 .. StableSamples
    BY <1>3, FlowAssumption
  <2>2. /\ f \in SubType /\ f.type = s.sub.type /\ f.task = s.sub.task
        /\ f.retain = s.sub.retain /\ f.stage = s.sub.stage /\ f.stable = n
        /\ f.state = s.sub.state /\ f.attempt = s.sub.attempt
    BY <1>1, <2>1 DEF SubType
  <2>3. [s EXCEPT !.sub.stable = n] = t
    BY <1>1 DEF FlowMachine
  <2> HIDE DEF f
  <2>4. CASE n >= StableSamples
    <3>1. /\ t \in FlowMachine /\ t.co = s.co /\ t.axis = s.axis /\ t.align = s.align
          /\ t.k = s.k /\ t.busy = s.busy /\ t.sub = f
      BY <1>1, <2>2 DEF FlowMachine
    <3> HIDE DEF t
    <3>2. Like(s, t) /\ ~AlignActive(t) /\ (Tracked(s) => Still(t)) /\ t.sub.type \notin GripTypes
      BY <1>3, <2>2, <3>1 DEF Like, Calm, Moves, AlignActive, Tracked, Still
    <3> QED
      BY <1>1, <2>3, <2>4, <3>2, CompleteFrom DEF t
  <2>5. CASE ~(n >= StableSamples)
    <3>1. n < StableSamples
      BY <2>1, <2>5, FlowAssumption
    <3>2. Active(f) /\ Within(f)
      BY <1>3, <2>2, <3>1 DEF Polling, Within, Active
    <3> QED
      BY <1>1, <1>3, <2>2, <2>3, <2>5, <3>2, SubFrom DEF Tracked
  <2> QED
    BY <2>4, <2>5
<1> HIDE DEF s
<1>9. \E t : Become(t) /\ From(s, t)
  <2>1. CASE sub.state = "STARTING" /\ Become(ObserveAttempt(Now))
    BY <1>4, <2>1 DEF s
  <2>2. CASE sub.state = "RETRY_WAIT" /\ Become(IF late THEN ObserveAttempt(Now) ELSE Now)
    BY <1>4, <1>6, <2>2 DEF s
  <2>3. CASE /\ sub.state = "WAIT_APPLIED"
             /\ Become(IF Applied(Now, sub.type) THEN [Now EXCEPT !.sub.state = "WAIT_SAMPLE"]
                       ELSE IF k.state = "failed" \/ late THEN RetryOrFail(Now) ELSE Now)
    BY <1>5, <1>6, <1>7, <2>3 DEF s
  <2>4. CASE sub.state = "WAIT_SAMPLE" /\ late /\ Become(RetryOrFail(Now))
    BY <1>5, <2>4 DEF s
  <2>5. CASE /\ sub.state = "WAIT_SAMPLE" /\ ~late
             /\ \E n \in {sub.stable, 1, sub.stable + 1} :
                  LET t == [Now EXCEPT !.sub.stable = n]
                  IN Become(IF n >= StableSamples THEN Complete(t) ELSE t)
    BY <1>1, <1>8, <2>5 DEF s
  <2> QED
    BY <2>1, <2>2, <2>3, <2>4, <2>5 DEF Observe
<1> QED
  BY <1>9, BecomeFrom DEF s

\* The gripper commands.
LEMMA GripFrom ==
  ASSUME Polling(Now), busy' = busy, NEW late \in BOOLEAN, Grip(late)
  PROVE  From(Now, Now')
<1> DEFINE s == Now
<1>1. s.sub = sub /\ s.k = k /\ s \in FlowMachine
  BY NowIs DEF Polling
<1>2. s.sub.type \in GripTypes
  BY <1>1 DEF Grip, PolledHealthy, Polled
<1>3. /\ ~AlignActive(s) /\ s.sub.type # "RECORD" /\ s.sub.type \notin ObserveTypes
      /\ Movers(s.sub, s.align) = {} /\ Leftover(s.sub.type) = {}
      /\ \A state : Movers([s.sub EXCEPT !.state = state], s.align) = {}
  <2>1. /\ s.sub.type # "RECORD" /\ s.sub.type \notin ObserveTypes
        /\ s.sub.type \notin AlignTypes /\ s.sub.type \notin PoseTypes
        /\ Leftover(s.sub.type) = {}
    BY <1>2 DEF ObserveTypes, GripTypes, AlignTypes, Leftover, PoseTypes
  <2>2. \A state : [s.sub EXCEPT !.state = state].type = s.sub.type
    BY <1>1 DEF FlowMachine, SubType
  <2> QED
    BY <2>1, <2>2, NotAligning DEF Polling, Movers
<1>4. From(s, IF Exhausted(s) THEN Fail(s, "TRANSIENT") ELSE Commanded(Attempt(s), s.sub.type))
  BY <1>2, <1>3, CommandAttempt
<1>5. From(s, RetryOrFail(s))
  BY <1>1, <1>3, SelfRetriable, RetryOrFailFrom DEF Tracked
<1>6. From(s, s)
  BY SameFrom DEF Polling
<1>7. From(s, [s EXCEPT !.sub.state = "STARTING"])
  <2>1. "STARTING" \in FlowStates \ {"IDLE", "COMPLETE", "FAULT"}
    BY DEF FlowStates
  <2> QED
    BY <1>3, <2>1, StateFrom DEF Tracked
<1>8. Applied(s, s.sub.type) => From(s, Complete(s))
  BY <1>1, <1>3, LikeSelf, CompleteFrom DEF Tracked, Still
<1> HIDE DEF s
<1>9. \E t : Become(t) /\ From(s, t)
  <2>1. CASE /\ sub.state = "RETRY_WAIT"
             /\ Become(IF late THEN [Now EXCEPT !.sub.state = "STARTING"] ELSE Now)
    BY <1>6, <1>7, <2>1 DEF s
  <2>2. CASE /\ sub.state = "STARTING"
             /\ Become(IF Exhausted(Now) THEN Fail(Now, "TRANSIENT")
                       ELSE Commanded(Attempt(Now), sub.type))
    BY <1>1, <1>4, <2>2 DEF s
  <2>3. CASE /\ sub.state = "WAIT_APPLIED"
             /\ Become(IF Applied(Now, sub.type) THEN Complete(Now)
                       ELSE IF k.state = "failed" \/ late THEN RetryOrFail(Now) ELSE Now)
    BY <1>1, <1>5, <1>6, <1>8, <2>3 DEF s
  <2> QED
    BY <2>1, <2>2, <2>3 DEF Grip
<1> QED
  BY <1>9, BecomeFrom DEF s

\* The recording of the pose.
LEMMA RecordFrom ==
  ASSUME Polling(Now), busy' = busy, NEW late \in BOOLEAN, Record(late)
  PROVE  From(Now, Now')
<1> DEFINE s == Now
           u == Attempt(s)
<1>1. s.sub = sub /\ s \in FlowMachine /\ s.sub \in SubType
  BY NowIs DEF Polling, FlowMachine
<1>2. s.sub.type = "RECORD"
  BY <1>1 DEF Record, PolledHealthy, Polled
<1>3. /\ ~AlignActive(s) /\ s.sub.attempt < MaxAttempts /\ Movers(s.sub, s.align) = {}
      /\ s.sub.type \notin ObserveTypes
  BY <1>2, NotAligning
  DEF Polling, Within, AlignTypes, Movers, Leftover, PoseTypes, ObserveTypes
<1>4. ~Exhausted(s)
  <2>1. s.sub.attempt \in 0 .. MaxAttempts
    BY <1>1 DEF SubType
  <2> QED
    BY <1>3, <2>1, FlowAssumption DEF Exhausted
<1>5. /\ u \in FlowMachine /\ u.co = s.co /\ u.axis = s.axis /\ u.align = s.align
      /\ u.k = s.k /\ u.busy = s.busy /\ u.sub.type = s.sub.type /\ u.sub.task = s.sub.task
      /\ u.sub.retain = s.sub.retain /\ u.sub.state = s.sub.state /\ u.sub.stage = s.sub.stage
      /\ u.sub.attempt \in 0 .. MaxAttempts
  <2>1. u.sub = [s.sub EXCEPT !.attempt = s.sub.attempt + 1]
    BY <1>1, <1>4, AttemptThis
  <2>2. u \in FlowMachine
    BY <1>1, <1>4, AttemptThis
  <2>3. u.sub.attempt \in 0 .. MaxAttempts
    BY <2>2 DEF FlowMachine, SubType
  <2> QED
    BY <1>1, <1>4, <2>2, <2>3, AttemptThis, ZenonT(40)
<1> HIDE DEF u
<1>6. Like(s, u) /\ ~AlignActive(u)
  BY <1>3, <1>5 DEF Like, Calm, Moves, AlignActive
<1>7. From(s, s)
  BY SameFrom DEF Polling
<1>8. From(s, Fail(u, "FINAL"))
  BY <1>1, <1>6, FailFrom DEF Reasons
<1>9. From(s, Complete([u EXCEPT !.sub.recorded = TRUE]))
  <2> DEFINE v == [u EXCEPT !.sub.recorded = TRUE]
  <2>1. /\ v \in FlowMachine /\ v.co = u.co /\ v.axis = u.axis /\ v.align = u.align
        /\ v.k = u.k /\ v.busy = u.busy /\ v.sub.type = u.sub.type /\ v.sub.task = u.sub.task
        /\ v.sub.retain = u.sub.retain
    BY <1>5 DEF FlowMachine, SubType
  <2> HIDE DEF v
  <2>2. /\ Like(s, v) /\ ~AlignActive(v) /\ (Tracked(s) => Still(v))
        /\ v.sub.type \notin GripTypes
    BY <1>2, <1>3, <1>5, <2>1 DEF Like, Calm, Moves, AlignActive, Tracked, Still, GripTypes
  <2> QED
    BY <1>1, <2>2, CompleteFrom DEF v
<1>10. ~Exhausted(u) => From(s, [u EXCEPT !.sub.state = "RETRY_WAIT"])
  <2> SUFFICES ASSUME ~Exhausted(u) PROVE From(s, [u EXCEPT !.sub.state = "RETRY_WAIT"])
    OBVIOUS
  <2> DEFINE f == [u.sub EXCEPT !.state = "RETRY_WAIT"]
  <2>1. /\ f \in SubType /\ f.type = "RECORD" /\ f.task = s.sub.task
        /\ f.retain = s.sub.retain /\ f.state = "RETRY_WAIT" /\ f.attempt = u.sub.attempt
        /\ f.stage = s.sub.stage
    BY <1>2, <1>5 DEF SubType, FlowStates, FlowMachine
  <2>2. [u EXCEPT !.sub.state = "RETRY_WAIT"] = [s EXCEPT !.sub = f]
    <3>1. [u EXCEPT !.sub.state = "RETRY_WAIT"] = [u EXCEPT !.sub = f]
      BY <1>5 DEF FlowMachine
    <3>2. u = [s EXCEPT !.sub = u.sub]
      <4> DEFINE g == [s.sub EXCEPT !.attempt = s.sub.attempt + 1]
      <4>1. Attempt(s) = [s EXCEPT !.sub = g] /\ Attempt(s).sub = g
        BY <1>1, <1>4, AttemptThis
      <4> HIDE DEF g
      <4> QED
        BY <4>1 DEF u
    <3> QED
      BY <1>1, <3>1, <3>2 DEF FlowMachine
  <2> HIDE DEF f
  <2>3. Active(f) /\ Within(f)
    BY <1>2, <1>3, <1>5, <2>1, FlowAssumption DEF Polling, Within, Active, Exhausted, ObserveTypes
  <2>4. f.type = s.sub.type
    BY <1>2, <2>1
  <2> QED
    BY <1>1, <1>3, <2>1, <2>2, <2>3, <2>4, SubFrom DEF Tracked
<1>11. Become(IF sub.state = "RETRY_WAIT" /\ ~late THEN s
              ELSE IF AllIdle(u) THEN Complete([u EXCEPT !.sub.recorded = TRUE])
              ELSE IF Exhausted(u) THEN Fail(u, "FINAL")
              ELSE [u EXCEPT !.sub.state = "RETRY_WAIT"])
  BY DEF Record, u
<1> HIDE DEF s
<1> QED
  BY <1>7, <1>8, <1>9, <1>10, <1>11, BecomeFrom DEF s

\* The stage of a pose under way names an axis.
LEMMA PoseAxisIs ==
  ASSUME NEW f \in SubType, f.stage < 3, NEW g \in SubType, g.type = f.type, g.task = f.task,
         g.stage = f.stage
  PROVE  PoseAxis(f) \in Axes /\ PoseAxis(g) = PoseAxis(f)
<1>1. f.stage \in 0 .. 3
  BY DEF SubType
<1>2. f.stage \in {0, 1, 2}
  BY <1>1
<1>3. PoseAxis(f) \in Axes
  BY <1>2 DEF PoseAxis, Axes
<1> QED
  BY <1>3 DEF PoseAxis

\* The motions to a pose: one axis after the other.
LEMMA PoseFrom ==
  ASSUME Polling(Now), busy' = busy, NEW late \in BOOLEAN, Pose(late)
  PROVE  From(Now, Now')
<1> DEFINE s == Now
           u == Attempt(s)
           axs == PoseAxis(s.sub)
<1>1. s.sub = sub /\ s.axis = axis /\ s \in FlowMachine /\ s.sub \in SubType
  BY NowIs DEF Polling, FlowMachine
<1>2. s.sub.type \in PoseTypes
  BY <1>1 DEF Pose, PolledHealthy, Polled
<1>3. /\ ~AlignActive(s) /\ s.sub.type # "RECORD" /\ s.sub.type \notin GripTypes
      /\ s.sub.type \notin ObserveTypes /\ Leftover(s.sub.type) = {} /\ s.sub.stage < 3
      /\ s.sub.state = "WAIT_IDLE" => Movers(s.sub, s.align) = {axs}
      /\ s.sub.state # "WAIT_IDLE" => Movers(s.sub, s.align) = {}
  BY <1>2, NotAligning
  DEF Polling, Within, PoseTypes, AlignTypes, GripTypes, Movers, Leftover, ObserveTypes
<1>4. axs \in Axes
  BY <1>1, <1>3, PoseAxisIs
<1>5. From(s, s)
  BY SameFrom DEF Polling
<1>6. s.sub.state # "WAIT_IDLE" => From(s, [s EXCEPT !.sub.state = "STARTING"])
  <2>1. "STARTING" \in FlowStates \ {"IDLE", "COMPLETE", "FAULT"}
    BY DEF FlowStates
  <2> QED
    BY <1>3, <2>1, StateFrom DEF Tracked
<1>7. \A r \in Reasons : From(s, Fail(s, r))
  BY <1>1, <1>3, LikeSelf, FailFrom
<1>8. /\ s.sub.state # "WAIT_IDLE" /\ ~Exhausted(s)
      => /\ From(s, RetryOrFail(u))
         /\ From(s, [u EXCEPT !.sub.state = "WAIT_IDLE"])
         /\ From(s, [Moved(u, axs) EXCEPT !.sub.state = "WAIT_IDLE"])
  <2> SUFFICES ASSUME s.sub.state # "WAIT_IDLE", ~Exhausted(s)
               PROVE  /\ From(s, RetryOrFail(u))
                      /\ From(s, [u EXCEPT !.sub.state = "WAIT_IDLE"])
                      /\ From(s, [Moved(u, axs) EXCEPT !.sub.state = "WAIT_IDLE"])
    OBVIOUS
  <2> DEFINE h == [s.sub EXCEPT !.attempt = s.sub.attempt + 1]
             f == [h EXCEPT !.state = "WAIT_IDLE"]
  <2>1. u = [s EXCEPT !.sub = h] /\ h \in SubType
    BY <1>1, AttemptThis
  <2>2. /\ h.type = s.sub.type /\ h.task = s.sub.task /\ h.retain = s.sub.retain
        /\ h.stage = s.sub.stage
    BY <1>1 DEF SubType
  <2> HIDE DEF u, h
  <2>3. /\ f \in SubType /\ f.type = s.sub.type /\ f.task = s.sub.task
        /\ f.retain = s.sub.retain /\ f.stage = s.sub.stage /\ f.state = "WAIT_IDLE"
    BY <2>1, <2>2 DEF SubType, FlowStates
  <2>4. /\ [u EXCEPT !.sub.state = "WAIT_IDLE"] = [s EXCEPT !.sub = f]
        /\ [Moved(u, axs) EXCEPT !.sub.state = "WAIT_IDLE"]
             = [s EXCEPT !.axis[axs] = "moving", !.sub = f]
    BY <1>1, <2>1 DEF Moved, FlowMachine
  <2> HIDE DEF f
  <2>5. Active(f) /\ Within(f) /\ Movers(f, s.align) = {axs}
    BY <1>1, <1>2, <1>3, <2>3, PoseAxisIs DEF Polling, Within, Active, Movers
  <2>6. From(s, RetryOrFail(u))
    BY <1>1, <1>3, SelfRetriable, RetryOrFailFrom DEF u, Tracked
  <2>7. From(s, [s EXCEPT !.sub = f])
    BY <1>1, <1>3, <2>3, <2>5, SubFrom DEF Tracked
  <2>8. From(s, [s EXCEPT !.axis[axs] = "moving", !.sub = f])
    BY <1>1, <1>3, <1>4, <2>3, <2>5, MoveFrom DEF Tracked
  <2> QED
    BY <2>4, <2>6, <2>7, <2>8
<1>9. s.sub.state = "WAIT_IDLE" /\ s.axis[axs] = "idle" =>
        LET t == [s EXCEPT !.sub.stage = @ + 1, !.sub.state = "STARTING"]
        IN From(s, IF t.sub.stage >= 3 THEN Complete(t) ELSE t)
  <2> SUFFICES ASSUME s.sub.state = "WAIT_IDLE", s.axis[axs] = "idle"
               PROVE  LET t == [s EXCEPT !.sub.stage = @ + 1, !.sub.state = "STARTING"]
                      IN From(s, IF t.sub.stage >= 3 THEN Complete(t) ELSE t)
    OBVIOUS
  <2> DEFINE n == s.sub.stage + 1
             f == [s.sub EXCEPT !.stage = n, !.state = "STARTING"]
             t == [s EXCEPT !.sub = f]
  <2>1. n \in 0 .. 3
    BY <1>1, <1>3 DEF SubType
  <2>2. [s EXCEPT !.sub.stage = @ + 1, !.sub.state = "STARTING"] = t
    BY <1>1 DEF FlowMachine, SubType
  <2> HIDE DEF n
  <2>3. /\ f \in SubType /\ f.type = s.sub.type /\ f.task = s.sub.task
        /\ f.retain = s.sub.retain /\ f.stage = n /\ f.state = "STARTING"
    BY <1>1, <2>1 DEF SubType, FlowStates
  <2> HIDE DEF f
  <2>4. /\ t \in FlowMachine /\ t.co = s.co /\ t.axis = s.axis /\ t.align = s.align
        /\ t.k = s.k /\ t.busy = s.busy /\ t.sub = f
    BY <1>1, <2>3 DEF FlowMachine
  <2>5. Tracked(s) => Still(s)
    BY <1>3 DEF Tracked, Still, Moves
  <2>6. CASE n >= 3
    <3>1. /\ Like(s, t) /\ ~AlignActive(t) /\ (Tracked(s) => Still(t))
          /\ t.sub.type \notin GripTypes
      BY <1>3, <2>3, <2>4, <2>5 DEF Like, Calm, Moves, AlignActive, Still
    <3>2. From(s, Complete(t))
      BY <1>1, <3>1, CompleteFrom
    <3> QED
      BY <2>2, <2>3, <2>4, <2>6, <3>2
  <2>7. CASE ~(n >= 3)
    <3>1. n < 3
      BY <2>1, <2>7
    <3>2. Active(f) /\ Within(f)
      BY <1>2, <1>3, <2>3, <3>1 DEF Polling, Within, Active
    <3>3. From(s, t)
      BY <1>1, <1>3, <2>3, <2>5, <3>2, SubFrom DEF Still
    <3> QED
      BY <2>2, <2>3, <2>4, <2>7, <3>3
  <2> QED
    BY <2>6, <2>7
<1> HIDE DEF axs, u
<1>10. \E t : Become(t) /\ From(s, t)
  <2>1. CASE /\ sub.state = "RETRY_WAIT"
             /\ Become(IF late THEN [s EXCEPT !.sub.state = "STARTING"] ELSE s)
    BY <1>1, <1>5, <1>6, <2>1
  <2>2. CASE /\ sub.state = "STARTING"
             /\ \E there \in BOOLEAN :
                  Become(IF Exhausted(s) THEN Fail(s, "TRANSIENT")
                         ELSE IF there THEN [u EXCEPT !.sub.state = "WAIT_IDLE"]
                         ELSE IF ~MayMove(s, axs) THEN RetryOrFail(u)
                         ELSE [Moved(u, axs) EXCEPT !.sub.state = "WAIT_IDLE"])
    BY <1>1, <1>7, <1>8, <2>2 DEF Reasons
  <2>3. CASE /\ sub.state = "WAIT_IDLE"
             /\ LET t == [s EXCEPT !.sub.stage = @ + 1, !.sub.state = "STARTING"]
                IN Become(IF axis[axs] = "idle"
                          THEN IF t.sub.stage >= 3 THEN Complete(t) ELSE t
                          ELSE IF late THEN Fail(s, "TRANSIENT") ELSE s)
    BY <1>1, <1>5, <1>7, <1>9, <2>3 DEF Reasons
  <2> QED
    <3>1. PoseAxis(sub) = axs
      BY <1>1 DEF axs
    <3> QED
      BY <2>1, <2>2, <2>3, <3>1 DEF Pose, u
<1> HIDE DEF s
<1> QED
  BY <1>10, BecomeFrom DEF s

\* After every axis has been told to stop the subflow can be tried again.
LEMMA StopRetriable ==
  ASSUME NEW s, Polling(s), ~AlignActive(s), s.sub.type # "RECORD",
         Tracked(s) => \A a \in Axes : Moves(s, a) => a \in Leftover(s.sub.type)
  PROVE  Retriable(s, StopAxes(s))
<1>1. s \in Machine
  BY DEF Polling, Machine
<1>2. Stops(s, StopAxes(s), Axes)
  BY <1>1, StopAll
<1> QED
  BY <1>2 DEF Stops, SameKind, Retriable, Like, Calm, AlignActive, Polling, Within

\* A change of counters before the step proper.
LEMMA Transit ==
  ASSUME NEW s, NEW u, NEW t, From(u, t), u.co = s.co, u.k = s.k, u.busy = s.busy,
         u.sub.type = s.sub.type, u.sub.task = s.sub.task, u.sub.retain = s.sub.retain,
         Tracked(s) => Tracked(u)
  PROVE  From(s, t)
BY DEF From

\* An attempt of the blind motion of Y.
LEMMA BlindAttemptFrom ==
  ASSUME NEW s, Polling(s), s.sub.type = "BLIND_Y", NEW reading
  PROVE  From(s, BlindAttempt(s, reading))
<1> DEFINE u == Attempt(s)
<1>1. s \in FlowMachine /\ s.sub \in SubType /\ Like(s, s)
  BY LikeSelf DEF Polling, FlowMachine
<1>2. /\ ~AlignActive(s) /\ s.sub.type # "RECORD" /\ s.sub.type \notin GripTypes
      /\ s.sub.type \in OwnFaults /\ s.sub.stage < 3
      /\ Leftover(s.sub.type) = {"Y"} /\ Movers(s.sub, s.align) = {"Y"}
  BY NotAligning DEF Polling, Within, AlignTypes, GripTypes, OwnFaults, Movers, Leftover, PoseTypes
<1>3. From(s, Recover(s, FALSE))
  BY <1>1, <1>2, RecoverFrom
<1>4. From(s, [s EXCEPT !.sub.state = "RETRY_WAIT"])
  <2>1. "RETRY_WAIT" \in FlowStates \ {"IDLE", "COMPLETE", "FAULT"}
    BY DEF FlowStates
  <2>2. Movers([s.sub EXCEPT !.state = "RETRY_WAIT"], s.align) = {"Y"}
    BY <1>1 DEF Movers, Leftover, PoseTypes, AlignTypes, SubType
  <2> QED
    BY <1>2, <2>1, <2>2, StateFrom DEF Tracked
<1>5. \A r \in Reasons : From(s, Fail(s, r))
  BY <1>1, <1>2, FailFrom
<1>6. AllIdle(s) => Still(s)
  BY DEF AllIdle, Still, Moves
<1>7. ~Exhausted(s) /\ AllIdle(s) =>
        /\ From(s, Complete(u)) /\ From(s, Fail(u, "FINAL")) /\ From(s, RetryOrFail(u))
        /\ From(s, [Moved(u, "Y") EXCEPT !.sub.state = "WAIT_IDLE"])
  <2> SUFFICES ASSUME ~Exhausted(s), AllIdle(s)
               PROVE  /\ From(s, Complete(u)) /\ From(s, Fail(u, "FINAL"))
                      /\ From(s, RetryOrFail(u))
                      /\ From(s, [Moved(u, "Y") EXCEPT !.sub.state = "WAIT_IDLE"])
    OBVIOUS
  <2> DEFINE h == [s.sub EXCEPT !.attempt = s.sub.attempt + 1]
             f == [h EXCEPT !.state = "WAIT_IDLE"]
  <2>1. u = [s EXCEPT !.sub = h] /\ h \in SubType
    BY <1>1, AttemptThis
  <2>2. /\ h.type = s.sub.type /\ h.task = s.sub.task /\ h.retain = s.sub.retain
        /\ h.stage = s.sub.stage
    BY <1>1 DEF SubType
  <2>3. Retriable(s, u)
    BY <1>1, <1>2, SelfRetriable DEF Tracked
  <2>4. u.axis = s.axis /\ u.sub.type = s.sub.type
    BY <1>1, AttemptThis
  <2> HIDE DEF u, h
  <2>5. From(s, RetryOrFail(u))
    BY <1>1, <2>3, RetryOrFailFrom
  <2>6. From(s, Fail(u, "FINAL"))
    BY <1>1, <2>3, FailFrom DEF Retriable, Reasons
  <2>7. From(s, Complete(u))
    BY <1>1, <1>2, <1>6, <2>3, <2>4, CompleteFrom DEF Retriable, Still, Moves
  <2>8. /\ f \in SubType /\ f.type = s.sub.type /\ f.task = s.sub.task
        /\ f.retain = s.sub.retain /\ f.stage = s.sub.stage /\ f.state = "WAIT_IDLE"
    BY <2>1, <2>2 DEF SubType, FlowStates
  <2>9. [Moved(u, "Y") EXCEPT !.sub.state = "WAIT_IDLE"]
             = [s EXCEPT !.axis["Y"] = "moving", !.sub = f]
    BY <1>1, <2>1 DEF Moved, FlowMachine
  <2> HIDE DEF f
  <2>10. Active(f) /\ Within(f) /\ Movers(f, s.align) = {"Y"} /\ "Y" \in Axes
    BY <1>2, <2>8
    DEF Polling, Within, Active, Movers, Leftover, PoseTypes, AlignTypes, ObserveTypes, Axes
  <2>11. From(s, [s EXCEPT !.axis["Y"] = "moving", !.sub = f])
    BY <1>1, <1>2, <1>6, <2>8, <2>10, MoveFrom DEF Tracked
  <2> QED
    BY <2>5, <2>6, <2>7, <2>9, <2>11
<1> HIDE DEF u
<1> QED
  BY <1>3, <1>4, <1>5, <1>7 DEF BlindAttempt, u, Reasons

\* The blind motion of Y.
LEMMA BlindYFrom ==
  ASSUME Polling(Now), busy' = busy, NEW late \in BOOLEAN, BlindY(late)
  PROVE  From(Now, Now')
<1> DEFINE s == Now
<1>1. /\ s.sub = sub /\ s.axis = axis /\ s \in FlowMachine /\ s.sub \in SubType
      /\ Like(s, s)
  BY NowIs, LikeSelf DEF Polling, FlowMachine
<1>2. s.sub.type = "BLIND_Y"
  BY <1>1 DEF BlindY, Polled
<1>3. /\ ~AlignActive(s) /\ s.sub.type # "RECORD" /\ s.sub.type \notin GripTypes
      /\ s.sub.type \in OwnFaults /\ s.sub.stage < 3
      /\ Leftover(s.sub.type) = {"Y"} /\ Movers(s.sub, s.align) = {"Y"}
  BY <1>2, NotAligning
  DEF Polling, Within, AlignTypes, GripTypes, OwnFaults, Movers, Leftover, PoseTypes
<1>4. From(s, s)
  BY SameFrom DEF Polling
<1>5. From(s, [s EXCEPT !.sub.state = "STARTING"])
  <2>1. "STARTING" \in FlowStates \ {"IDLE", "COMPLETE", "FAULT"}
    BY DEF FlowStates
  <2>2. Movers([s.sub EXCEPT !.state = "STARTING"], s.align) = {"Y"}
    BY <1>1, <1>2 DEF Movers, Leftover, PoseTypes, AlignTypes, SubType
  <2> QED
    BY <1>3, <2>1, <2>2, StateFrom DEF Tracked
<1>6. \A reading : From(s, BlindAttempt(s, reading))
  BY <1>2, BlindAttemptFrom
<1>7. s.axis["Y"] = "idle" => From(s, Complete(s))
  BY <1>1, <1>3, CompleteFrom DEF Tracked, Still, Moves
<1>8. From(s, Recover(s, TRUE))
  BY <1>1, <1>3, RecoverFrom
<1>9. From(s, RetryOrFail(StopAxes(s)))
  BY <1>1, <1>3, StopRetriable, RetryOrFailFrom DEF Tracked
<1> HIDE DEF s
<1>10. \E t : Become(t) /\ From(s, t)
  <2>1. CASE /\ sub.state = "RETRY_WAIT"
             /\ Become(IF late THEN [s EXCEPT !.sub.state = "STARTING"] ELSE s)
    BY <1>4, <1>5, <2>1
  <2>2. CASE /\ sub.state = "STARTING"
             /\ \E reading \in {"none", "near", "far", "limit", "refused"} :
                  Become(BlindAttempt(s, reading))
    BY <1>6, <2>2
  <2>3. CASE /\ sub.state = "WAIT_IDLE"
             /\ Become(IF axis["Y"] = "idle" THEN Complete(s)
                       ELSE IF FaultSource(s) # "NONE" THEN Recover(s, TRUE)
                       ELSE IF late THEN RetryOrFail(StopAxes(s)) ELSE s)
    BY <1>1, <1>4, <1>7, <1>8, <1>9, <2>3
  <2> QED
    BY <2>1, <2>2, <2>3 DEF BlindY, s
<1> QED
  BY <1>10, BecomeFrom DEF s

\* A segment of the descent.
LEMMA SegmentFrom ==
  ASSUME NEW s, Polling(s), s.sub.type = "DESCEND", s.axis["Z"] = "idle", NEW limit \in BOOLEAN
  PROVE  From(s, Segment(s, limit))
<1>1. s \in FlowMachine /\ s.sub \in SubType /\ Like(s, s)
  BY LikeSelf DEF Polling, FlowMachine
<1>2. ~AlignActive(s) /\ Movers(s.sub, s.align) = {"Z"}
  BY NotAligning DEF Polling, AlignTypes, Movers, Leftover, PoseTypes
<1>3. From(s, s)
  BY SameFrom DEF Polling
<1>4. From(s, Fail(s, "FINAL"))
  BY <1>1, <1>2, FailFrom DEF Reasons
<1>5. CASE s.sub.left # 0
  <2> DEFINE n == s.sub.left - 1
             f == [s.sub EXCEPT !.left = n, !.state = "RUNNING"]
  <2>1. s.sub.left \in 0 .. MaxSegments
    BY <1>1 DEF SubType
  <2>2. n \in 0 .. MaxSegments
    BY <1>5, <2>1, FlowAssumption
  <2>3. [Moved(s, "Z") EXCEPT !.sub.left = @ - 1, !.sub.state = "RUNNING"]
          = [s EXCEPT !.axis["Z"] = "moving", !.sub = f]
    BY <1>1 DEF Moved, FlowMachine, SubType
  <2> HIDE DEF n
  <2>4. /\ f \in SubType /\ f.type = s.sub.type /\ f.task = s.sub.task
        /\ f.retain = s.sub.retain /\ f.stage = s.sub.stage /\ f.state = "RUNNING"
    BY <1>1, <2>2 DEF SubType, FlowStates
  <2> HIDE DEF f
  <2>5. Active(f) /\ Within(f) /\ Movers(f, s.align) = {"Z"} /\ "Z" \in Axes
    BY <2>4 DEF Polling, Within, Active, Movers, Leftover, PoseTypes, AlignTypes, ObserveTypes, Axes
  <2>6. From(s, [s EXCEPT !.axis["Z"] = "moving", !.sub = f])
    BY <1>1, <1>2, <2>4, <2>5, MoveFrom DEF Tracked
  <2> QED
    BY <1>3, <1>4, <2>3, <2>6 DEF Segment
<1>6. CASE s.sub.left = 0
  BY <1>4, <1>6 DEF Segment
<1> QED
  BY <1>5, <1>6

\* What a descent has whenever it is polled: Z is the one axis it moves.
LEMMA DescendBasics ==
  ASSUME NEW s, Polling(s), s.sub.type = "DESCEND"
  PROVE  /\ s \in FlowMachine /\ s.sub \in SubType /\ Like(s, s) /\ s \in Machine
         /\ ~AlignActive(s) /\ s.sub.type # "RECORD" /\ s.sub.type \notin GripTypes
         /\ s.sub.type \in OwnFaults /\ s.sub.stage < 3
         /\ Leftover(s.sub.type) = {"Z"} /\ Movers(s.sub, s.align) = {"Z"}
         /\ \A state : Movers([s.sub EXCEPT !.state = state], s.align) = {"Z"}
<1>1. s \in FlowMachine /\ s.sub \in SubType /\ Like(s, s) /\ s \in Machine
  BY LikeSelf DEF Polling, FlowMachine, Machine
<1>2. \A state : [s.sub EXCEPT !.state = state].type = s.sub.type
  BY <1>1 DEF SubType
<1>3. \A f, al : f.type = "DESCEND" => Movers(f, al) = {"Z"}
  BY DEF Movers, Leftover, PoseTypes, AlignTypes
<1> QED
  BY <1>1, <1>2, <1>3, NotAligning
  DEF Polling, Within, AlignTypes, GripTypes, OwnFaults, Leftover

\* The descent once it looks at the axis.
LEMMA DescendTail ==
  ASSUME NEW s, Polling(s), s.sub.type = "DESCEND", NEW limit \in BOOLEAN
  PROVE  /\ From(s, s) /\ From(s, [s EXCEPT !.sub.state = "STARTING"])
         /\ From(s, Recover(s, TRUE)) /\ From(s, RetryOrFail(s))
         /\ From(s, RetryOrFail(StopAxes(s)))
         /\ s.axis["Z"] = "idle" => From(s, Segment(s, limit)) /\ From(s, Complete(s))
<1> USE DescendBasics
<1>1. From(s, s)
  BY SameFrom DEF Polling
<1>2. From(s, [s EXCEPT !.sub.state = "STARTING"])
  <2>1. "STARTING" \in FlowStates \ {"IDLE", "COMPLETE", "FAULT"}
    BY DEF FlowStates
  <2> QED
    BY <2>1, StateFrom DEF Tracked
<1>3. From(s, Recover(s, TRUE))
  BY RecoverFrom
<1>4. From(s, RetryOrFail(s))
  BY SelfRetriable, RetryOrFailFrom DEF Tracked
<1>5. From(s, RetryOrFail(StopAxes(s)))
  BY StopRetriable, RetryOrFailFrom DEF Tracked
<1>6. s.axis["Z"] = "idle" => From(s, Segment(s, limit))
  BY SegmentFrom
<1>7. s.axis["Z"] = "idle" => From(s, Complete(s))
  BY CompleteFrom DEF Tracked, Still, Moves
<1> QED
  BY <1>1, <1>2, <1>3, <1>4, <1>5, <1>6, <1>7

\* The steps of a descent once its sample is known.
LEMMA DescendedFrom ==
  ASSUME NEW s, Polling(s), s.sub.type = "DESCEND", NEW fresh \in BOOLEAN, NEW quiet \in BOOLEAN,
         NEW late \in BOOLEAN, NEW limit \in BOOLEAN
  PROVE  From(s, Descended(s, fresh, quiet, late, limit))
<1> DEFINE still == s.axis["Z"] = "idle"
           v == StopThese(s, {"Z"})
           halt == [v EXCEPT !.sub.state = "WAIT_IDLE"]
           run == [s EXCEPT !.sub.state = "RUNNING"]
           t == IF s.sub.state = "WAIT_IDLE" /\ still THEN run ELSE s
           tail == IF t.sub.state = "RETRY_WAIT"
                   THEN IF late THEN [t EXCEPT !.sub.state = "STARTING"] ELSE t
                   ELSE IF FaultSource(t) # "NONE" THEN Recover(t, TRUE)
                   ELSE IF t.sub.state = "STARTING" \/ (t.sub.state = "RUNNING" /\ still)
                   THEN IF ~still THEN t
                        ELSE IF fresh THEN Segment(t, limit)
                        ELSE IF late THEN RetryOrFail(t) ELSE t
                   ELSE IF late THEN RetryOrFail(StopAxes(t)) ELSE t
<1>1. /\ s \in FlowMachine /\ s.sub \in SubType /\ s \in Machine /\ ~AlignActive(s)
      /\ Movers(s.sub, s.align) = {"Z"}
      /\ \A state : Movers([s.sub EXCEPT !.state = state], s.align) = {"Z"}
  BY DescendBasics
<1>2. From(s, halt)
  <2>1. Stops(s, v, {"Z"})
    BY <1>1, StopThis DEF Axes
  <2>2. v \in FlowMachine /\ Polling(v) /\ v.sub.type = "DESCEND"
    BY <1>1, <2>1 DEF Stops, SameKind, Polling, Attended, AlignActive
  <2>3. "WAIT_IDLE" \in FlowStates \ {"IDLE", "COMPLETE", "FAULT"}
    BY DEF FlowStates
  <2> HIDE DEF v
  <2>4. From(v, halt)
    BY <2>2, <2>3, DescendBasics, StateFrom DEF Tracked
  <2>5. Tracked(s) => Tracked(v)
    BY <1>1, <2>1, <2>2, DescendBasics DEF Stops, Calm, Tracked
  <2> QED
    BY <2>1, <2>4, <2>5, Transit DEF Stops
<1>3. /\ Polling(t) /\ t.sub.type = "DESCEND" /\ t.axis = s.axis /\ t.co = s.co /\ t.k = s.k
      /\ t.busy = s.busy /\ t.sub.task = s.sub.task /\ t.sub.retain = s.sub.retain
  <2>1. /\ run.sub \in SubType /\ run \in FlowMachine /\ run.sub.type = "DESCEND"
        /\ run.axis = s.axis /\ run.co = s.co /\ run.k = s.k /\ run.align = s.align
        /\ run.busy = s.busy /\ run.sub.task = s.sub.task /\ run.sub.retain = s.sub.retain
        /\ run.sub.stage = s.sub.stage /\ run.sub.state = "RUNNING"
    BY <1>1 DEF FlowMachine, SubType, FlowStates
  <2> HIDE DEF run
  <2>2. Polling(run)
    BY <1>1, <2>1 DEF Polling, Within, Active, Attended, AlignActive, ObserveTypes
  <2> QED
    BY <2>1, <2>2
<1> HIDE DEF run, t, halt
<1>4. From(t, tail)
  BY <1>3, DescendTail
<1>5. From(s, tail)
  <2>1. Tracked(s) => Tracked(t)
    BY <1>1, <1>3, DescendBasics DEF Tracked, Moves
  <2> QED
    BY <1>3, <1>4, <2>1, Transit
<1>6. From(s, s) /\ From(s, RetryOrFail(StopAxes(s))) /\ (still => From(s, Complete(s)))
  BY DescendTail
<1> HIDE DEF tail
<1>7. Descended(s, fresh, quiet, late, limit) =
        IF quiet /\ s.sub.state # "RETRY_WAIT" THEN RetryOrFail(StopAxes(s))
        ELSE IF s.sub.stable > 0
        THEN IF s.axis["Z"] = "moving" THEN halt
             ELSE IF still /\ s.sub.stable >= StableSamples THEN Complete(s) ELSE s
        ELSE tail
  BY Zenon DEF Descended, tail, t, run, halt
<1> QED
  BY <1>2, <1>5, <1>6, <1>7

\* A new attempt of the descent, opened.
LEMMA OpenedThis ==
  ASSUME NEW s \in FlowMachine, ~Exhausted(s)
  PROVE  LET t == [Attempt(s) EXCEPT !.sub.issued = TRUE]
         IN /\ t \in FlowMachine /\ t.co = s.co /\ t.axis = s.axis /\ t.align = s.align
            /\ t.k = s.k /\ t.busy = s.busy /\ t.sub.type = s.sub.type
            /\ t.sub.task = s.sub.task /\ t.sub.retain = s.sub.retain
            /\ t.sub.stage = s.sub.stage /\ t.sub.state = s.sub.state
<1> DEFINE u == Attempt(s)
           h == u.sub
           f == [h EXCEPT !.issued = TRUE]
<1>1. /\ u \in FlowMachine /\ u.co = s.co /\ u.axis = s.axis /\ u.align = s.align /\ u.k = s.k
      /\ u.busy = s.busy /\ h.type = s.sub.type /\ h.task = s.sub.task
      /\ h.retain = s.sub.retain /\ h.stage = s.sub.stage /\ h.state = s.sub.state
  BY AttemptThis
<1> HIDE DEF u
<1>2. h \in SubType
  BY <1>1 DEF FlowMachine
<1>3. /\ f \in SubType /\ f.type = h.type /\ f.task = h.task /\ f.retain = h.retain
      /\ f.stage = h.stage /\ f.state = h.state
  BY <1>2 DEF SubType
<1>4. [u EXCEPT !.sub.issued = TRUE] = [u EXCEPT !.sub = f]
  BY <1>1 DEF FlowMachine
<1> HIDE DEF f
<1>5. LET x == [u EXCEPT !.sub = f]
      IN /\ x \in FlowMachine /\ x.co = u.co /\ x.axis = u.axis /\ x.align = u.align
         /\ x.k = u.k /\ x.busy = u.busy /\ x.sub = f
  BY <1>1, <1>3 DEF FlowMachine
<1> QED
  BY <1>1, <1>3, <1>4, <1>5 DEF u

\* The sample of a poll is counted.
LEMMA SampledFrom ==
  ASSUME NEW s, Polling(s), s.sub.type = "DESCEND", NEW n \in 0 .. StableSamples,
         NEW fresh \in BOOLEAN, NEW quiet \in BOOLEAN, NEW late \in BOOLEAN,
         NEW limit \in BOOLEAN
  PROVE  From(s, Descended([s EXCEPT !.sub.stable = n], fresh, quiet, late, limit))
<1> DEFINE w == [s EXCEPT !.sub.stable = n]
<1>1. s \in FlowMachine /\ s.sub \in SubType
  BY DEF Polling, FlowMachine
<1>2. /\ w \in FlowMachine /\ w.co = s.co /\ w.axis = s.axis /\ w.align = s.align
      /\ w.k = s.k /\ w.busy = s.busy /\ w.sub.type = s.sub.type
      /\ w.sub.task = s.sub.task /\ w.sub.retain = s.sub.retain
      /\ w.sub.stage = s.sub.stage /\ w.sub.state = s.sub.state
  BY <1>1 DEF FlowMachine, SubType
<1> HIDE DEF w
<1>3. Polling(w) /\ w.sub.type = "DESCEND"
  BY <1>2, DescendBasics DEF Polling, Within, Active, Attended, AlignActive, ObserveTypes
<1>4. From(w, Descended(w, fresh, quiet, late, limit))
  BY <1>3, DescendedFrom
<1>5. Tracked(s) => Tracked(w)
  BY <1>2, <1>3, DescendBasics DEF Tracked, Moves
<1>6. From(s, Descended(w, fresh, quiet, late, limit))
  BY <1>2, <1>4, <1>5, Transit
<1> QED
  BY <1>6 DEF w

\* The descent.
LEMMA DescendFrom ==
  ASSUME Polling(Now), busy' = busy, NEW late \in BOOLEAN, Descend(late)
  PROVE  From(Now, Now')
<1> DEFINE s == Now
           opens == sub.state = "STARTING" /\ ~sub.issued
           opened == IF opens THEN [Attempt(s) EXCEPT !.sub.issued = TRUE] ELSE s
           counted(sample) == [opened EXCEPT !.sub.stable =
                                 IF sample = "above" THEN 0
                                 ELSE IF sample = "below" /\ @ < StableSamples THEN @ + 1 ELSE @]
<1>1. s.sub = sub /\ s \in FlowMachine /\ s.sub \in SubType /\ Like(s, s)
  BY NowIs, LikeSelf DEF Polling, FlowMachine
<1>2. s.sub.type = "DESCEND"
  BY <1>1 DEF Descend, Polled
<1>3. /\ ~AlignActive(s) /\ s.sub.type \in OwnFaults /\ s.sub.stage < 3
      /\ Movers(s.sub, s.align) = {"Z"}
      /\ \A state : Movers([s.sub EXCEPT !.state = state], s.align) = {"Z"}
  BY <1>2, DescendBasics
<1>4. From(s, Recover(s, TRUE))
  BY <1>1, <1>3, RecoverFrom
<1>5. From(s, [s EXCEPT !.sub.state = "RETRY_WAIT"])
  <2>1. "RETRY_WAIT" \in FlowStates \ {"IDLE", "COMPLETE", "FAULT"}
    BY DEF FlowStates
  <2> QED
    BY <1>3, <2>1, StateFrom DEF Tracked
<1>6. \A r \in Reasons : From(s, Fail(s, r))
  BY <1>1, <1>3, FailFrom
<1>7. ASSUME opens => ~Exhausted(s), NEW sample, NEW fresh \in BOOLEAN,
             NEW limit \in BOOLEAN, NEW quiet \in BOOLEAN
      PROVE  From(s, Descended(counted(sample), fresh, quiet, late, limit))
  <2>1. /\ opened \in FlowMachine /\ opened.co = s.co
        /\ opened.axis = s.axis /\ opened.align = s.align
        /\ opened.k = s.k /\ opened.busy = s.busy /\ opened.sub.type = s.sub.type
        /\ opened.sub.task = s.sub.task /\ opened.sub.retain = s.sub.retain
        /\ opened.sub.stage = s.sub.stage /\ opened.sub.state = s.sub.state
    <3>1. CASE opens
      <4>1. ~Exhausted(s) /\ opened = [Attempt(s) EXCEPT !.sub.issued = TRUE]
        BY <1>7, <3>1
      <4> HIDE DEF opened, opens, s
      <4> QED
        BY <1>1, <4>1, OpenedThis
    <3>2. CASE ~opens
      <4>1. opened = s
        BY <3>2
      <4> HIDE DEF opened, opens, s
      <4> QED
        BY <1>1, <4>1
    <3> QED
      BY <3>1, <3>2
  <2>2. counted(sample) = [opened EXCEPT !.sub.stable =
          IF sample = "above" THEN 0
          ELSE IF sample = "below" /\ opened.sub.stable < StableSamples
          THEN opened.sub.stable + 1 ELSE opened.sub.stable]
    <3> HIDE DEF opened
    <3> QED
      BY <2>1 DEF FlowMachine
  <2> DEFINE n == IF sample = "above" THEN 0
                  ELSE IF sample = "below" /\ opened.sub.stable < StableSamples
                  THEN opened.sub.stable + 1 ELSE opened.sub.stable
             w == counted(sample)
  <2>3. w = [opened EXCEPT !.sub.stable = n]
    BY <2>2
  <2> HIDE DEF opened, opens, s, w
  <2>4. opened.sub.stable \in 0 .. StableSamples
    BY <2>1 DEF FlowMachine, SubType
  <2>5. n \in 0 .. StableSamples
    BY <2>4, FlowAssumption
  <2> HIDE DEF n
  <2>6. Polling(opened) /\ opened.sub.type = "DESCEND"
    BY <1>2, <1>3, <2>1 DEF Polling, Within, Active, Attended, AlignActive, ObserveTypes, s
  <2>7. From(opened, Descended(w, fresh, quiet, late, limit))
    BY <2>3, <2>5, <2>6, SampledFrom
  <2>8. Tracked(s) => Tracked(opened)
    BY <1>3, <2>1, <2>6, DescendBasics DEF Tracked, Moves
  <2>9. From(s, Descended(w, fresh, quiet, late, limit))
    BY <2>1, <2>7, <2>8, Transit
  <2> QED
    BY <2>9 DEF w
<1>8. \E t : Become(t) /\ From(s, t)
  <2>1. CASE opens /\ FaultSource(s) # "NONE" /\ Become(Recover(s, TRUE))
    BY <1>4, <2>1
  <2>2. CASE /\ opens /\ FaultSource(s) = "NONE" /\ InMotion(s)
             /\ Become([s EXCEPT !.sub.state = "RETRY_WAIT"])
    BY <1>5, <2>2
  <2>3. CASE /\ opens /\ FaultSource(s) = "NONE" /\ ~InMotion(s)
             /\ ~AllIdle(s) \/ Exhausted(s)
             /\ Become(Fail(s, IF AllIdle(s) THEN "TRANSIENT" ELSE "FINAL"))
    BY <1>6, <2>3 DEF Reasons
  <2>4. CASE /\ opens => AllIdle(s) /\ ~Exhausted(s) /\ FaultSource(s) = "NONE"
             /\ \E sample \in {"none", "below", "above"}, limit \in BOOLEAN,
                   quiet \in {FALSE, late} :
                  /\ quiet => sample = "none"
                  /\ Become(Descended(counted(sample), sample # "none", quiet, late, limit))
    <3>1. opens => ~Exhausted(s)
      BY <2>4
    <3> HIDE DEF counted, opened, opens, s
    <3>2. PICK sample \in {"none", "below", "above"}, limit \in BOOLEAN, quiet \in {FALSE, late} :
            Become(Descended(counted(sample), sample # "none", quiet, late, limit))
      BY <2>4, Zenon
    <3>3. quiet \in BOOLEAN /\ (sample # "none") \in BOOLEAN
      OBVIOUS
    <3>4. From(s, Descended(counted(sample), sample # "none", quiet, late, limit))
      BY <1>7, <3>1, <3>3
    <3> QED
      BY <3>2, <3>4
  <2> QED
    BY <2>1, <2>2, <2>3, <2>4 DEF Descend
<1> HIDE DEF s
<1> QED
  BY <1>8, BecomeFrom DEF s

\* An alignment that begins finds its axes at rest.
LEMMA AlignBeginsFrom ==
  ASSUME NEW s, Polling(s), ~AlignActive(s), s.sub.type \in AlignTypes, s.co.owner = "MISSION",
         \A a \in AlignAxes(s.sub.type) : s.axis[a] = "idle", s.sub.state # "RUNNING",
         NEW h \in SubType, h.type = s.sub.type, h.task = s.sub.task, h.retain = s.sub.retain,
         h.stage = s.sub.stage,
         NEW t \in FlowMachine, t.co = s.co, t.axis = s.axis, t.busy = s.busy,
         t.k = s.k \/ t.k.state = "active",
         t.sub = [h EXCEPT !.state = "RUNNING"], t.align.state \in {"see", "mode"}
  PROVE  From(s, t)
<1>1. /\ t.sub.type = s.sub.type /\ t.sub.task = s.sub.task /\ t.sub.retain = s.sub.retain
      /\ t.sub.stage = s.sub.stage /\ t.sub.state = "RUNNING"
  BY DEF SubType
<1>2. Active(t.sub) /\ Within(t.sub) /\ Attended(t)
  BY <1>1 DEF Active, Within, Attended, Polling, AlignTypes, ObserveTypes
<1>3. Movers(s.sub, s.align) \subseteq AlignAxes(s.sub.type)
  BY DEF Movers, Leftover, AlignAxes, AlignTypes, PoseTypes
<1>4. Tracked(s) => Still(s)
  BY <1>3 DEF Tracked, Still, Moves
<1>5. Tracked(s) => Tracked(t) /\ OneMoves(t)
  BY <1>4 DEF Tracked, Still, Moves, OneMoves
<1> QED
  BY <1>1, <1>2, <1>5 DEF From

\* What is left in motion before an alignment is tried again.
LEMMA AlignBasics ==
  ASSUME NEW s, Polling(s), s.sub.type \in AlignTypes
  PROVE  /\ s \in FlowMachine /\ s.sub \in SubType /\ Like(s, s) /\ s \in Machine
         /\ s.sub.type # "RECORD" /\ s.sub.type \notin GripTypes
         /\ s.sub.type \in OwnFaults /\ s.sub.type \in FlowTypes \ {"RECORD"} /\ s.sub.stage < 3
         /\ s.sub.state # "RUNNING" =>
              ~AlignActive(s) /\ Movers(s.sub, s.align) = Leftover(s.sub.type)
BY LikeSelf
DEF Polling, Attended, FlowMachine, Machine, Within, AlignTypes, GripTypes, OwnFaults, FlowTypes,
    Movers, PoseTypes

\* The start of an alignment, or its refusal.
LEMMA AlignStartedFrom ==
  ASSUME NEW s, Polling(s), s.sub.type \in AlignTypes, s.co.owner = "MISSION",
         s.sub.state # "RUNNING", ~Exhausted(s), NEW free \in BOOLEAN
  PROVE  From(s, AlignStarted(Attempt(s), free))
<1> DEFINE u == Attempt(s)
           h == u.sub
           f == [h EXCEPT !.state = "RUNNING"]
           mode == AlignMode(h)
           refused == [u EXCEPT !.align = [state |-> "fault", why |-> "OTHER"]]
           al(state) == [[u.align EXCEPT !.why = "NONE"] EXCEPT !.state = state]
           sees == [u EXCEPT !.sub = f, !.align = al("see")]
           asks == [u EXCEPT !.sub = f, !.align = al("mode"),
                             !.k = [what |-> mode, state |-> "active"]]
           ready == \A a \in AlignAxes(h.type) : u.axis[a] = "idle"
<1>1. /\ s \in FlowMachine /\ s.sub.type # "RECORD" /\ ~AlignActive(s)
      /\ Movers(s.sub, s.align) = Leftover(s.sub.type)
  BY AlignBasics
<1>2. /\ u \in FlowMachine /\ u.co = s.co /\ u.axis = s.axis /\ u.align = s.align /\ u.k = s.k
      /\ u.busy = s.busy /\ h.type = s.sub.type /\ h.task = s.sub.task
      /\ h.retain = s.sub.retain /\ h.stage = s.sub.stage
  BY <1>1, AttemptThis
<1>3. Retriable(s, u)
  BY <1>1, SelfRetriable DEF Tracked
<1> HIDE DEF u
<1>4. h \in SubType /\ mode \in ObserveTypes
  BY <1>2 DEF FlowMachine, AlignMode, ObserveTypes
<1>5. f \in SubType
  BY <1>4 DEF SubType, FlowStates
<1>6. Retriable(s, refused)
  <2>1. /\ refused \in FlowMachine /\ refused.co = u.co /\ refused.axis = u.axis
        /\ refused.k = u.k /\ refused.busy = u.busy /\ refused.sub = u.sub
        /\ refused.align.state = "fault"
    BY <1>2 DEF FlowMachine, AlignStates, AlignFaults
  <2> HIDE DEF refused
  <2> QED
    BY <1>3, <2>1 DEF Retriable, Like, Calm, Moves, AlignActive
<1>7. /\ sees \in FlowMachine /\ sees.co = u.co /\ sees.axis = u.axis /\ sees.k = u.k
      /\ sees.busy = u.busy /\ sees.sub = f /\ sees.align.state = "see"
  <2>1. al("see") \in [state : AlignStates, why : AlignFaults] /\ al("see").state = "see"
    BY <1>2 DEF FlowMachine, AlignStates, AlignFaults
  <2> HIDE DEF f, al
  <2> QED
    BY <1>2, <1>5, <2>1 DEF FlowMachine
<1>8. /\ asks \in FlowMachine /\ asks.co = u.co /\ asks.axis = u.axis
      /\ asks.k.state = "active"
      /\ asks.busy = u.busy /\ asks.sub = f /\ asks.align.state = "mode"
  <2>1. al("mode") \in [state : AlignStates, why : AlignFaults] /\ al("mode").state = "mode"
    BY <1>2 DEF FlowMachine, AlignStates, AlignFaults
  <2>2. [what |-> mode, state |-> "active"] \in CommandType
    BY <1>4 DEF CommandType
  <2> HIDE DEF f, mode, al
  <2> QED
    BY <1>2, <1>5, <2>1, <2>2 DEF FlowMachine
<1>9. /\ AlignAt([u EXCEPT !.sub.state = "RUNNING", !.align.why = "NONE"], "see") = sees
      /\ [AlignAt([u EXCEPT !.sub.state = "RUNNING", !.align.why = "NONE"], "mode")
            EXCEPT !.k = [what |-> mode, state |-> "active"]] = asks
  <2> DEFINE began(state) ==
               AlignAt([u EXCEPT !.sub.state = "RUNNING", !.align.why = "NONE"], state)
  <2>1. \A state : began(state) = [u EXCEPT !.sub = f, !.align = al(state)]
    BY <1>2 DEF AlignAt, FlowMachine
  <2>2. \A x, c : [[u EXCEPT !.sub = f, !.align = x] EXCEPT !.k = c]
                  = [u EXCEPT !.sub = f, !.align = x, !.k = c]
    <3> HIDE DEF f
    <3> QED
      BY <1>2 DEF FlowMachine
  <2> HIDE DEF began, f, al
  <2> QED
    BY <2>1, <2>2 DEF began
<1> HIDE DEF h, f, al, mode, refused, sees, asks
<1>10. ready => From(s, sees) /\ From(s, asks)
  BY <1>1, <1>2, <1>4, <1>7, <1>8, AlignBeginsFrom DEF f
<1>11. From(s, RetryOrFail(u)) /\ From(s, RetryOrFail(refused))
  BY <1>1, <1>3, <1>6, RetryOrFailFrom
<1>12. AlignStarted(u, free) =
         IF ~MayAcquire(u) THEN RetryOrFail(u)
         ELSE IF ~(free /\ ready) THEN RetryOrFail(refused)
         ELSE IF h.type = "ALIGN_XY" \/ Applied(u, mode) THEN sees
         ELSE IF u.k.state = "active" THEN RetryOrFail(refused) ELSE asks
  BY <1>9 DEF AlignStarted, h, mode, refused
<1> QED
  BY <1>10, <1>11, <1>12 DEF u

\* An attempt to align.
LEMMA AlignAttemptFrom ==
  ASSUME NEW s, Polling(s), s.sub.type \in AlignTypes, s.co.owner = "MISSION",
         s.sub.state # "RUNNING", NEW free \in BOOLEAN
  PROVE  From(s, AlignAttempt(s, free))
<1>1. /\ s \in FlowMachine /\ s.sub \in SubType /\ Like(s, s) /\ ~AlignActive(s)
      /\ s.sub.type \in OwnFaults /\ s.sub.stage < 3
      /\ Movers(s.sub, s.align) = Leftover(s.sub.type)
  BY AlignBasics
<1>2. From(s, Recover(s, FALSE)) /\ From(s, Fail(s, "TRANSIENT"))
  BY <1>1, RecoverFrom, FailFrom DEF Reasons
<1>3. From(s, [s EXCEPT !.sub.state = "RETRY_WAIT"])
  <2> DEFINE f == [s.sub EXCEPT !.state = "RETRY_WAIT"]
  <2>1. "RETRY_WAIT" \in FlowStates \ {"IDLE", "COMPLETE", "FAULT"}
    BY DEF FlowStates
  <2>2. f.type = s.sub.type /\ f.state = "RETRY_WAIT"
    BY <1>1 DEF SubType
  <2>3. Movers(f, s.align) = Leftover(s.sub.type)
    BY <2>2 DEF Movers, PoseTypes, AlignTypes
  <2> QED
    BY <1>1, <2>1, <2>3, StateFrom DEF Tracked
<1>4. ~Exhausted(s) => From(s, AlignStarted(Attempt(s), free))
  BY AlignStartedFrom
<1> QED
  BY <1>2, <1>3, <1>4 DEF AlignAttempt

\* An alignment that is given up leaves in motion at most what its stop may have missed.
LEMMA AbortedLike ==
  ASSUME NEW s, Polling(s), NEW u, u = AlignAborted(s)
  PROVE  Like(s, u) /\ ~AlignActive(u) /\ Calm(s, u)
<1>1. s \in Machine /\ s \in FlowMachine
  BY DEF Polling, Machine
<1>2. s.sub.type \notin AlignTypes => ~AlignActive(s)
  BY DEF Polling, Attended
<1> QED
  BY <1>1, <1>2, AbortThis DEF SameKind, Like, AlignActive

\* An alignment that has failed ends the subflow or is tried again.
LEMMA AlignFailedFrom ==
  ASSUME NEW s, Polling(s), s.sub.type \in AlignTypes, s.sub.state = "RUNNING",
         s.align.state = "fault"
  PROVE  From(s, AlignFailed(s))
<1> DEFINE u == AlignAborted(s)
<1>1. Like(s, u) /\ ~AlignActive(u)
  BY AbortedLike
<1>2. /\ s \in FlowMachine /\ s.sub.type \in FlowTypes \ {"RECORD"} /\ s.sub.stage < 3
  BY AlignBasics
<1> HIDE DEF u
<1>3. Movers(s.sub, s.align) = Leftover(s.sub.type)
  BY DEF Movers, PoseTypes, AlignTypes
<1>4. u \in FlowMachine /\ u.sub \in SubType
  BY <1>1 DEF Like, FlowMachine
<1>5. u.sub.stage < 3
  <2>1. u.sub = s.sub
    BY <1>2, AbortThis DEF u, Machine
  <2> QED
    BY <1>2, <2>1
<1>6. Retriable(s, u)
  BY <1>1, <1>2, <1>3, <1>5 DEF Retriable, Like, Calm, Tracked
<1>7. Retriable(s, RecoverZ(u))
  BY <1>4, <1>6, RecoverThis DEF Retriable, Like, Calm, AlignActive
<1>8. From(s, RetryFault(RecoverZ(u), "Z", TRUE))
  BY <1>2, <1>7, RetryFaultFrom
<1>9. From(s, Fail(u, "TRANSIENT")) /\ From(s, Fail(u, "FINAL"))
  BY <1>1, <1>2, FailFrom DEF Reasons
<1>10. From(s, RetryOrFail(u))
  BY <1>2, <1>6, RetryOrFailFrom
<1> QED
  BY <1>8, <1>9, <1>10 DEF AlignFailed, u

\* The subflows that align.
LEMMA AlignFrom ==
  ASSUME Polling(Now), busy' = busy, NEW late \in BOOLEAN, Align(late)
  PROVE  From(Now, Now')
<1> DEFINE s == Now
           u == AlignAborted(s)
<1>1. /\ s.sub = sub /\ s.axis = axis /\ s.align = align /\ s.co = co /\ s \in FlowMachine
      /\ s.sub \in SubType /\ Like(s, s)
  BY NowIs, LikeSelf DEF Polling, FlowMachine
<1>2. s.sub.type \in AlignTypes /\ s.co.owner = "MISSION"
  BY <1>1 DEF Align, Polled
<1>3. From(s, s)
  BY SameFrom DEF Polling
<1>4. s.sub.state # "RUNNING" => \A free \in BOOLEAN : From(s, AlignAttempt(s, free))
  BY <1>2, AlignAttemptFrom
<1>5. From(s, Recover(u, TRUE))
  <2>1. Like(s, u) /\ ~AlignActive(u) /\ u.sub = s.sub
    BY <1>1, AbortedLike, AbortThis DEF Machine
  <2>2. s.sub.type \in OwnFaults /\ s.sub.stage < 3
    BY <1>2, AlignBasics
  <2> HIDE DEF u
  <2> QED
    BY <1>1, <2>1, <2>2, RecoverFrom
<1>6. s.sub.state = "RUNNING" /\ s.align.state = "done" => From(s, Complete(s))
  <2> SUFFICES ASSUME s.sub.state = "RUNNING", s.align.state = "done" PROVE From(s, Complete(s))
    OBVIOUS
  <2>1. Movers(s.sub, s.align) = {}
    BY <1>2 DEF Movers, AlignTypes, PoseTypes
  <2>2. ~AlignActive(s) /\ s.sub.type \notin GripTypes
    BY <1>2 DEF AlignActive, AlignTypes, GripTypes
  <2> QED
    BY <1>1, <2>1, <2>2, CompleteFrom DEF Tracked, Still, Moves
<1>7. s.sub.state = "RUNNING" /\ s.align.state = "fault" => From(s, AlignFailed(s))
  BY <1>2, AlignFailedFrom
<1> HIDE DEF s
<1>8. \E t : Become(t) /\ From(s, t)
  <2>1. CASE \E free \in BOOLEAN :
               /\ sub.state \in {"STARTING", "RETRY_WAIT"}
               /\ Become(IF late \/ sub.state = "STARTING" THEN AlignAttempt(s, free) ELSE s)
    BY <1>1, <1>3, <1>4, <2>1
  <2>2. CASE /\ sub.state = "RUNNING"
             /\ Become(IF FaultSource(s) # "NONE" THEN Recover(u, TRUE)
                       ELSE IF align.state = "done" THEN Complete(s)
                       ELSE IF align.state = "fault" THEN AlignFailed(s) ELSE s)
    BY <1>1, <1>3, <1>5, <1>6, <1>7, <2>2
  <2> QED
    BY <2>1, <2>2 DEF Align, s
<1> QED
  BY <1>8, BecomeFrom DEF s

-----------------------------------------------------------------------------
(* The poll of the subflow.                                                *)

\* A subflow that fails sets nothing in motion.
LEMMA FailCalm ==
  ASSUME NEW u \in Machine, NEW r \in Reasons PROVE Calm(u, Fail(u, r))
<1> DEFINE v == StopAxes(u)
<1>1. Stops(u, v, Axes)
  BY StopAll
<1>2. v \in Machine /\ "FAULT" \in FlowStates
  BY <1>1 DEF Stops, SameKind, Machine, FlowStates
<1> HIDE DEF v
<1>3. Finish(v, "FAULT", r).axis = v.axis
  BY <1>2, FinishThis
<1> QED
  BY <1>1, <1>3 DEF Fail, Stops, Calm, Moves, v

\* What may end a poll before the subflow's own step.
LEMMA EndsFrom ==
  ASSUME Polling(Now), busy' = busy, PollEnds
  PROVE  From(Now, Now') /\ Calm(Now, Now')
<1> DEFINE s == Now
<1>1. /\ s.sub = sub /\ s.axis = axis /\ s.align = align /\ s.co = co /\ s \in FlowMachine
      /\ s.sub \in SubType /\ Like(s, s) /\ s \in Machine /\ s.busy = busy /\ Active(sub)
  BY NowIs, LikeSelf DEF Polling, FlowMachine, Machine
<1>2. From(s, CancelNow(s)) /\ Calm(s, CancelNow(s))
  <2> DEFINE f == [s.sub EXCEPT !.cancel = FALSE]
             v == [s EXCEPT !.sub = f]
             u == AlignAborted(v)
  <2>1. /\ f \in SubType /\ f.type = s.sub.type /\ f.task = s.sub.task /\ f.retain = s.sub.retain
        /\ f.state = s.sub.state /\ f.stage = s.sub.stage /\ f.attempt = s.sub.attempt
        /\ f.stable = s.sub.stable
    BY <1>1 DEF SubType
  <2>2. [s EXCEPT !.sub.cancel = FALSE] = v
    BY <1>1 DEF FlowMachine
  <2> HIDE DEF f
  <2>3. /\ v \in FlowMachine /\ v.co = s.co /\ v.axis = s.axis /\ v.align = s.align
        /\ v.k = s.k /\ v.busy = s.busy /\ v.sub = f
    BY <1>1, <2>1 DEF FlowMachine
  <2> HIDE DEF v
  <2>4. Polling(v)
    BY <2>1, <2>3 DEF Polling, Active, Within, Attended, AlignActive
  <2>5. Like(v, u) /\ ~AlignActive(u)
    BY <2>4, AbortedLike
  <2>6. Like(s, u)
    BY <2>1, <2>3, <2>5 DEF Like, Calm, Moves
  <2>7. From(s, Fail(u, "FINAL")) /\ Calm(u, Fail(u, "FINAL"))
    BY <1>1, <2>5, <2>6, FailFrom, FailCalm DEF Reasons, Like, Machine
  <2>8. Calm(s, Fail(u, "FINAL"))
    BY <2>6, <2>7 DEF Like, Calm
  <2>9. CancelNow(s) = Fail(u, "FINAL")
    BY <2>2 DEF CancelNow, Fail
  <2> QED
    BY <2>7, <2>8, <2>9
<1>3. s.co.owner # "MISSION" =>
        LET t == [StopAxes(s) EXCEPT !.sub.state = "FAULT", !.sub.reason = "FINAL"]
        IN From(s, t) /\ Calm(s, t)
  <2> SUFFICES ASSUME s.co.owner # "MISSION"
               PROVE  LET t == [StopAxes(s) EXCEPT !.sub.state = "FAULT", !.sub.reason = "FINAL"]
                      IN From(s, t) /\ Calm(s, t)
    OBVIOUS
  <2> DEFINE v == StopAxes(s)
             f == [s.sub EXCEPT !.state = "FAULT", !.reason = "FINAL"]
             t == [v EXCEPT !.sub = f]
  <2>1. Stops(s, v, Axes) /\ v \in FlowMachine
    BY <1>1, StopAll DEF Stops, SameKind
  <2>2. /\ f \in SubType /\ f.type = s.sub.type /\ f.task = s.sub.task
        /\ f.retain = s.sub.retain /\ f.state = "FAULT"
    BY <1>1 DEF SubType, FlowStates, Reasons
  <2> HIDE DEF v
  <2>3. [v EXCEPT !.sub.state = "FAULT", !.sub.reason = "FINAL"] = t
    BY <2>1 DEF FlowMachine, SubType, Stops
  <2> HIDE DEF f
  <2>4. /\ t \in FlowMachine /\ t.co = s.co /\ t.axis = v.axis /\ t.align = s.align
        /\ t.k = s.k /\ t.busy = s.busy /\ t.sub = f
    BY <1>1, <2>1, <2>2 DEF Stops, FlowMachine
  <2> HIDE DEF t
  <2>5. ~AlignActive(s)
    BY DEF Polling, Attended
  <2>6. ~AlignActive(t) /\ ~Active(t.sub)
    BY <2>2, <2>4, <2>5 DEF AlignActive, Active
  <2>7. Calm(s, t)
    BY <2>1, <2>4 DEF Stops, Calm, Moves
  <2>8. Tracked(s) => OneMoves(t)
    BY <2>7, TrackedIsOne DEF Calm, OneMoves
  <2>9. From(s, t)
    BY <2>2, <2>4, <2>6, <2>8 DEF From, Within, Attended
  <2> QED
    BY <2>3, <2>7, <2>9 DEF v
<1>4. s.sub.type \in FlowTypes \ OwnFaults =>
        From(s, Fail(Seen(s), "TRANSIENT")) /\ Calm(s, Fail(Seen(s), "TRANSIENT"))
  <2> SUFFICES ASSUME s.sub.type \notin AlignTypes
               PROVE  From(s, Fail(Seen(s), "TRANSIENT")) /\ Calm(s, Fail(Seen(s), "TRANSIENT"))
    BY DEF OwnFaults
  <2>1. Like(s, Seen(s)) /\ ~AlignActive(Seen(s)) /\ Seen(s) \in Machine
    BY <1>1, RecoverThis, NotAligning DEF Polling, Like, Calm, Moves, AlignActive, Machine
  <2>2. From(s, Fail(Seen(s), "TRANSIENT")) /\ Calm(Seen(s), Fail(Seen(s), "TRANSIENT"))
    BY <1>1, <2>1, FailFrom, FailCalm DEF Reasons
  <2> QED
    BY <2>1, <2>2 DEF Like, Calm
<1> HIDE DEF s
<1>5. \E t : Become(t) /\ From(s, t) /\ Calm(s, t)
  <2>1. CASE sub.cancel /\ Become(CancelNow(s))
    BY <1>2, <2>1
  <2>2. CASE /\ co.owner # "MISSION"
             /\ Become([StopAxes(s) EXCEPT !.sub.state = "FAULT", !.sub.reason = "FINAL"])
    BY <1>1, <1>3, <2>2
  <2>3. CASE Polled(FlowTypes \ OwnFaults) /\ Become(Fail(Seen(s), "TRANSIENT"))
    BY <1>1, <1>4, <2>3 DEF Polled
  <2> QED
    BY <1>1, <2>1, <2>2, <2>3 DEF PollEnds, s
<1>6. PICK t : Become(t) /\ From(s, t) /\ Calm(s, t)
  BY <1>5
<1>7. Now' = t
  BY <1>1, <1>6, BecomeThis DEF From
<1> QED
  BY <1>6, <1>7 DEF s

\* A poll of the subflow. It sets nothing in motion that the mission has no right to.
LEMMA FlowFrom ==
  ASSUME Now \in FlowMachine, Within(sub), Attended(Now), busy' = busy, NEW late \in BOOLEAN,
         FlowPoll(late)
  PROVE  /\ Active(sub) => From(Now, Now')
         /\ ~Active(sub) => Now' = Now
         /\ co.owner # "MISSION" => Calm(Now, Now')
<1>1. Now.sub = sub /\ Now.busy = busy
  BY NowIs
<1>2. CASE ~Active(sub)
  <2>1. Become(Now)
    BY <1>2 DEF FlowPoll, PollEnds, Polled, PolledHealthy, Observe, Align, BlindY, Descend, Grip,
                Record, Pose
  <2>2. Now' = Now
    BY <1>1, <2>1, BecomeThis
  <2>3. Calm(Now, Now')
    BY <2>2 DEF Calm
  <2> QED
    BY <1>2, <2>2, <2>3
<1>3. CASE Active(sub)
  <2>1. Polling(Now)
    BY <1>1, <1>3 DEF Polling
  <2>2. From(Now, Now')
    BY <2>1, EndsFrom, ObserveFrom, AlignFrom, BlindYFrom, DescendFrom, GripFrom, RecordFrom,
       PoseFrom DEF FlowPoll
  <2>3. co.owner # "MISSION" => PollEnds
    BY DEF FlowPoll, Polled, PolledHealthy, Observe, Align, BlindY, Descend, Grip, Record, Pose
  <2>4. co.owner # "MISSION" => Calm(Now, Now')
    BY <2>1, <2>3, EndsFrom
  <2> QED
    BY <1>3, <2>2, <2>4
<1> QED
  BY <1>2, <1>3

-----------------------------------------------------------------------------
(* The poll of the alignment.                                              *)

\* What a poll of the alignment keeps to.
Aligns(s, t) ==
  /\ t \in FlowMachine /\ t.co = s.co /\ t.sub = s.sub /\ t.k = s.k /\ t.busy = s.busy
  /\ Attended(t)
  /\ Tracked(s) => Tracked(t)

\* The alignment under way.
Aligning(s) == s \in FlowMachine /\ AlignActive(s) /\ Attended(s)

\* The alignment goes on to another state with nothing set in motion.
LEMMA AlignAtThis ==
  ASSUME NEW s, Aligning(s), NEW state \in AlignStates,
         s.axis \in [Axes -> AxisStates],
         Tracked(s) =>
           \A a \in Axes : Moves(s, a) => a \in Movers(s.sub, [s.align EXCEPT !.state = state])
  PROVE  Aligns(s, AlignAt(s, state))
<1> DEFINE al == [s.align EXCEPT !.state = state]
           t == [s EXCEPT !.align = al]
<1>1. al \in [state : AlignStates, why : AlignFaults]
  BY DEF Aligning, FlowMachine
<1>2. AlignAt(s, state) = t
  BY DEF AlignAt, Aligning, FlowMachine
<1> HIDE DEF al
<1>3. /\ t \in FlowMachine /\ t.co = s.co /\ t.axis = s.axis /\ t.sub = s.sub /\ t.k = s.k
      /\ t.busy = s.busy /\ t.align = al
  BY <1>1 DEF Aligning, FlowMachine
<1> HIDE DEF t
<1>4. Attended(t)
  BY <1>3 DEF Aligning, Attended
<1>5. Tracked(s) => Tracked(t)
  BY <1>3 DEF Tracked, Moves, al
<1> QED
  BY <1>2, <1>3, <1>4, <1>5 DEF Aligns

\* The alignment sets the axis in motion that its next state stands for.
LEMMA AlignMovedThis ==
  ASSUME NEW s, Aligning(s), NEW state \in AlignStates, NEW a \in Axes,
         Movers(s.sub, s.align) = {},
         a \in Movers(s.sub, [s.align EXCEPT !.state = state])
  PROVE  Aligns(s, AlignAt(Moved(s, a), state))
<1> DEFINE al == [s.align EXCEPT !.state = state]
           t == [s EXCEPT !.axis[a] = "moving", !.align = al]
<1>1. al \in [state : AlignStates, why : AlignFaults]
  BY DEF Aligning, FlowMachine
<1>2. AlignAt(Moved(s, a), state) = t
  BY DEF AlignAt, Moved, Aligning, FlowMachine
<1> HIDE DEF al
<1>3. /\ t \in FlowMachine /\ t.co = s.co /\ t.axis = [s.axis EXCEPT ![a] = "moving"]
      /\ t.sub = s.sub /\ t.k = s.k /\ t.busy = s.busy /\ t.align = al
  BY <1>1 DEF Aligning, FlowMachine, AxisStates
<1> HIDE DEF t
<1>4. Attended(t)
  BY <1>3 DEF Aligning, Attended
<1>5. Tracked(s) => Tracked(t)
  <2> SUFFICES ASSUME Tracked(s), NEW b \in Axes, Moves(t, b) PROVE b \in Movers(t.sub, t.align)
    BY DEF Tracked
  <2>1. ~Moves(s, b)
    BY DEF Tracked
  <2>2. b = a
    BY <1>3, <2>1 DEF Moves, Aligning, FlowMachine
  <2> QED
    BY <1>3, <2>2 DEF al
<1> QED
  BY <1>2, <1>3, <1>4, <1>5 DEF Aligns

\* The alignment fails, and tells its axes to stop.
LEMMA AlignFaultedThis ==
  ASSUME NEW s, Aligning(s), NEW why \in AlignFaults
  PROVE  Aligns(s, AlignFaulted(s, why))
<1> DEFINE axes == AlignAxes(s.sub.type)
           v == StopThese(s, axes)
           al == [state |-> "fault", why |-> why]
           t == [v EXCEPT !.align = al]
<1>1. s \in FlowMachine /\ s \in Machine /\ s.sub.type \in AlignTypes /\ s.sub.state = "RUNNING"
      /\ axes \in SUBSET Axes
  BY DEF Aligning, Attended, Machine, AlignAxes, Axes
<1>2. Stops(s, v, axes) /\ v \in FlowMachine
  BY <1>1, StopThis DEF Stops, SameKind
<1>3. al \in [state : AlignStates, why : AlignFaults] /\ al.state = "fault"
  BY DEF AlignStates
<1> HIDE DEF v, al
<1>4. /\ t \in FlowMachine /\ t.co = s.co /\ t.axis = v.axis
      /\ t.sub = s.sub /\ t.k = s.k /\ t.busy = s.busy /\ t.align = al
  BY <1>2, <1>3 DEF Stops, FlowMachine
<1>5. AlignFaulted(s, why) = t
  BY DEF AlignFaulted, v, al
<1> HIDE DEF t
<1>6. Movers(s.sub, s.align) \subseteq axes
  BY <1>1 DEF Aligning, AlignActive, Movers, AlignAxes, AlignTypes, PoseTypes
<1>7. Movers(t.sub, t.align) = Leftover(s.sub.type)
  BY <1>1, <1>3, <1>4 DEF Movers, AlignTypes, PoseTypes
<1>8. "Z" \in axes => "Z" \in Leftover(s.sub.type)
  BY <1>1 DEF AlignAxes, Leftover, AlignTypes
<1>9. Tracked(s) => Tracked(t)
  <2> SUFFICES ASSUME Tracked(s), NEW a \in Axes, Moves(t, a) PROVE a \in Movers(t.sub, t.align)
    BY DEF Tracked
  <2>1. Moves(v, a) /\ Moves(s, a)
    BY <1>2, <1>4 DEF Stops, Calm, Moves
  <2>2. a \in axes
    BY <1>6, <2>1 DEF Tracked
  <2>3. a = "Z"
    BY <1>2, <2>1, <2>2 DEF Stops
  <2> QED
    BY <1>7, <1>8, <2>2, <2>3
<1>10. Attended(t)
  BY <1>3, <1>4 DEF Attended, AlignActive
<1> QED
  BY <1>4, <1>5, <1>9, <1>10 DEF Aligns

\* The axes of the states of an alignment.
LEMMA AlignMovers ==
  ASSUME NEW s, Aligning(s), NEW state \in AlignStates \ {"off", "fault"}
  PROVE  /\ Movers(s.sub, [s.align EXCEPT !.state = state])
              = IF state = "waitx" THEN {"X"}
                ELSE IF state = "waitz" THEN {IF s.sub.type = "ALIGN_XZ" THEN "Z" ELSE "Y"}
                ELSE {}
         /\ Movers(s.sub, s.align)
              = IF s.align.state = "waitx" THEN {"X"}
                ELSE IF s.align.state = "waitz" THEN {IF s.sub.type = "ALIGN_XZ" THEN "Z" ELSE "Y"}
                ELSE {}
<1>1. [s.align EXCEPT !.state = state].state = state
  BY DEF Aligning, FlowMachine
<1>2. s.align.state \notin {"off", "fault"} /\ s.sub.type \in AlignTypes /\ s.sub.state = "RUNNING"
  BY DEF Aligning, AlignActive, Attended
<1> QED
  BY <1>1, <1>2 DEF Movers, AlignTypes, PoseTypes

\* The alignment moves an axis, or fails.
LEMMA AlignMovesFrom ==
  ASSUME Aligning(Now), busy' = busy, NEW a \in Axes, NEW next \in {"waitx", "waitz"},
         align.state \in {"x", "z"},
         next = "waitx" => a = "X",
         next = "waitz" => a = IF sub.type = "ALIGN_XZ" THEN "Z" ELSE "Y",
         AlignMoves(a, next)
  PROVE  \E t : Become(t) /\ Aligns(Now, t)
<1> DEFINE s == Now
<1>1. s.sub = sub /\ s.align = align /\ s.axis \in [Axes -> AxisStates] /\ s.axis = axis
  BY NowIs DEF Aligning, FlowMachine
<1>2. Movers(s.sub, s.align) = {}
  BY <1>1, AlignMovers DEF AlignStates
<1>3. Aligns(s, s)
  BY <1>1 DEF Aligning, Aligns
<1>4. Aligns(s, AlignAt(s, "see"))
  <2>1. "see" \in AlignStates \ {"off", "fault"}
    BY DEF AlignStates
  <2> QED
    BY <1>1, <1>2, <2>1, AlignAtThis DEF Tracked
<1>5. \A why \in AlignFaults : Aligns(s, AlignFaulted(s, why))
  BY AlignFaultedThis
<1>6. Aligns(s, AlignAt(Moved(s, a), next))
  <2>1. next \in AlignStates \ {"off", "fault"}
    BY DEF AlignStates
  <2>2. a \in Movers(s.sub, [s.align EXCEPT !.state = next])
    BY <1>1, <2>1, AlignMovers
  <2> QED
    BY <1>2, <2>1, <2>2, AlignMovedThis
<1> HIDE DEF s
<1>7. CASE sub.type = "ALIGN_XY" /\ align.state = "x" /\ ~MayMove(s, a) /\ Become(AlignAt(s, "see"))
  BY <1>4, <1>7 DEF s
<1>8. CASE Become(IF MayMove(s, a) THEN AlignAt(Moved(s, a), next)
                  ELSE IF axis[a] = "fault"
                  THEN AlignFaulted(s, IF a = "Z" THEN "MOVE_Z" ELSE "OTHER") ELSE s)
  <2>1. (IF a = "Z" THEN "MOVE_Z" ELSE "OTHER") \in AlignFaults
    BY DEF AlignFaults
  <2>2. Aligns(s, IF MayMove(s, a) THEN AlignAt(Moved(s, a), next)
                  ELSE IF axis[a] = "fault"
                  THEN AlignFaulted(s, IF a = "Z" THEN "MOVE_Z" ELSE "OTHER") ELSE s)
    BY <1>3, <1>5, <1>6, <2>1
  <2> QED
    BY <1>8, <2>2 DEF s
<1>9. CASE \E why \in IF sub.type = "ALIGN_XZ" THEN {"LIMIT", IF a = "Z" THEN "MOVE_Z" ELSE "OTHER"}
                      ELSE {"OTHER"} : Become(AlignFaulted(s, why))
  BY <1>5, <1>9 DEF s, AlignFaults
<1> QED
  BY <1>7, <1>8, <1>9 DEF AlignMoves, s

\* A poll of the alignment. Without one it does nothing.
LEMMA VisionFrom ==
  ASSUME Now \in FlowMachine, Attended(Now), busy' = busy, NEW late \in BOOLEAN, AlignPoll(late)
  PROVE  /\ AlignActive(Now) => Aligns(Now, Now')
         /\ ~AlignActive(Now) => Now' = Now
<1> DEFINE s == Now
           last == IF sub.type = "ALIGN_XZ" THEN "Z" ELSE "Y"
<1>1. /\ s.sub = sub /\ s.align = align /\ s.axis \in [Axes -> AxisStates] /\ s.axis = axis
      /\ s.busy = busy /\ s.k = k
  BY NowIs DEF FlowMachine
<1>2. CASE ~AlignActive(s)
  <2>1. Become(s)
    BY <1>2 DEF AlignPoll
  <2> QED
    BY <1>1, <1>2, <2>1, BecomeThis
<1>3. CASE AlignActive(s)
  <2>1. Aligning(s)
    BY <1>3 DEF Aligning
  <2>2. Aligns(s, s)
    BY <2>1 DEF Aligning, Aligns
  <2>3. \A why \in AlignFaults : Aligns(s, AlignFaulted(s, why))
    BY <2>1, AlignFaultedThis
  <2>4. last \in Axes /\ "X" \in Axes
    BY DEF Axes
  <2>5. ASSUME NEW state \in {"see", "x", "z", "done"},
               \A a \in Movers(s.sub, s.align) : s.axis[a] = "idle"
        PROVE  Aligns(s, AlignAt(s, state))
    <3>1. state \in AlignStates \ {"off", "fault"}
      BY DEF AlignStates
    <3>2. Tracked(s) => Still(s)
      BY <2>5 DEF Tracked, Still, Moves
    <3> QED
      BY <1>1, <2>1, <3>1, <3>2, AlignAtThis DEF Still
  <2>6. /\ align.state \notin {"waitx", "waitz"} => Movers(s.sub, s.align) = {}
        /\ align.state = "waitx" => Movers(s.sub, s.align) = {"X"}
        /\ align.state = "waitz" => Movers(s.sub, s.align) = {last}
    <3>1. "see" \in AlignStates \ {"off", "fault"}
      BY DEF AlignStates
    <3> QED
      BY <1>1, <2>1, <3>1, AlignMovers
  <2>7. /\ Rested("X") => s.axis["X"] = "idle"
        /\ Rested(last) => s.axis[last] = "idle"
    BY <1>1 DEF Rested, AlignAxes
  <2> HIDE DEF s, last
  <2>8. \E t : Become(t) /\ Aligns(s, t)
    <3>1. CASE Become(AlignFaulted(s, IF late THEN "OTHER" ELSE "AXIS"))
      BY <2>3, <3>1 DEF AlignFaults
    <3>2. CASE /\ align.state = "mode"
               /\ Become(IF Applied(s, AlignMode(sub)) THEN AlignAt(s, "see")
                         ELSE IF k.state = "failed" THEN AlignFaulted(s, "OTHER") ELSE s)
      BY <2>2, <2>3, <2>5, <2>6, <3>2 DEF AlignFaults
    <3>3. CASE Become(s)
      BY <2>2, <3>3
    <3>4. CASE /\ align.state = "see"
               /\ \E state \in {"see", "x", "z", "done"} : Become(AlignAt(s, state))
      BY <2>5, <2>6, <3>4
    <3>5. CASE Become(AlignFaulted(s, "LIMIT"))
      BY <2>3, <3>5 DEF AlignFaults
    <3>6. CASE align.state = "x" /\ AlignMoves("X", "waitx")
      <4>1. Aligning(Now) /\ "waitx" # "waitz" /\ "waitx" \in {"waitx", "waitz"}
        BY <2>1 DEF s
      <4> QED
        BY <2>4, <3>6, <4>1, AlignMovesFrom DEF s
    <3>7. CASE /\ align.state = "waitx"
               /\ \E state \in {"z", "see"} :
                    Become(IF Rested("X") THEN AlignAt(s, state) ELSE s)
      BY <2>2, <2>4, <2>5, <2>6, <2>7, <3>7
    <3>8. CASE align.state = "z" /\ AlignMoves(last, "waitz")
      <4>1. Aligning(Now) /\ "waitx" # "waitz" /\ "waitz" \in {"waitx", "waitz"}
        BY <2>1 DEF s
      <4> QED
        BY <2>4, <3>8, <4>1, AlignMovesFrom DEF s, last
    <3>9. CASE /\ align.state = "waitz"
               /\ Become(IF Rested(last) THEN AlignAt(s, "see") ELSE s)
      BY <2>2, <2>4, <2>5, <2>6, <2>7, <3>9
    <3> QED
      BY <1>3, <3>1, <3>2, <3>3, <3>4, <3>5, <3>6, <3>7, <3>8, <3>9 DEF AlignPoll, s, last
  <2>9. PICK t : Become(t) /\ Aligns(s, t)
    BY <2>8
  <2>10. Now' = t
    BY <1>1, <2>9, BecomeThis DEF Aligns, s
  <2> QED
    BY <1>3, <2>9, <2>10 DEF s
<1> QED
  BY <1>2, <1>3
=============================================================================
