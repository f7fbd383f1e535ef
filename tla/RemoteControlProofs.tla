------------------------- MODULE RemoteControlProofs -------------------------
(* Proofs about RemoteControl, for every set of commands and every size of the table  *)
(* and of the queue: types, the two active indices, the events that are owed, and     *)
(* that the table implements CommandLife.                                             *)
EXTENDS RemoteControl, FiniteSetTheorems, WellFoundedInduction, SequenceTheorems, TLAPS

Executing == {"queued", "running"}
Table == [Slots -> RecordType]
Queue == {q \in Seq([slot : Slots, seq : 1 .. MaxRecords]) : Len(q) <= QueueDepth}

\* The state that RemoteControl_Poll works on.
StateType == [rec : Table, queue : Queue, move : 0 .. History, job : 0 .. History,
              asked : BOOLEAN, g : GantryType]

\* ActiveIsRunning, of such a state.
ActiveIn(s) ==
  /\ s.move # 0 => s.rec[s.move].state = "running" /\ s.rec[s.move].cmd.kind = "axis_move"
  /\ s.job # 0 => s.rec[s.job].state = "running" /\ s.rec[s.job].cmd.kind = "mission_start"

Good(s) == s \in StateType /\ ActiveIn(s)

\* Each record keeps its command and its number, and only goes on.
Onward(r, t) ==
  \A i \in Slots :
    /\ t[i].cmd = r[i].cmd /\ t[i].seq = r[i].seq
    /\ \/ t[i].state = r[i].state
       \/ r[i].state = "queued" /\ t[i].state = "running"
       \/ r[i].state \in Executing /\ t[i].state \in {"completed", "failed"}

\* What has finished is pending, and what was final stays as it is.
Announced(r, t) ==
  \A i \in Slots : t[i].state \in {"completed", "failed"} =>
    IF r[i].state \in Executing THEN t[i].pending ELSE t[i].pending = r[i].pending

Advance(r, t) == Onward(r, t) /\ Announced(r, t)

-----------------------------------------------------------------------------
(* Slots and records.                                                      *)

\* A set of slots that is not empty has a lowest one: of the intervals up to each of its
\* slots, finite sets, one contains no other.
LEMMA LowestSlot == ASSUME NEW S \in SUBSET Slots, S # {} PROVE Lowest(S) \in S
<1> DEFINE T == {1 .. i : i \in S}
           F == FiniteSubsetsOf(Slots)
           R == StrictSubsetOrdering(Slots)
<1>1. T \subseteq F /\ T # {}
  <2>1. ASSUME NEW i \in S PROVE 1 .. i \in SUBSET Slots /\ IsFiniteSet(1 .. i)
    BY FS_Interval, ConstantsAssumption DEF Slots
  <2> QED BY <2>1 DEF FiniteSubsetsOf
<1>2. IsWellFoundedOn(R, F)
  BY FS_StrictSubsetOrderingWellFounded
<1>3. PICK x \in T : \A y \in T : ~(<<y, x>> \in R)
  <2> HIDE DEF R, F, T
  <2> QED BY <1>1, <1>2, WFMin
<1>4. PICK i \in S : x = 1 .. i
  OBVIOUS
<1>5. \A j \in S : i <= j
  <2>1. SUFFICES ASSUME NEW j \in S, j < i PROVE FALSE
    BY ConstantsAssumption DEF Slots
  <2>2. 1 .. j \in SUBSET (1 .. i) /\ 1 .. j # 1 .. i /\ 1 .. i \in SUBSET Slots
    <3>1. i \in 1 .. i /\ i \notin 1 .. j
      BY <2>1, ConstantsAssumption DEF Slots
    <3> QED BY <2>1, <3>1, ConstantsAssumption DEF Slots
  <2>3. <<1 .. j, 1 .. i>> \in R
    BY <2>2 DEF StrictSubsetOrdering
  <2> QED BY <1>3, <1>4, <2>3
<1> QED BY <1>5 DEF Lowest

LEMMA FreeTyped == Free.cmd \in Commands /\ Free \in RecordType
  BY ConstantsAssumption DEF Free, RecordType, RecordStates

LEMMA AdvanceTransitive ==
  ASSUME NEW r, NEW t, NEW u, Advance(r, t), Advance(t, u) PROVE Advance(r, u)
  BY DEF Advance, Onward, Announced, Executing

LEMMA AdvanceReflexive == ASSUME NEW r PROVE Advance(r, r)
<1>1. \A i \in Slots : r[i].state \in {"completed", "failed"} => r[i].state \notin Executing
  BY DEF Executing
<1> QED BY <1>1 DEF Advance, Onward, Announced

\* complete_record of a record that is being executed.
LEMMA CompletedAdvances ==
  ASSUME NEW r \in Table, NEW i \in Slots, r[i].state \in Executing, NEW success
  PROVE  LET t == Completed(r, i, success)
         IN /\ t \in Table /\ Advance(r, t)
            /\ t[i].cmd = r[i].cmd /\ t[i].release = r[i].release
            /\ \A j \in Slots \ {i} : t[j] = r[j]
<1> DEFINE t == Completed(r, i, success)
           x == [r[i] EXCEPT !.state = IF success THEN "completed" ELSE "failed", !.pending = TRUE]
<1>1. r[i] \in RecordType
  BY DEF Table
<1>2. /\ x \in RecordType /\ x.state \in {"completed", "failed"} /\ x.pending = TRUE
      /\ x.cmd = r[i].cmd /\ x.seq = r[i].seq /\ x.release = r[i].release
  BY <1>1 DEF RecordType, RecordStates, Terminal
<1>3. t = [r EXCEPT ![i] = x]
  BY DEF Completed, Table
<1> HIDE DEF x, t
<1>4. t \in Table /\ t[i] = x /\ \A j \in Slots \ {i} : t[j] = r[j]
  BY <1>2, <1>3 DEF Table
<1>5. Onward(r, t)
  BY <1>2, <1>4 DEF Onward
<1>6. Announced(r, t)
  <2>1. \A j \in Slots \ {i} : t[j].state \in {"completed", "failed"} => t[j].state \notin Executing
    BY DEF Executing
  <2> QED BY <1>2, <1>4, <2>1 DEF Announced
<1>7. t \in Table /\ Advance(r, t) /\ t[i].cmd = r[i].cmd /\ t[i].release = r[i].release
      /\ \A j \in Slots \ {i} : t[j] = r[j]
  BY <1>2, <1>4, <1>5, <1>6 DEF Advance
<1> QED BY <1>7 DEF t

\* The same, in the state of a poll.
LEMMA FinishAdvances ==
  ASSUME NEW s \in StateType, NEW i \in Slots, s.rec[i].state \in Executing, NEW success
  PROVE  LET t == Finish(s, i, success)
         IN /\ t \in StateType /\ Advance(s.rec, t.rec)
            /\ t.rec[i].cmd = s.rec[i].cmd
            /\ \A j \in Slots \ {i} : t.rec[j] = s.rec[j]
            /\ t.queue = s.queue /\ t.move = s.move /\ t.job = s.job
            /\ t.asked = s.asked /\ t.g = s.g
<1>1. s.rec \in Table
  BY DEF StateType
<1>2. Finish(s, i, success) = [s EXCEPT !.rec = Completed(s.rec, i, success)]
  BY DEF Finish
<1> QED BY <1>1, <1>2, CompletedAdvances DEF StateType

LEMMA RunAdvances ==
  ASSUME NEW s \in StateType, NEW i \in Slots, s.rec[i].state = "queued"
  PROVE  LET t == Run(s, i)
         IN /\ t \in StateType /\ Advance(s.rec, t.rec)
            /\ t.rec[i].cmd = s.rec[i].cmd /\ t.rec[i].state = "running"
            /\ \A j \in Slots \ {i} : t.rec[j] = s.rec[j]
            /\ t.queue = s.queue /\ t.move = s.move /\ t.job = s.job
            /\ t.asked = s.asked /\ t.g = s.g
<1> DEFINE x == [s.rec[i] EXCEPT !.state = "running"]
           r == [s.rec EXCEPT ![i] = x]
<1>1. s.rec \in Table /\ s.rec[i] \in RecordType
  BY DEF StateType, Table
<1>2. /\ x \in RecordType /\ x.state = "running" /\ x.cmd = s.rec[i].cmd /\ x.seq = s.rec[i].seq
  BY <1>1 DEF RecordType, RecordStates
<1>3. Run(s, i) = [s EXCEPT !.rec = r]
  BY DEF Run
<1> HIDE DEF x
<1>4. r \in Table /\ r[i] = x /\ \A j \in Slots \ {i} : r[j] = s.rec[j]
  BY <1>1, <1>2 DEF Table
<1> HIDE DEF r
<1>5. Onward(s.rec, r)
  BY <1>2, <1>4 DEF Onward
<1>6. Announced(s.rec, r)
  <2>1. \A j \in Slots : r[j].state \in {"completed", "failed"} => r[j].state \notin Executing /\ j # i
    BY <1>2, <1>4 DEF Executing
  <2> QED BY <1>4, <2>1 DEF Announced
<1> QED BY <1>2, <1>3, <1>4, <1>5, <1>6 DEF StateType, Advance

-----------------------------------------------------------------------------
(* The gantry keeps its type.                                              *)

LEMMA ReleasedTyped == ASSUME NEW w \in GantryType PROVE Released(w) \in GantryType
  BY DEF Released, GantryType

LEMMA CancelOwnerTyped == ASSUME NEW w \in GantryType PROVE CancelOwner(w) \in GantryType
<1>1. \A b \in BOOLEAN : [w EXCEPT !.cancel = b] \in GantryType
  BY DEF GantryType
<1>2. (w.cancel \/ MissionActive(w)) \in BOOLEAN
  BY DEF GantryType
<1> QED BY <1>1, <1>2 DEF CancelOwner

LEMMA AxisTyped ==
  ASSUME NEW w \in GantryType, NEW a \in Axes, NEW phase \in AxisPhases
  PROVE  [w EXCEPT !.axis[a] = phase] \in GantryType
<1>1. [w.axis EXCEPT ![a] = phase] \in [Axes -> AxisPhases]
  BY DEF GantryType
<1> QED BY <1>1 DEF GantryType

LEMMA StopAxisTyped ==
  ASSUME NEW w \in GantryType, NEW a \in Axes, NEW took PROVE StopAxis(w, a, took) \in GantryType
<1>1. w.axis[a] \in AxisPhases
  BY DEF GantryType
<1>2. (IF took THEN "stopping" ELSE IF a = "Z" THEN w.axis[a] ELSE "fault") \in AxisPhases
  BY <1>1 DEF AxisPhases
<1> QED BY <1>2, AxisTyped DEF StopAxis

LEMMA StopMovingTyped == ASSUME NEW w \in GantryType PROVE StopMoving(w) \in GantryType
<1>1. [a \in Axes |-> IF w.axis[a] = "moving" THEN "stopping" ELSE w.axis[a]] \in [Axes -> AxisPhases]
  BY DEF GantryType, AxisPhases
<1> QED BY <1>1 DEF StopMoving, GantryType

-----------------------------------------------------------------------------
(* The stages of RemoteControl_Poll. Each keeps types and active indices,  *)
(* and advances the table.                                                 *)

\* A command that neither index points at finishes.
LEMMA OtherFinishes ==
  ASSUME NEW s, Good(s), NEW i \in Slots, s.rec[i].state \in Executing, i # s.move, i # s.job,
         NEW success
  PROVE  Good(Finish(s, i, success)) /\ Advance(s.rec, Finish(s, i, success).rec)
<1> DEFINE t == Finish(s, i, success)
<1>1. s \in StateType /\ s.move \in 0 .. History /\ s.job \in 0 .. History
  BY DEF Good, StateType
<1>2. /\ t \in StateType /\ Advance(s.rec, t.rec)
      /\ \A j \in Slots \ {i} : t.rec[j] = s.rec[j]
      /\ t.move = s.move /\ t.job = s.job
  BY <1>1, FinishAdvances
<1> HIDE DEF t
<1>3. ActiveIn(t)
  <2>1. s.move # 0 => t.rec[s.move] = s.rec[s.move]
    BY <1>1, <1>2, ConstantsAssumption DEF Slots
  <2>2. s.job # 0 => t.rec[s.job] = s.rec[s.job]
    BY <1>1, <1>2, ConstantsAssumption DEF Slots
  <2> QED BY <1>2, <2>1, <2>2 DEF Good, ActiveIn
<1> QED BY <1>2, <1>3 DEF Good, t

\* The active move, or the active mission, finishes and is forgotten.
LEMMA ActiveFinishes ==
  ASSUME NEW s, Good(s), NEW success
  PROVE  /\ s.move # 0 =>
              LET t == Finish(s, s.move, success)
              IN /\ s.move \in Slots /\ t \in StateType /\ Advance(s.rec, t.rec)
                 /\ t.job # 0 => t.rec[t.job] = s.rec[t.job]
                 /\ t.job = s.job /\ t.g = s.g /\ t.queue = s.queue
                 /\ \A j \in Slots \ {s.move} : t.rec[j] = s.rec[j]
         /\ s.job # 0 =>
              LET t == Finish(s, s.job, success)
              IN /\ s.job \in Slots /\ t \in StateType /\ Advance(s.rec, t.rec)
                 /\ t.move # 0 => t.rec[t.move] = s.rec[t.move]
                 /\ t.move = s.move
<1>1. s \in StateType /\ s.move \in 0 .. History /\ s.job \in 0 .. History
  BY DEF Good, StateType
<1>2. /\ s.move # 0 => s.move \in Slots /\ s.rec[s.move].state \in Executing
      /\ s.job # 0 => s.job \in Slots /\ s.rec[s.job].state \in Executing
      /\ s.move # 0 => s.move # s.job
  BY <1>1, ConstantsAssumption DEF Good, ActiveIn, Slots, Executing
<1>3. ASSUME s.move # 0
      PROVE  LET t == Finish(s, s.move, success)
             IN /\ s.move \in Slots /\ t \in StateType /\ Advance(s.rec, t.rec)
                /\ t.job # 0 => t.rec[t.job] = s.rec[t.job]
                /\ t.job = s.job /\ t.g = s.g /\ t.queue = s.queue
                /\ \A j \in Slots \ {s.move} : t.rec[j] = s.rec[j]
  BY <1>1, <1>2, <1>3, FinishAdvances
<1>4. ASSUME s.job # 0
      PROVE  LET t == Finish(s, s.job, success)
             IN /\ s.job \in Slots /\ t \in StateType /\ Advance(s.rec, t.rec)
                /\ t.move # 0 => t.rec[t.move] = s.rec[t.move]
                /\ t.move = s.move
  BY <1>1, <1>2, <1>4, FinishAdvances
<1> QED BY <1>3, <1>4

\* Anything but the table and the indices may change.
LEMMA AroundTable ==
  ASSUME NEW s, NEW t, Good(s), t \in StateType,
         t.rec = s.rec, t.move = s.move, t.job = s.job
  PROVE  Good(t) /\ Advance(s.rec, t.rec)
  BY AdvanceReflexive DEF Good, ActiveIn

LEMMA StopIssuedGood ==
  ASSUME NEW s, Good(s), NEW i \in Slots, s.rec[i].state = "running",
         s.rec[i].cmd.kind = "axis_stop"
  PROVE  Good(StopIssued(s, i)) /\ Advance(s.rec, StopIssued(s, i).rec)
<1> DEFINE a == s.rec[i].cmd.axis
           mine == s.move # 0 /\ s.rec[s.move].cmd.axis = a
           f == Finish(s, s.move, FALSE)
           t == IF mine THEN [f EXCEPT !.rec[i].release = TRUE, !.move = 0] ELSE s
<1>1. i # s.move /\ i # s.job /\ s \in StateType
  BY ConstantsAssumption DEF Good, ActiveIn, Slots
<1>2. /\ Good(t) /\ Advance(s.rec, t.rec)
      /\ t.rec[i].state = "running" /\ i # t.move /\ i # t.job
  <2>1. CASE ~mine
    BY <1>1, <2>1, AdvanceReflexive
  <2>2. CASE mine
    <3>1. /\ s.move \in Slots /\ f \in StateType /\ Advance(s.rec, f.rec)
          /\ f.job # 0 => f.rec[f.job] = s.rec[f.job]
          /\ f.job = s.job /\ f.rec[i] = s.rec[i]
      <4>1. /\ s.move \in Slots /\ f \in StateType /\ Advance(s.rec, f.rec)
            /\ f.job # 0 => f.rec[f.job] = s.rec[f.job]
            /\ f.job = s.job
            /\ \A j \in Slots \ {s.move} : f.rec[j] = s.rec[j]
        BY <2>2, ActiveFinishes, ZenonT(40)
      <4> HIDE DEF f
      <4> QED BY <1>1, <4>1
    <3> DEFINE x == [f.rec[i] EXCEPT !.release = TRUE]
               r == [f.rec EXCEPT ![i] = x]
    <3> HIDE DEF f
    <3>2. f.rec \in Table /\ f.rec[i] \in RecordType
      BY <3>1 DEF StateType, Table
    <3>3. /\ x \in RecordType /\ x.state = f.rec[i].state /\ x.cmd = f.rec[i].cmd
          /\ x.seq = f.rec[i].seq /\ x.pending = f.rec[i].pending
      BY <3>2 DEF RecordType
    <3> HIDE DEF x
    <3>4. r \in Table /\ r[i] = x /\ \A j \in Slots \ {i} : r[j] = f.rec[j]
      BY <3>2, <3>3 DEF Table
    <3> HIDE DEF r
    <3>5. t = [f EXCEPT !.rec = r, !.move = 0]
      BY <2>2, <3>1 DEF r, x, StateType
    <3> HIDE DEF t
    <3>6. t \in StateType /\ t.rec = r /\ t.move = 0 /\ t.job = s.job
      <4>1. f \in StateType /\ r \in Table /\ f.job = s.job /\ 0 \in 0 .. History
        BY <3>1, <3>4, ConstantsAssumption
      <4>2. [f EXCEPT !.rec = r, !.move = 0] \in StateType
        BY <4>1 DEF StateType
      <4>3. /\ [f EXCEPT !.rec = r, !.move = 0].rec = r
            /\ [f EXCEPT !.rec = r, !.move = 0].move = 0
            /\ [f EXCEPT !.rec = r, !.move = 0].job = f.job
        BY <4>1 DEF StateType
      <4> QED BY <3>5, <4>1, <4>2, <4>3
    <3>7. Advance(f.rec, r)
      <4>1. \A j \in Slots : /\ r[j].cmd = f.rec[j].cmd /\ r[j].seq = f.rec[j].seq
                             /\ r[j].state = f.rec[j].state /\ r[j].pending = f.rec[j].pending
        BY <3>3, <3>4
      <4>2. \A j \in Slots : r[j].state \in {"completed", "failed"} => r[j].state \notin Executing
        BY DEF Executing
      <4> QED BY <4>1, <4>2 DEF Advance, Onward, Announced
    <3>8. Advance(s.rec, t.rec)
      BY <3>1, <3>6, <3>7, AdvanceTransitive
    <3>9. s.job # 0 => r[s.job] = s.rec[s.job]
      BY <1>1, <3>1, <3>4, ConstantsAssumption DEF Slots, StateType
    <3>10. ActiveIn(t)
      BY <3>6, <3>9 DEF ActiveIn, Good
    <3>11. t.rec[i].state = "running"
      BY <3>1, <3>3, <3>4, <3>6
    <3> QED BY <1>1, <3>6, <3>8, <3>10, <3>11, ConstantsAssumption DEF Good, Slots
  <2> QED BY <2>1, <2>2
<1> HIDE DEF t
<1>3. StopIssued(s, i) = IF AxisStopped(t.g, a) THEN Finish(t, i, TRUE) ELSE t
  BY DEF StopIssued, t
<1>4. Good(Finish(t, i, TRUE)) /\ Advance(t.rec, Finish(t, i, TRUE).rec)
  BY <1>2, OtherFinishes DEF Executing
<1> QED BY <1>2, <1>3, <1>4, AdvanceTransitive

LEMMA AxisStopGood ==
  ASSUME NEW s, Good(s), NEW took
  PROVE  Good(ExecuteAxisStop(s, took)) /\ Advance(s.rec, ExecuteAxisStop(s, took).rec)
<1> DEFINE stops == {i \in Slots : s.rec[i].state = "queued" /\ s.rec[i].cmd.kind = "axis_stop"}
           i == Lowest(stops)
           run == Run(s, i)
           t == [run EXCEPT !.g = CancelOwner(run.g)]
           a == s.rec[i].cmd.axis
           u == [t EXCEPT !.g = StopAxis(t.g, a, took)]
<1>1. CASE stops = {}
  BY <1>1, AdvanceReflexive DEF ExecuteAxisStop
<1>2. CASE stops # {}
  <2>1. i \in Slots /\ s.rec[i].state = "queued" /\ s.rec[i].cmd.kind = "axis_stop"
    <3>1. i \in stops
      BY <1>2, LowestSlot
    <3> QED BY <3>1
  <2>2. s \in StateType /\ i # s.move /\ i # s.job
    <3> HIDE DEF i
    <3> QED BY <2>1, ConstantsAssumption DEF Good, ActiveIn, Slots
  <2>3. a \in Axes
    <3>1. s.rec[i].cmd \in Commands
      BY <2>1, <2>2 DEF StateType, Table, RecordType
    <3> QED BY <3>1, ConstantsAssumption
  <2>4. ExecuteAxisStop(s, took) =
          IF AxisStopped(t.g, a) THEN StopIssued(t, i)
          ELSE IF took THEN StopIssued(u, i) ELSE Finish(u, i, FALSE)
    BY <1>2 DEF ExecuteAxisStop
  <2> HIDE DEF i, stops, a
  <2>5. /\ run \in StateType /\ Advance(s.rec, run.rec)
        /\ run.rec[i].cmd = s.rec[i].cmd /\ run.rec[i].state = "running"
        /\ \A j \in Slots \ {i} : run.rec[j] = s.rec[j]
        /\ run.move = s.move /\ run.job = s.job
    BY <2>1, <2>2, RunAdvances
  <2> HIDE DEF run
  <2>6. Good(run)
    <3>1. s.move # 0 => run.rec[s.move] = s.rec[s.move]
      BY <2>2, <2>5, ConstantsAssumption DEF Slots, StateType
    <3>2. s.job # 0 => run.rec[s.job] = s.rec[s.job]
      BY <2>2, <2>5, ConstantsAssumption DEF Slots, StateType
    <3> QED BY <2>5, <3>1, <3>2 DEF Good, ActiveIn
  <2>7. t \in StateType /\ t.rec = run.rec /\ t.move = run.move /\ t.job = run.job
    <3>1. CancelOwner(run.g) \in GantryType
      BY <2>5, CancelOwnerTyped DEF StateType
    <3> QED BY <2>5, <3>1 DEF StateType
  <2> HIDE DEF t
  <2>8. u \in StateType /\ u.rec = run.rec /\ u.move = run.move /\ u.job = run.job
    <3>1. StopAxis(t.g, a, took) \in GantryType
      BY <2>3, <2>7, StopAxisTyped DEF StateType
    <3> QED BY <2>7, <3>1 DEF StateType
  <2> HIDE DEF u
  <2>9. Good(t) /\ Good(u)
    BY <2>6, <2>7, <2>8, AroundTable
  <2>10. Good(StopIssued(t, i)) /\ Advance(t.rec, StopIssued(t, i).rec)
    BY <2>1, <2>5, <2>7, <2>9, StopIssuedGood
  <2>11. Good(StopIssued(u, i)) /\ Advance(u.rec, StopIssued(u, i).rec)
    BY <2>1, <2>5, <2>8, <2>9, StopIssuedGood
  <2>12. Good(Finish(u, i, FALSE)) /\ Advance(u.rec, Finish(u, i, FALSE).rec)
    BY <2>1, <2>2, <2>5, <2>8, <2>9, OtherFinishes DEF Executing
  <2>13. Good(ExecuteAxisStop(s, took)) /\ Advance(run.rec, ExecuteAxisStop(s, took).rec)
    BY <2>4, <2>7, <2>8, <2>10, <2>11, <2>12
  <2> QED BY <2>5, <2>13, AdvanceTransitive
<1> QED BY <1>1, <1>2

\* The commands that wait for nothing, or for what Over says, do not become active.
LEMMA SimpleCommandGood ==
  ASSUME NEW s, Good(s), NEW i \in Slots, s.rec[i].state = "running", i # s.move, i # s.job,
         s.rec[i].cmd.kind \notin {"mission_start", "axis_move"}, NEW took, NEW success
  PROVE  /\ Good(Finish(s, i, success)) /\ Advance(s.rec, Finish(s, i, success).rec)
         /\ Good(CancelMission(s, i)) /\ Advance(s.rec, CancelMission(s, i).rec)
         /\ Good([Finish(s, i, TRUE) EXCEPT !.asked = TRUE])
         /\ Advance(s.rec, [Finish(s, i, TRUE) EXCEPT !.asked = TRUE].rec)
<1>1. \A ok : Good(Finish(s, i, ok)) /\ Advance(s.rec, Finish(s, i, ok).rec)
  BY OtherFinishes DEF Executing
<1>2. Good(CancelMission(s, i)) /\ Advance(s.rec, CancelMission(s, i).rec)
  <2> DEFINE t == [s EXCEPT !.g.cancel = TRUE]
  <2>1. s \in StateType /\ s.g \in GantryType
    BY DEF Good, StateType
  <2>2. [s.g EXCEPT !.cancel = TRUE] \in GantryType
    BY <2>1 DEF GantryType
  <2>3. t \in StateType /\ t.rec = s.rec /\ t.move = s.move /\ t.job = s.job
    BY <2>1, <2>2 DEF StateType
  <2>4. Good(t) /\ Advance(s.rec, t.rec)
    BY <2>3, AroundTable
  <2> QED BY <1>1, <2>4 DEF CancelMission
<1>3. /\ Good([Finish(s, i, TRUE) EXCEPT !.asked = TRUE])
      /\ Advance(s.rec, [Finish(s, i, TRUE) EXCEPT !.asked = TRUE].rec)
  <2> DEFINE f == Finish(s, i, TRUE)
             t == [f EXCEPT !.asked = TRUE]
  <2>1. Good(f) /\ Advance(s.rec, f.rec) /\ f \in StateType
    BY <1>1 DEF Good
  <2> HIDE DEF f
  <2>2. t \in StateType /\ t.rec = f.rec /\ t.move = f.move /\ t.job = f.job
    BY <2>1 DEF StateType
  <2>3. Good(t)
    BY <2>1, <2>2, AroundTable
  <2> QED BY <2>1, <2>2, <2>3 DEF f
<1> QED BY <1>1, <1>2, <1>3

LEMMA StartMissionGood ==
  ASSUME NEW s, Good(s), NEW i \in Slots, s.rec[i].state = "running", i # s.move, i # s.job,
         s.rec[i].cmd.kind = "mission_start"
  PROVE  Good(StartMission(s, i)) /\ Advance(s.rec, StartMission(s, i).rec)
<1> DEFINE t == [s EXCEPT !.g.mission = "asked", !.g.ended = "none", !.job = i]
<1>1. s \in StateType /\ s.g \in GantryType /\ i \in 0 .. History
  BY ConstantsAssumption DEF Good, StateType, Slots
<1>2. [s.g EXCEPT !.mission = "asked", !.ended = "none"] \in GantryType
  BY <1>1 DEF GantryType
<1>3. t = [s EXCEPT !.g = [s.g EXCEPT !.mission = "asked", !.ended = "none"], !.job = i]
  BY <1>1 DEF StateType, GantryType
<1>4. t \in StateType /\ t.rec = s.rec /\ t.move = s.move /\ t.job = i
  BY <1>1, <1>2, <1>3 DEF StateType
<1> HIDE DEF t
<1>5. Good(t) /\ Advance(s.rec, t.rec)
  BY <1>4, AdvanceReflexive DEF Good, ActiveIn
<1>6. Good(Finish(s, i, FALSE)) /\ Advance(s.rec, Finish(s, i, FALSE).rec)
  BY OtherFinishes DEF Executing
<1> QED BY <1>5, <1>6 DEF StartMission, t

LEMMA MoveAxisGood ==
  ASSUME NEW s, Good(s), NEW i \in Slots, s.rec[i].state = "running", i # s.move, i # s.job,
         s.rec[i].cmd.kind = "axis_move", NEW took
  PROVE  Good(MoveAxis(s, i, took)) /\ Advance(s.rec, MoveAxis(s, i, took).rec)
<1> DEFINE a == s.rec[i].cmd.axis
           w == [s.g EXCEPT !.owner = "MANUAL", !.hold = TRUE, !.axis[a] = "moving"]
           t == [s EXCEPT !.g.owner = "MANUAL", !.g.hold = TRUE, !.g.axis[a] = "moving", !.move = i]
           v == Released([s.g EXCEPT !.owner = "MANUAL"])
           u == [s EXCEPT !.g = v]
<1>1. s \in StateType /\ s.g \in GantryType /\ i \in 0 .. History
  BY ConstantsAssumption DEF Good, StateType, Slots
<1>2. a \in Axes
  <2>1. s.rec[i].cmd \in Commands
    BY <1>1 DEF StateType, Table, RecordType
  <2> QED BY <2>1, ConstantsAssumption
<1> HIDE DEF a
<1>3. w \in GantryType
  <2>1. [s.g EXCEPT !.owner = "MANUAL", !.hold = TRUE] \in GantryType
    BY <1>1 DEF GantryType
  <2>2. w = [[s.g EXCEPT !.owner = "MANUAL", !.hold = TRUE] EXCEPT !.axis[a] = "moving"]
    BY <1>1 DEF GantryType
  <2> QED BY <1>2, <2>1, <2>2, AxisTyped DEF AxisPhases
<1>4. t = [s EXCEPT !.g = w, !.move = i]
  BY <1>1 DEF StateType, GantryType
<1> HIDE DEF w, t
<1>5. t \in StateType /\ t.rec = s.rec /\ t.job = s.job /\ t.move = i
  BY <1>1, <1>3, <1>4 DEF StateType
<1>6. Good(t) /\ Advance(s.rec, t.rec)
  BY <1>5, AdvanceReflexive DEF Good, ActiveIn
<1>7. v \in GantryType
  <2>1. [s.g EXCEPT !.owner = "MANUAL"] \in GantryType
    BY <1>1 DEF GantryType
  <2> QED BY <2>1, ReleasedTyped
<1> HIDE DEF v
<1>8. u \in StateType /\ u.rec = s.rec /\ u.move = s.move /\ u.job = s.job
  BY <1>1, <1>7 DEF StateType
<1> HIDE DEF u
<1>9. Good(u)
  BY <1>8, AroundTable
<1>10. Good(Finish(u, i, FALSE)) /\ Advance(s.rec, Finish(u, i, FALSE).rec)
  BY <1>8, <1>9, OtherFinishes DEF Executing
<1>11. Good(Finish(s, i, FALSE)) /\ Advance(s.rec, Finish(s, i, FALSE).rec)
  BY OtherFinishes DEF Executing
<1>12. MoveAxis(s, i, took) \in {Finish(s, i, FALSE), t, Finish(u, i, FALSE)}
  BY DEF MoveAxis, a, t, u, v
<1> QED BY <1>6, <1>10, <1>11, <1>12

\* SetZero and ClearFault.
LEMMA ZCommandGood ==
  ASSUME NEW s, Good(s), NEW i \in Slots, s.rec[i].state = "running", i # s.move, i # s.job,
         s.rec[i].cmd.kind \notin {"mission_start", "axis_move"}, NEW took
  PROVE  /\ Good(SetZero(s, i, took)) /\ Advance(s.rec, SetZero(s, i, took).rec)
         /\ Good(ClearFault(s, i, took)) /\ Advance(s.rec, ClearFault(s, i, took).rec)
<1>1. s \in StateType /\ s.g \in GantryType
  BY DEF Good, StateType
<1>3. ASSUME NEW phase \in AxisPhases
      PROVE  LET t == [s EXCEPT !.g.axis["Z"] = phase]
             IN /\ Good(t) /\ Advance(s.rec, t.rec)
                /\ t.rec = s.rec /\ t.move = s.move /\ t.job = s.job
  <2> DEFINE w == [s.g EXCEPT !.axis["Z"] = phase]
             t == [s EXCEPT !.g.axis["Z"] = phase]
  <2>1. w \in GantryType
    <3>1. "Z" \notin Axes => w = s.g
      BY <1>1 DEF GantryType
    <3> QED BY <1>1, <1>3, <3>1, AxisTyped
  <2>2. t = [s EXCEPT !.g = w]
    BY <1>1 DEF StateType, GantryType
  <2> HIDE DEF w
  <2>3. t \in StateType /\ t.rec = s.rec /\ t.move = s.move /\ t.job = s.job
    BY <1>1, <2>1, <2>2 DEF StateType
  <2> HIDE DEF t
  <2>4. Good(t) /\ Advance(s.rec, t.rec)
    BY <2>3, AroundTable
  <2> QED BY <2>3, <2>4 DEF t
<1>4. \A ok : Good(Finish(s, i, ok)) /\ Advance(s.rec, Finish(s, i, ok).rec)
  BY OtherFinishes DEF Executing
<1>5. Good(SetZero(s, i, took)) /\ Advance(s.rec, SetZero(s, i, took).rec)
  <2> DEFINE t == [s EXCEPT !.g.axis["Z"] = "idle"]
  <2>1. Good(t) /\ t.rec = s.rec /\ t.move = s.move /\ t.job = s.job
    BY <1>3 DEF AxisPhases
  <2> HIDE DEF t
  <2>2. Good(Finish(t, i, TRUE)) /\ Advance(s.rec, Finish(t, i, TRUE).rec)
    BY <2>1, OtherFinishes DEF Executing
  <2> QED BY <1>4, <2>2 DEF SetZero, t
<1>6. Good(ClearFault(s, i, took)) /\ Advance(s.rec, ClearFault(s, i, took).rec)
  <2> DEFINE t == [s EXCEPT !.g.axis["Z"] = "recovering"]
  <2>1. Good(t) /\ Advance(s.rec, t.rec)
    BY <1>3 DEF AxisPhases
  <2>2. ClearFault(s, i, took) \in {s, t, Finish(s, i, TRUE), Finish(s, i, FALSE)}
    BY DEF ClearFault
  <2> HIDE DEF t
  <2> QED BY <1>4, <2>1, <2>2, AdvanceReflexive
<1> QED BY <1>5, <1>6

LEMMA ExecuteRequestGood ==
  ASSUME NEW s, Good(s), NEW took
  PROVE  Good(ExecuteRequest(s, took)) /\ Advance(s.rec, ExecuteRequest(s, took).rec)
<1> DEFINE i == Head(s.queue).slot
           r == s.rec[i]
           u == [s EXCEPT !.queue = Tail(s.queue)]
           t == Run(u, i)
           e == ExecuteRequest(s, took)
<1>1. CASE s.queue = <<>>
  BY <1>1, AdvanceReflexive DEF ExecuteRequest
<1>2. CASE s.queue # <<>>
  <2>1. s \in StateType /\ i \in Slots /\ Tail(s.queue) \in Queue
    <3>1. s \in StateType /\ s.queue \in Seq([slot : Slots, seq : 1 .. MaxRecords])
          /\ Len(s.queue) <= QueueDepth /\ Len(s.queue) \in Nat
      BY LenProperties DEF Good, StateType, Queue
    <3>2. /\ Head(s.queue) \in [slot : Slots, seq : 1 .. MaxRecords]
          /\ Tail(s.queue) \in Seq([slot : Slots, seq : 1 .. MaxRecords])
          /\ Len(Tail(s.queue)) = Len(s.queue) - 1
      BY <1>2, <3>1, HeadTailProperties
    <3>3. Len(Tail(s.queue)) <= QueueDepth
      BY <3>1, <3>2, ConstantsAssumption
    <3> QED BY <3>1, <3>2, <3>3 DEF Queue
  <2>2. r.seq # Head(s.queue).seq \/ r.state # "queued" => e = u
    BY <1>2 DEF ExecuteRequest
  <2>3a. r.seq = Head(s.queue).seq /\ r.state = "queued" =>
             e = CASE r.cmd.kind = "mission_start" -> StartMission(t, i)
                   [] r.cmd.kind = "mission_cancel" -> CancelMission(t, i)
                   [] r.cmd.kind = "axis_move" -> MoveAxis(t, i, took)
                   [] r.cmd.kind = "payload_set" -> Finish(t, i, ~MissionActive(t.g))
                   [] r.cmd.kind = "query" -> [Finish(t, i, TRUE) EXCEPT !.asked = TRUE]
                   [] r.cmd.kind = "z_set_zero" -> SetZero(t, i, took)
                   [] OTHER -> ClearFault(t, i, took)
    BY <1>2 DEF ExecuteRequest
  <2> HIDE DEF e, i
  <2>3. u \in StateType /\ u.rec = s.rec /\ u.move = s.move /\ u.job = s.job
    BY <2>1 DEF StateType
  <2> HIDE DEF u
  <2>4. Good(u) /\ Advance(s.rec, u.rec)
    BY <2>3, AroundTable
  <2>5. CASE r.seq # Head(s.queue).seq \/ r.state # "queued"
    BY <2>2, <2>4, <2>5 DEF e
  <2>6. CASE r.seq = Head(s.queue).seq /\ r.state = "queued"
    <3>1. i # s.move /\ i # s.job
      BY <2>1, <2>6, ConstantsAssumption DEF Good, ActiveIn, Slots
    <3>2. /\ t \in StateType /\ Advance(u.rec, t.rec)
          /\ t.rec[i].cmd = u.rec[i].cmd /\ t.rec[i].state = "running"
          /\ \A j \in Slots \ {i} : t.rec[j] = u.rec[j]
          /\ t.move = u.move /\ t.job = u.job
      BY <2>1, <2>3, <2>6, RunAdvances
    <3> HIDE DEF t
    <3>3. Good(t) /\ Advance(s.rec, t.rec)
      <4>1. s.move # 0 => t.rec[s.move] = s.rec[s.move]
        BY <2>1, <2>3, <3>1, <3>2, ConstantsAssumption DEF Slots, StateType
      <4>2. s.job # 0 => t.rec[s.job] = s.rec[s.job]
        BY <2>1, <2>3, <3>1, <3>2, ConstantsAssumption DEF Slots, StateType
      <4>3. ActiveIn(t)
        BY <2>3, <3>2, <4>1, <4>2 DEF Good, ActiveIn
      <4> QED BY <2>3, <3>2, <4>3 DEF Good
    <3>4. /\ t.rec[i].state = "running" /\ i # t.move /\ i # t.job
          /\ t.rec[i].cmd.kind = r.cmd.kind
      BY <2>3, <3>1, <3>2
    <3>5. Good(e) /\ Advance(t.rec, e.rec)
      <4> HIDE DEF r
      <4>1. CASE r.cmd.kind = "mission_start"
        <5>1. e = StartMission(t, i)
          BY <2>3a, <2>6, <4>1
        <5> QED BY <2>1, <3>3, <3>4, <4>1, <5>1, StartMissionGood
      <4>2. CASE r.cmd.kind = "axis_move"
        <5>1. e = MoveAxis(t, i, took)
          BY <2>3a, <2>6, <4>2
        <5> QED BY <2>1, <3>3, <3>4, <4>2, <5>1, MoveAxisGood
      <4>3. CASE r.cmd.kind = "mission_cancel"
        <5>1. e = CancelMission(t, i)
          BY <2>3a, <2>6, <4>3
        <5> QED BY <2>1, <3>3, <3>4, <4>3, <5>1, SimpleCommandGood
      <4>4. CASE r.cmd.kind = "payload_set"
        <5>1. e = Finish(t, i, ~MissionActive(t.g))
          BY <2>3a, <2>6, <4>4
        <5> QED BY <2>1, <3>3, <3>4, <4>4, <5>1, SimpleCommandGood
      <4>5. CASE r.cmd.kind = "query"
        <5>1. e = [Finish(t, i, TRUE) EXCEPT !.asked = TRUE]
          BY <2>3a, <2>6, <4>5
        <5> QED BY <2>1, <3>3, <3>4, <4>5, <5>1, SimpleCommandGood
      <4>6. CASE r.cmd.kind = "z_set_zero"
        <5>1. e = SetZero(t, i, took)
          BY <2>3a, <2>6, <4>6
        <5> QED BY <2>1, <3>3, <3>4, <4>6, <5>1, ZCommandGood
      <4>7. CASE r.cmd.kind \notin {"mission_start", "axis_move", "mission_cancel",
                                     "payload_set", "query", "z_set_zero"}
        <5>1. e = ClearFault(t, i, took)
          BY <2>3a, <2>6, <4>7
        <5> QED BY <2>1, <3>3, <3>4, <4>7, <5>1, ZCommandGood
      <4> QED BY <3>4, <4>1, <4>2, <4>3, <4>4, <4>5, <4>6, <4>7
    <3>6. Advance(s.rec, e.rec)
      BY <3>3, <3>5, AdvanceTransitive
    <3> QED BY <3>5, <3>6 DEF e
  <2> QED BY <2>5, <2>6 DEF e
<1> QED BY <1>1, <1>2

LEMMA PollMissionGood ==
  ASSUME NEW s, Good(s) PROVE Good(PollMission(s)) /\ Advance(s.rec, PollMission(s).rec)
<1> DEFINE ok == s.g.ended = "completed"
           f == Finish(s, s.job, ok)
           t == [f EXCEPT !.job = 0]
<1>1. ASSUME s.job # 0 PROVE Good(t) /\ Advance(s.rec, t.rec)
  <2>1. /\ f \in StateType /\ Advance(s.rec, f.rec)
        /\ f.move # 0 => f.rec[f.move] = s.rec[f.move]
        /\ f.move = s.move
    BY <1>1, ActiveFinishes
  <2> HIDE DEF f
  <2>2. t \in StateType /\ t.rec = f.rec /\ t.move = f.move /\ t.job = 0
    BY <2>1, ConstantsAssumption DEF StateType
  <2> HIDE DEF t
  <2> QED BY <2>1, <2>2 DEF Good, ActiveIn
<1>2. PollMission(s) \in {s} \cup {x \in {t} : s.job # 0}
  BY DEF PollMission
<1> HIDE DEF t
<1> QED BY <1>1, <1>2, AdvanceReflexive

LEMMA PollMoveGood ==
  ASSUME NEW s, Good(s) PROVE Good(PollMove(s)) /\ Advance(s.rec, PollMove(s).rec)
<1> DEFINE ok == s.g.axis[s.rec[s.move].cmd.axis] = "idle"
           f == Finish(s, s.move, ok)
           t == [f EXCEPT !.g = Released(f.g), !.move = 0]
<1>1. ASSUME s.move # 0 PROVE Good(t) /\ Advance(s.rec, t.rec)
  <2> HIDE DEF ok
  <2>1. /\ f \in StateType /\ Advance(s.rec, f.rec)
        /\ f.job # 0 => f.rec[f.job] = s.rec[f.job]
        /\ f.job = s.job
    BY <1>1, ActiveFinishes
  <2> HIDE DEF f
  <2>2. Released(f.g) \in GantryType /\ 0 \in 0 .. History
    BY <2>1, ReleasedTyped, ConstantsAssumption DEF StateType
  <2>3. t \in StateType /\ t.rec = f.rec /\ t.job = f.job /\ t.move = 0
    BY <2>1, <2>2 DEF StateType
  <2> HIDE DEF t
  <2> QED BY <2>1, <2>3 DEF Good, ActiveIn
<1>2. PollMove(s) \in {s} \cup {x \in {t} : s.move # 0}
  BY DEF PollMove
<1> HIDE DEF t
<1> QED BY <1>1, <1>2, AdvanceReflexive

LEMMA PollWaitingGood ==
  ASSUME NEW s, Good(s) PROVE Good(PollWaiting(s)) /\ Advance(s.rec, PollWaiting(s).rec)
<1> DEFINE over == {i \in Slots : s.rec[i].state = "running" /\ Over(s.g, s.rec[i])}
           good(x) == ~(x.cmd.kind = "z_clear_fault" /\ s.g.axis["Z"] = "fault")
           r == [i \in Slots |-> IF i \in over THEN Completed(s.rec, i, good(s.rec[i]))[i] ELSE s.rec[i]]
           w == IF \E i \in over : s.rec[i].cmd.kind = "axis_stop" /\ s.rec[i].release
                THEN Released(s.g) ELSE s.g
           t == PollWaiting(s)
<1>1. s \in StateType /\ s.rec \in Table /\ s.g \in GantryType
  BY DEF Good, StateType
<1>2. t = [s EXCEPT !.rec = r, !.g = w]
  BY DEF PollWaiting
<1> HIDE DEF t
<1>3. \A i \in over : /\ i \in Slots /\ s.rec[i].state = "running"
                       /\ s.rec[i].cmd.kind \notin {"axis_move", "mission_start"}
  BY DEF Over
<1> HIDE DEF over
<1>4. w \in GantryType
  BY <1>1, ReleasedTyped
<1> HIDE DEF w, good
<1>5. ASSUME NEW i \in Slots
      PROVE  \/ i \notin over /\ r[i] = s.rec[i]
             \/ i \in over /\ \E c \in Table : Advance(s.rec, c) /\ r[i] = c[i]
  <2>1. CASE i \notin over
    BY <2>1
  <2>2. CASE i \in over
    <3> DEFINE c == Completed(s.rec, i, good(s.rec[i]))
    <3>1. c \in Table /\ Advance(s.rec, c)
      BY <1>1, <1>3, <2>2, CompletedAdvances DEF Executing
    <3>2. r[i] = c[i]
      BY <2>2
    <3> HIDE DEF c, r
    <3> QED BY <2>2, <3>1, <3>2
  <2> QED BY <2>1, <2>2
<1>6. r = [i \in Slots |-> r[i]]
  OBVIOUS
<1> HIDE DEF r
<1>8. r \in Table
  <2>1. ASSUME NEW i \in Slots PROVE r[i] \in RecordType
    <3>1. \A c \in Table : c[i] \in RecordType
      BY DEF Table
    <3> QED BY <1>1, <1>5, <3>1
  <2> QED BY <1>6, <2>1 DEF Table
<1>9. Advance(s.rec, r)
  <2>1. ASSUME NEW i \in Slots
        PROVE  /\ r[i].cmd = s.rec[i].cmd /\ r[i].seq = s.rec[i].seq
               /\ \/ r[i].state = s.rec[i].state
                  \/ s.rec[i].state = "queued" /\ r[i].state = "running"
                  \/ s.rec[i].state \in Executing /\ r[i].state \in {"completed", "failed"}
               /\ r[i].state \in {"completed", "failed"} =>
                    IF s.rec[i].state \in Executing THEN r[i].pending
                    ELSE r[i].pending = s.rec[i].pending
    <3>1. PICK c : Advance(s.rec, c) /\ r[i] = c[i]
      BY <1>5, AdvanceReflexive
    <3> QED BY <3>1 DEF Advance, Onward, Announced
  <2> QED BY <2>1 DEF Advance, Onward, Announced
<1>10. t \in StateType /\ t.rec = r /\ t.move = s.move /\ t.job = s.job
  BY <1>1, <1>2, <1>4, <1>8 DEF StateType
<1>11. ActiveIn(t)
  <2>0. (s.move # 0 => s.move \in Slots) /\ (s.job # 0 => s.job \in Slots)
    BY <1>1, ConstantsAssumption DEF StateType, Slots
  <2>1. s.move # 0 => s.move \in Slots /\ r[s.move] = s.rec[s.move]
    BY <1>3, <1>5, <2>0, Zenon DEF Good, ActiveIn
  <2>2. s.job # 0 => s.job \in Slots /\ r[s.job] = s.rec[s.job]
    BY <1>3, <1>5, <2>0, Zenon DEF Good, ActiveIn
  <2> QED BY <1>10, <2>1, <2>2 DEF Good, ActiveIn
<1> QED BY <1>9, <1>10, <1>11 DEF Good, t

-----------------------------------------------------------------------------
(* The steps of the specification.                                         *)

\* No command is in the table twice.
Unique ==
  \A i, j \in Slots :
    rec[i].state # "free" /\ rec[j].state # "free" /\ rec[i].cmd = rec[j].cmd => i = j

\* While an event is being sent, the slot it was taken from is one.
Peeked == server.at = "sending" => server.slot \in Slots

IInv == TypeOK /\ ActiveIsRunning /\ Peeked /\ Unique /\ OwedIsPending

\* A slot that is free or final takes up a command that is not in the table.
TakenUp ==
  \E k \in Slots, x \in RecordType :
    /\ rec' = [rec EXCEPT ![k] = x]
    /\ x.state \in {"queued", "running", "rejected"}
    /\ rec[k].state \in {"free"} \cup Terminal
    /\ Find(x.cmd) = {}

TableStep == Onward(rec, rec') \/ TakenUp

LEMMA UniqueOnward == ASSUME Unique, Onward(rec, rec') PROVE Unique'
<1>1. \A i \in Slots : rec'[i].cmd = rec[i].cmd /\ (rec'[i].state # "free" => rec[i].state # "free")
  BY DEF Onward, Executing
<1> QED BY <1>1 DEF Unique

LEMMA OnwardReflexive == Onward(rec, rec)
  BY DEF Onward

LEMMA InitGood == Init => IInv
<1> SUFFICES ASSUME Init PROVE IInv
  OBVIOUS
<1>1. rec \in Table /\ \A i \in Slots : rec[i].state = "free"
  BY FreeTyped DEF Init, Table, Free
<1>2. g \in GantryType
  BY DEF Init, GantryType, AxisPhases
<1>3. server \in ServerType /\ server.at # "sending"
  BY ConstantsAssumption DEF Init, ServerType
<1>4. queue \in Seq([slot : Slots, seq : 1 .. MaxRecords]) /\ Len(queue) <= QueueDepth
  <2>1. << >> \in Seq([slot : Slots, seq : 1 .. MaxRecords]) /\ Len(<< >>) = 0
    BY EmptySeq
  <2>2. queue = << >>
    BY DEF Init
  <2>3. 0 <= QueueDepth
    BY ConstantsAssumption
  <2> QED BY <2>1, <2>2, <2>3
<1>5. seq \in 0 .. MaxRecords /\ move = 0 /\ job = 0 /\ asked \in BOOLEAN /\ owed = {}
      /\ others \in 0 .. MaxOthers
  <2>1. seq = 0 /\ move = 0 /\ job = 0 /\ asked = FALSE /\ owed = {} /\ others = 0
    BY DEF Init
  <2>2. seq \in 0 .. MaxRecords /\ others \in 0 .. MaxOthers
    BY <2>1, ConstantsAssumption
  <2>3. asked \in BOOLEAN
    BY <2>1
  <2> QED BY <2>1, <2>2, <2>3
<1>6. TypeOK
  BY <1>1, <1>2, <1>3, <1>4, <1>5, ConstantsAssumption DEF TypeOK, Table
<1> QED BY <1>1, <1>3, <1>5, <1>6 DEF IInv, ActiveIsRunning, Peeked, Unique, OwedIsPending

\* The gantry goes on.
LEMMA GantryStep == ASSUME IInv, GantryNext PROVE IInv' /\ TableStep
<1>1. TypeOK /\ g \in GantryType /\ others \in 0 .. MaxOthers
  BY DEF IInv, TypeOK
<1>2. ASSUME UNCHANGED <<rec, queue, seq, move, job, asked, server, owed>>,
             g' \in GantryType, others' \in 0 .. MaxOthers
      PROVE  IInv' /\ TableStep
  <2>1. TypeOK'
    BY <1>1, <1>2 DEF TypeOK
  <2>2. TableStep
    BY <1>2, OnwardReflexive DEF TableStep
  <2>3. (ActiveIsRunning /\ Peeked /\ Unique /\ OwedIsPending)'
    BY <1>2 DEF IInv, ActiveIsRunning, Peeked, Unique, OwedIsPending
  <2> QED BY <2>1, <2>2, <2>3 DEF IInv
<1>3. ASSUME NEW w \in GantryType, Gantry(w), others' \in 0 .. MaxOthers
      PROVE  IInv' /\ TableStep
  BY <1>2, <1>3 DEF Gantry
<1>4. \A w \in GantryType : StopMoving(w) \in GantryType
  BY StopMovingTyped
<1>5. ASSUME NEW a \in Axes, AxisEnds(a) PROVE IInv' /\ TableStep
  <2>1. PICK end \in AxisPhases : Gantry([g EXCEPT !.axis[a] = end])
    BY <1>5 DEF AxisEnds, AxisPhases
  <2> QED BY <1>1, <1>3, <1>5, <2>1, AxisTyped DEF AxisEnds
<1>6. ASSUME NEW a \in Axes, OwnerMoves(a) PROVE IInv' /\ TableStep
  <2>1. [g EXCEPT !.axis[a] = "moving"] \in GantryType
    BY <1>1, AxisTyped DEF AxisPhases
  <2> QED BY <1>1, <1>3, <1>6, <2>1 DEF OwnerMoves
<1>7. ASSUME NEW a \in Axes, ShellMove(a) PROVE IInv' /\ TableStep
  <2> DEFINE phase == IF g.axis[a] = "idle" THEN "moving" ELSE g.axis[a]
             w == [g EXCEPT !.owner = "MANUAL", !.hold = FALSE, !.axis[a] = phase]
             v == [g EXCEPT !.owner = "MANUAL", !.hold = FALSE]
  <2>1. phase \in AxisPhases
    BY <1>1 DEF GantryType, AxisPhases
  <2>2. Gantry(w)
    BY <1>7 DEF ShellMove
  <2> HIDE DEF phase
  <2>3. v \in GantryType /\ w = [v EXCEPT !.axis[a] = phase]
    BY <1>1 DEF GantryType
  <2> HIDE DEF v
  <2>4. w \in GantryType
    BY <2>1, <2>3, AxisTyped
  <2> HIDE DEF w
  <2>5. others' \in 0 .. MaxOthers
    BY <1>1, <1>7, ConstantsAssumption DEF ShellMove
  <2> QED BY <1>3, <2>2, <2>4, <2>5
<1>8. CASE Emergency
  <2>1. [g EXCEPT !.latch = TRUE, !.stop = TRUE] \in GantryType
    BY <1>1 DEF GantryType
  <2> QED BY <1>1, <1>3, <1>4, <1>8, <2>1 DEF Emergency
<1>9. CASE CoordAbort
  <2> DEFINE c == g.cancel /\ g.owner # "TASK"
             w == [g EXCEPT !.abort = FALSE, !.latch = TRUE, !.stop = TRUE, !.owner = "NONE", !.cancel = c]
  <2>1. c \in BOOLEAN /\ Gantry(StopMoving(w))
    BY <1>1, <1>9 DEF CoordAbort, GantryType
  <2> HIDE DEF c
  <2>2. w \in GantryType
    BY <1>1, <2>1 DEF GantryType
  <2> HIDE DEF w
  <2> QED BY <1>1, <1>3, <1>4, <1>9, <2>1, <2>2 DEF CoordAbort
<1>10. CASE StopDone
  <2>1. [g EXCEPT !.stop = FALSE] \in GantryType
    BY <1>1 DEF GantryType
  <2> QED BY <1>1, <1>3, <1>10, <2>1 DEF StopDone
<1>11. CASE AutoRelease
  <2>1. [g EXCEPT !.owner = "NONE"] \in GantryType
    BY <1>1 DEF GantryType
  <2> QED BY <1>1, <1>3, <1>11, <2>1 DEF AutoRelease
<1>12. CASE MissionBegin
  <2>1. /\ [g EXCEPT !.owner = "MISSION", !.mission = "active"] \in GantryType
        /\ [g EXCEPT !.mission = "idle", !.ended = "failed"] \in GantryType
    BY <1>1 DEF GantryType
  <2> QED BY <1>1, <1>3, <1>12, <2>1 DEF MissionBegin
<1>13. CASE MissionEnd
  <2> DEFINE o == IF g.owner = "MISSION" THEN "NONE" ELSE g.owner
             w == [g EXCEPT !.mission = "idle", !.ended = "failed", !.cancel = FALSE, !.owner = o]
             v == [g EXCEPT !.mission = "idle", !.ended = "completed", !.owner = "NONE"]
  <2>1. w \in GantryType /\ v \in GantryType
    BY <1>1 DEF GantryType
  <2>2. Gantry(v) \/ Gantry(StopMoving(w))
    BY <1>13 DEF MissionEnd
  <2> HIDE DEF w, v
  <2> QED BY <1>1, <1>3, <1>4, <1>13, <2>1, <2>2 DEF MissionEnd
<1>14. CASE TaskStart
  <2>1. [g EXCEPT !.owner = "TASK"] \in GantryType /\ others' \in 0 .. MaxOthers
    BY <1>1, <1>14, ConstantsAssumption DEF GantryType, TaskStart
  <2> QED BY <1>3, <1>14, <2>1 DEF TaskStart
<1>15. CASE TaskEnd
  <2>1. [g EXCEPT !.owner = "NONE", !.cancel = FALSE] \in GantryType
    BY <1>1 DEF GantryType
  <2> QED BY <1>1, <1>3, <1>4, <1>15, <2>1 DEF TaskEnd
<1>16. CASE ShellStop
  <2> DEFINE f == [a \in Axes |-> IF a = "Z" THEN g.axis[a] ELSE "stopping"]
             w == [g EXCEPT !.owner = "MANUAL", !.hold = FALSE, !.axis = f]
  <2>1. f \in [Axes -> AxisPhases]
    BY <1>1 DEF GantryType, AxisPhases
  <2>2. Gantry(w)
    BY <1>16 DEF ShellStop
  <2> HIDE DEF f
  <2>3. w \in GantryType
    BY <1>1, <2>1 DEF GantryType
  <2> HIDE DEF w
  <2>4. others' \in 0 .. MaxOthers
    BY <1>1, <1>16, ConstantsAssumption DEF ShellStop
  <2> QED BY <1>3, <2>2, <2>3, <2>4
<1> QED
  BY <1>5, <1>6, <1>7, <1>8, <1>9, <1>10, <1>11, <1>12, <1>13, <1>14, <1>15, <1>16 DEF GantryNext

\* RemoteControl_Poll, stage after stage.
LEMMA PollStep ==
  ASSUME IInv, NEW halted, NEW took, Poll(halted, took) PROVE IInv' /\ TableStep
<1>1. TypeOK /\ Unique /\ OwedIsPending
  BY DEF IInv
<1>2. Good(Now)
  <2>1. Now \in StateType
    BY <1>1 DEF TypeOK, Now, StateType, Table, Queue
  <2>2. ActiveIn(Now)
    BY DEF IInv, ActiveIsRunning, ActiveIn, Now
  <2> QED BY <2>1, <2>2 DEF Good
<1> DEFINE a == ExecuteAxisStop(Now, halted)
           b == ExecuteRequest(a, took)
           c == PollMission(b)
           d == PollMove(c)
           s == PollWaiting(d)
<1>3. /\ rec' = s.rec /\ queue' = s.queue /\ move' = s.move /\ job' = s.job
      /\ asked' = s.asked /\ g' = s.g /\ owed' = owed \cup Finishing(s)
      /\ UNCHANGED <<seq, server, others>>
  BY DEF Poll
<1>4. Good(a) /\ Advance(Now.rec, a.rec)
  BY <1>2, AxisStopGood
<1> HIDE DEF a
<1>5. Good(b) /\ Advance(a.rec, b.rec)
  BY <1>4, ExecuteRequestGood
<1> HIDE DEF b
<1>6. Good(c) /\ Advance(b.rec, c.rec)
  BY <1>5, PollMissionGood
<1> HIDE DEF c
<1>7. Good(d) /\ Advance(c.rec, d.rec)
  BY <1>6, PollMoveGood
<1> HIDE DEF d
<1>8. Good(s) /\ Advance(d.rec, s.rec)
  BY <1>7, PollWaitingGood
<1> HIDE DEF s
<1>9. Advance(rec, rec')
  <2>1. Advance(Now.rec, b.rec)
    BY <1>4, <1>5, AdvanceTransitive
  <2>2. Advance(Now.rec, c.rec)
    BY <1>6, <2>1, AdvanceTransitive
  <2>3. Advance(Now.rec, d.rec)
    BY <1>7, <2>2, AdvanceTransitive
  <2>4. Advance(Now.rec, s.rec)
    BY <1>8, <2>3, AdvanceTransitive
  <2>5. Now.rec = rec
    BY DEF Now
  <2> QED BY <1>3, <2>4, <2>5
<1>10. /\ rec' \in Table /\ queue' \in Queue /\ move' \in 0 .. History /\ job' \in 0 .. History
       /\ asked' \in BOOLEAN /\ g' \in GantryType
  BY <1>3, <1>8 DEF Good, StateType
<1>11. owed' \subseteq Commands
  <2>1. \A i \in Slots : rec'[i].cmd \in Commands
    BY <1>10 DEF Table, RecordType
  <2> QED BY <1>1, <1>3, <2>1 DEF TypeOK, Finishing
<1>12. TypeOK'
  BY <1>1, <1>3, <1>10, <1>11 DEF TypeOK, Table, Queue
<1>13. ActiveIsRunning'
  BY <1>3, <1>8 DEF Good, ActiveIn, ActiveIsRunning
<1>14. Unique'
  BY <1>1, <1>9, UniqueOnward DEF Advance
<1>15. OwedIsPending'
  <2> SUFFICES ASSUME NEW i \in Slots, rec'[i].state \in {"completed", "failed"}, rec'[i].cmd \in owed'
               PROVE  rec'[i].pending
    BY DEF OwedIsPending
  <2>1. CASE rec[i].state \in Executing
    BY <1>9, <2>1 DEF Advance, Announced
  <2>2. CASE rec[i].state \notin Executing
    <3>1. rec'[i].state = rec[i].state /\ rec'[i].cmd = rec[i].cmd /\ rec'[i].pending = rec[i].pending
      BY <1>9, <2>2 DEF Advance, Onward, Announced, Executing
    <3>2. rec'[i].cmd \notin Finishing(s)
      <4>1. SUFFICES ASSUME NEW j \in Slots, rec'[j].cmd = rec'[i].cmd, rec[j].state \in Executing
                     PROVE  FALSE
        BY <1>3 DEF Finishing, Executing
      <4>2. rec'[j].cmd = rec[j].cmd
        BY <1>9 DEF Advance, Onward
      <4>3. rec[i].state # "free" /\ rec[j].state # "free"
        BY <3>1, <4>1 DEF Executing
      <4> QED BY <1>1, <2>2, <3>1, <4>1, <4>2, <4>3 DEF Unique
    <3> QED BY <1>1, <1>3, <3>1, <3>2 DEF OwedIsPending
  <2> QED BY <2>1, <2>2
<1>16. Peeked' /\ TableStep
  BY <1>3, <1>9 DEF IInv, Peeked, TableStep, Advance
<1> QED BY <1>12, <1>13, <1>14, <1>15, <1>16 DEF IInv

\* A record that is written anew: its slot was free or final.
LEMMA AcceptStep ==
  ASSUME IInv, NEW c \in Commands, Find(c) = {}, NEW i \in Allocate, NEW fits,
         Accept(c, i, fits), server.at = "receive",
         server' = [server EXCEPT !.at = "receive"] \/ server' = [server EXCEPT !.at = "status"],
         UNCHANGED <<move, job, asked, owed, others>>
  PROVE  IInv' /\ TableStep
<1>1. /\ TypeOK /\ ActiveIsRunning /\ Unique /\ OwedIsPending
      /\ rec \in Table /\ g \in GantryType /\ server \in ServerType
  BY DEF IInv, TypeOK, Table
<1>2. i \in Slots /\ rec[i].state \in {"free"} \cup Terminal
  <2> DEFINE free == {j \in Slots : rec[j].state = "free"}
  <2>1. CASE free # {}
    <3>1. Lowest(free) \in free
      BY <2>1, LowestSlot
    <3> QED BY <2>1, <3>1 DEF Allocate
  <2>2. CASE free = {}
    BY <2>2 DEF Allocate
  <2> QED BY <2>1, <2>2
<1> DEFINE queued == c.kind \notin {"emergency_stop", "axis_stop"}
           refused == ~Precheck(c, fits) \/ (queued /\ Len(queue) = QueueDepth)
           state == CASE refused -> "rejected"
                      [] c.kind = "emergency_stop" -> "running"
                      [] OTHER -> "queued"
           x == [Free EXCEPT !.state = state, !.cmd = c, !.seq = seq + 1]
           e == [slot |-> i, seq |-> seq + 1]
<1>3. /\ seq < MaxRecords /\ seq' = seq + 1 /\ rec' = [rec EXCEPT ![i] = x]
      /\ queue' = IF queued /\ ~refused THEN Append(queue, e) ELSE queue
      /\ g' = IF state = "running" THEN [g EXCEPT !.abort = TRUE] ELSE g
  BY DEF Accept
<1>4. state \in {"queued", "running", "rejected"}
  OBVIOUS
<1>5. queued /\ ~refused => Len(queue) # QueueDepth
  OBVIOUS
<1> HIDE DEF queued, refused, state
<1>6. seq' \in 1 .. MaxRecords
  BY <1>1, <1>3, ConstantsAssumption DEF TypeOK
<1>7. x \in RecordType /\ x.state = state /\ x.cmd = c /\ x.seq = seq'
  <2>1. state \in RecordStates
    BY <1>4 DEF RecordStates, Terminal
  <2>2. seq + 1 \in 0 .. MaxRecords /\ seq' = seq + 1
    BY <1>3, <1>6, ConstantsAssumption
  <2> QED BY <2>1, <2>2, FreeTyped DEF RecordType
<1> HIDE DEF x
<1>8. rec' \in Table /\ rec'[i] = x /\ \A j \in Slots \ {i} : rec'[j] = rec[j]
  BY <1>1, <1>2, <1>3, <1>7 DEF Table
<1>9. queue' \in Queue
  <2>1. e \in [slot : Slots, seq : 1 .. MaxRecords]
    BY <1>2, <1>3, <1>6
  <2> HIDE DEF e
  <2>2. queue \in Seq([slot : Slots, seq : 1 .. MaxRecords]) /\ Len(queue) <= QueueDepth
        /\ Len(queue) \in Nat
    BY <1>1 DEF TypeOK
  <2>3. CASE queued /\ ~refused
    <3>1. queue' = Append(queue, e) /\ Len(queue) < QueueDepth
      BY <1>3, <1>5, <2>2, <2>3, ConstantsAssumption
    <3>2. Append(queue, e) \in Seq([slot : Slots, seq : 1 .. MaxRecords])
          /\ Len(Append(queue, e)) = Len(queue) + 1
      BY <2>1, <2>2, AppendProperties
    <3> QED BY <2>2, <3>1, <3>2, ConstantsAssumption DEF Queue
  <2>4. CASE ~(queued /\ ~refused)
    BY <1>3, <2>2, <2>4 DEF Queue
  <2> QED BY <2>3, <2>4
<1>10. g' \in GantryType
  BY <1>1, <1>3 DEF GantryType
<1>11. server' \in ServerType /\ server'.at # "sending"
  BY <1>1 DEF ServerType
<1>12. TypeOK'
  <2>1. seq' \in 0 .. MaxRecords
    BY <1>6, ConstantsAssumption
  <2> QED BY <1>1, <1>8, <1>9, <1>10, <1>11, <2>1 DEF TypeOK, Table, Queue
<1>13. ActiveIsRunning'
  <2>1. /\ move # 0 => move \in Slots /\ move # i
        /\ job # 0 => job \in Slots /\ job # i
    BY <1>1, <1>2, ConstantsAssumption DEF ActiveIsRunning, TypeOK, Terminal, Slots
  <2> QED BY <1>1, <1>8, <2>1 DEF ActiveIsRunning
<1>14. Unique'
  <2>1. \A j \in Slots : rec[j].state # "free" => rec[j].cmd # c
    BY DEF Find
  <2> QED BY <1>1, <1>7, <1>8, <2>1 DEF Unique
<1>15. OwedIsPending'
  BY <1>1, <1>4, <1>7, <1>8 DEF OwedIsPending
<1>16. TableStep
  BY <1>2, <1>3, <1>4, <1>7 DEF TableStep, TakenUp
<1> QED BY <1>11, <1>12, <1>13, <1>14, <1>15, <1>16 DEF IInv, Peeked

\* The steps of the connection that write no record but its pending mark.
LEMMA MarkStep ==
  ASSUME IInv, NEW i \in Slots, NEW mark \in BOOLEAN,
         rec' = [rec EXCEPT ![i].pending = mark],
         ~mark => \/ rec[i].cmd \notin owed' \/ ~rec[i].pending
                  \/ rec[i].state \notin {"completed", "failed"},
         owed' \subseteq owed, server' \in ServerType, Peeked', asked' \in BOOLEAN,
         UNCHANGED <<queue, seq, move, job, g, others>>
  PROVE  IInv' /\ TableStep
<1>1. /\ TypeOK /\ ActiveIsRunning /\ Unique /\ OwedIsPending /\ rec \in Table
  BY DEF IInv, TypeOK, Table
<1> DEFINE x == [rec[i] EXCEPT !.pending = mark]
<1>2. x \in RecordType /\ x.state = rec[i].state /\ x.cmd = rec[i].cmd /\ x.seq = rec[i].seq
      /\ x.pending = mark
  BY <1>1 DEF Table, RecordType
<1>3. rec' = [rec EXCEPT ![i] = x]
  OBVIOUS
<1> HIDE DEF x
<1>4. rec' \in Table /\ rec'[i] = x /\ \A j \in Slots \ {i} : rec'[j] = rec[j]
  BY <1>1, <1>2, <1>3 DEF Table
<1>5. \A j \in Slots : rec'[j].cmd = rec[j].cmd /\ rec'[j].seq = rec[j].seq /\ rec'[j].state = rec[j].state
  BY <1>2, <1>4
<1>6. Onward(rec, rec')
  BY <1>5 DEF Onward
<1>7. TypeOK'
  BY <1>1, <1>4 DEF TypeOK, Table
<1>8. ActiveIsRunning'
  <2>1. /\ move # 0 => move \in Slots
        /\ job # 0 => job \in Slots
    BY <1>1, ConstantsAssumption DEF TypeOK, Slots
  <2> QED BY <1>1, <1>5, <2>1 DEF ActiveIsRunning
<1>9. OwedIsPending'
  <2> SUFFICES ASSUME NEW j \in Slots, rec'[j].state \in {"completed", "failed"}, rec'[j].cmd \in owed'
               PROVE  rec'[j].pending
    BY DEF OwedIsPending
  <2>1. rec[j].pending
    BY <1>1, <1>5 DEF OwedIsPending
  <2>2. CASE j # i
    BY <1>4, <2>1, <2>2
  <2>3. CASE j = i
    <3>1. mark
      BY <1>5, <2>1, <2>3
    <3> QED BY <1>2, <1>4, <2>3, <3>1
  <2> QED BY <2>2, <2>3
<1> QED BY <1>1, <1>6, <1>7, <1>8, <1>9, UniqueOnward DEF IInv, TableStep

\* Steps that leave the table, the commands and the gantry alone.
LEMMA ServerStep ==
  ASSUME IInv, server' \in ServerType, Peeked', asked' \in BOOLEAN, owed' \subseteq owed,
         UNCHANGED <<rec, queue, seq, move, job, g, others>>
  PROVE  IInv' /\ TableStep
<1>1. TypeOK'
  BY DEF IInv, TypeOK
<1>2. (ActiveIsRunning /\ Unique /\ OwedIsPending)'
  BY DEF IInv, ActiveIsRunning, Unique, OwedIsPending
<1> QED BY <1>1, <1>2, OnwardReflexive DEF IInv, TableStep

LEMMA SocketStep == ASSUME IInv, Socket PROVE IInv' /\ TableStep
<1>1. /\ TypeOK /\ Peeked /\ rec \in Table /\ server \in ServerType /\ asked \in BOOLEAN
  BY DEF IInv, TypeOK, Table
<1>2. ASSUME NEW c \in Commands, NEW fits \in BOOLEAN, Submit(c, fits) PROVE IInv' /\ TableStep
  <2>1. /\ server.at = "receive" /\ UNCHANGED <<move, job, asked, owed, others>>
        /\ server' = [server EXCEPT !.at = "receive"] \/ server' = [server EXCEPT !.at = "status"]
    BY <1>2 DEF Submit
  <2>2. server' \in ServerType /\ server'.at # "sending"
    BY <1>1, <2>1 DEF ServerType
  <2>3. CASE Find(c) # {}
    <3>1. PICK i \in Slots : Repeat(i)
      BY <1>2, <2>3 DEF Submit, Find
    <3> DEFINE mark == rec[i].pending \/ rec[i].state \in {"completed", "failed"}
    <3>2. mark \in BOOLEAN
      OBVIOUS
    <3>3. rec' = [rec EXCEPT ![i].pending = mark] /\ UNCHANGED <<queue, seq, g>>
      BY <3>1 DEF Repeat
    <3>4. ~mark => rec[i].state \notin {"completed", "failed"}
      OBVIOUS
    <3> HIDE DEF mark
    <3> QED BY <1>1, <2>1, <2>2, <3>2, <3>3, <3>4, MarkStep DEF Peeked
  <2>4. CASE Find(c) = {} /\ Allocate = {}
    <3>1. UNCHANGED <<rec, queue, seq, g>>
      BY <1>2, <2>4 DEF Submit
    <3> QED BY <1>1, <2>1, <2>2, <3>1, ServerStep DEF Peeked
  <2>5. CASE Find(c) = {} /\ Allocate # {}
    <3>1. PICK i \in Allocate : Accept(c, i, fits)
      BY <1>2, <2>5 DEF Submit
    <3> QED BY <2>1, <2>5, <3>1, AcceptStep
  <2> QED BY <2>3, <2>4, <2>5
<1>3. CASE Connect \/ Disconnect \/ TakeStatusRequest \/ ReceiveNothing
  <2>1. /\ server' \in ServerType /\ server'.at # "sending" /\ asked' \in BOOLEAN
        /\ owed' = owed /\ UNCHANGED <<rec, queue, seq, move, job, g, others>>
    <3>1. 0 \in 0 .. History /\ 0 \in 0 .. MaxRecords
      BY ConstantsAssumption
    <3>2. CASE Connect
      BY <1>1, <3>2 DEF Connect, ServerType
    <3>3. CASE Disconnect
      BY <1>1, <3>1, <3>3 DEF Disconnect, ServerType
    <3>4. CASE TakeStatusRequest
      BY <1>1, <3>4 DEF TakeStatusRequest, ServerType
    <3>5. CASE ReceiveNothing
      BY <1>1, <3>5 DEF ReceiveNothing, ServerType
    <3> QED BY <1>3, <3>2, <3>3, <3>4, <3>5
  <2> QED BY <2>1, ServerStep DEF Peeked
<1>4. CASE PeekEvent
  <2> DEFINE pending == {i \in Slots : rec[i].pending /\ rec[i].state \in {"completed", "failed"}}
  <2>1. owed' = owed /\ UNCHANGED <<rec, queue, seq, move, job, asked, g, others>>
    BY <1>4 DEF PeekEvent
  <2>2. CASE pending = {}
    <3>1. server' = [server EXCEPT !.at = "receive"]
      BY <1>4, <2>2 DEF PeekEvent
    <3>2. server' \in ServerType /\ server'.at # "sending"
      BY <1>1, <3>1 DEF ServerType
    <3> QED BY <1>1, <2>1, <3>2, ServerStep DEF Peeked
  <2>3. CASE pending # {}
    <3> DEFINE i == Lowest(pending)
    <3>1. server' = [at |-> "sending", slot |-> i, seq |-> rec[i].seq]
      BY <1>4, <2>3 DEF PeekEvent
    <3>2. i \in Slots
      BY <2>3, LowestSlot
    <3> HIDE DEF i
    <3>3. rec[i].seq \in 0 .. MaxRecords /\ i \in 0 .. History
      BY <1>1, <3>2, ConstantsAssumption DEF Table, RecordType, Slots
    <3>4. server' \in ServerType /\ server'.slot \in Slots
      BY <3>1, <3>2, <3>3 DEF ServerType
    <3> QED BY <1>1, <2>1, <3>4, ServerStep DEF Peeked
  <2> QED BY <2>2, <2>3
<1>5. CASE ConfirmEvent
  <2> DEFINE i == server.slot
  <2>1. /\ i \in Slots /\ server' \in ServerType /\ server'.at # "sending"
        /\ owed' = owed \ {rec[i].cmd} /\ UNCHANGED <<queue, seq, move, job, asked, g, others>>
        /\ rec' = rec \/ rec' = [rec EXCEPT ![i].pending = FALSE]
    BY <1>1, <1>5, ConstantsAssumption DEF ConfirmEvent, ServerType, Peeked
  <2> HIDE DEF i
  <2>2. CASE rec' = rec
    BY <1>1, <2>1, <2>2, ServerStep DEF Peeked
  <2>3. CASE rec' = [rec EXCEPT ![i].pending = FALSE]
    BY <1>1, <2>1, <2>3, MarkStep DEF Peeked
  <2> QED BY <2>1, <2>2, <2>3
<1> QED BY <1>2, <1>3, <1>4, <1>5 DEF Socket

LEMMA StepGood == ASSUME IInv, [Next]_vars PROVE IInv' /\ (TableStep \/ UNCHANGED vars)
<1>1. CASE UNCHANGED vars
  <2>1. TypeOK'
    BY <1>1 DEF IInv, TypeOK, vars
  <2>2. (ActiveIsRunning /\ Peeked /\ Unique /\ OwedIsPending)'
    BY <1>1 DEF IInv, ActiveIsRunning, Peeked, Unique, OwedIsPending, vars
  <2> QED BY <1>1, <2>1, <2>2 DEF IInv
<1> QED BY <1>1, SocketStep, PollStep, GantryStep DEF Next

LEMMA Inductive == Spec => []IInv
<1>1. IInv /\ [Next]_vars => IInv'
  BY StepGood
<1> QED BY <1>1, InitGood, PTL DEF Spec

\* Whatever is submitted, repeated, executed and pushed out, the records, the queue and
\* the indices stay within their ranges, and the queue within its depth.
THEOREM TypeCorrect == Spec => []TypeOK
<1>1. IInv => TypeOK
  BY DEF IInv
<1> QED BY <1>1, Inductive, PTL

\* The two indices of remote_control.c never point at a record that has finished or that
\* another command has taken over.
THEOREM ActiveStaysRunning == Spec => []ActiveIsRunning
<1>1. IInv => ActiveIsRunning
  BY DEF IInv
<1> QED BY <1>1, Inductive, PTL

\* Across disconnections and repeats, an event that is owed is pending in its record.
THEOREM OwedStaysPending == Spec => []OwedIsPending
<1>1. IInv => OwedIsPending
  BY DEF IInv
<1> QED BY <1>1, Inductive, PTL

-----------------------------------------------------------------------------
(* The table implements CommandLife.                                       *)

Holds(i, c) == rec[i].state # "free" /\ rec[i].cmd = c

\* What CommandLife sees of a command: the state of the one record that holds it.
LifeIs ==
  \A c \in Commands :
    \/ LifeOf(c) = "unknown" /\ \A i \in Slots : ~Holds(i, c)
    \/ \E i \in Slots : Holds(i, c) /\ LifeOf(c) = rec[i].state

LEMMA LifeFollows == IInv => LifeIs
<1> SUFFICES ASSUME IInv, NEW c \in Commands
             PROVE  \/ LifeOf(c) = "unknown" /\ \A i \in Slots : ~Holds(i, c)
                    \/ \E i \in Slots : Holds(i, c) /\ LifeOf(c) = rec[i].state
  BY DEF LifeIs
<1>1. CASE Find(c) = {}
  BY <1>1 DEF LifeOf, Find, Holds
<1>2. ASSUME NEW i \in Find(c) PROVE Holds(i, c) /\ i \in Slots /\ LifeOf(c) = rec[i].state
  <2>1. Find(c) = {i}
    BY <1>2 DEF IInv, Unique, Find
  <2>2. Cardinality({i}) = 1
    BY FS_Singleton
  <2>3. LifeOf(c) = rec[CHOOSE j \in {i} : TRUE].state
    BY <2>1, <2>2 DEF LifeOf
  <2>4. (CHOOSE j \in {i} : TRUE) = i
    OBVIOUS
  <2>5. Holds(i, c) /\ i \in Slots
    BY <1>2 DEF Find, Holds
  <2> QED BY <2>3, <2>4, <2>5
<1> QED BY <1>1, <1>2

LEMMA LifeStep ==
  ASSUME IInv, IInv', LifeIs, LifeIs', TableStep, NEW c \in Commands
  PROVE  LifeOf(c)' = LifeOf(c) \/ <<LifeOf(c), LifeOf(c)'>> \in Life!LifeSteps
<1> DEFINE was == LifeOf(c)
           is == LifeOf(c)'
<1>1. \/ was = "unknown" /\ \A i \in Slots : ~Holds(i, c)
      \/ \E i \in Slots : Holds(i, c) /\ was = rec[i].state
  BY DEF LifeIs
<1>2. \/ is = "unknown" /\ \A i \in Slots : ~(rec'[i].state # "free" /\ rec'[i].cmd = c)
      \/ \E i \in Slots : rec'[i].state # "free" /\ rec'[i].cmd = c /\ is = rec'[i].state
  BY DEF LifeIs, Holds
<1>3. /\ \A i, j \in Slots : Holds(i, c) /\ Holds(j, c) => i = j
      /\ \A i, j \in Slots : (rec'[i].state # "free" /\ rec'[i].cmd = c
                              /\ rec'[j].state # "free" /\ rec'[j].cmd = c) => i = j
  <2>1. Unique /\ Unique'
    BY DEF IInv
  <2>2. \A i, j \in Slots : Holds(i, c) /\ Holds(j, c) => i = j
    BY <2>1 DEF Unique, Holds
  <2>3. \A i, j \in Slots : (rec'[i].state # "free" /\ rec'[j].state # "free"
                            /\ rec'[i].cmd = rec'[j].cmd) => i = j
    BY <2>1 DEF Unique
  <2> QED BY <2>2, <2>3
<1> SUFFICES is = was \/ <<was, is>> \in Life!LifeSteps
  OBVIOUS
<1> HIDE DEF was, is
<1>4. ASSUME NEW i \in Slots, rec'[i].state # "free", rec'[i].cmd = c PROVE is = rec'[i].state
  BY <1>2, <1>3, <1>4
<1>5. CASE Onward(rec, rec')
  <2>1. ASSUME NEW i \in Slots, Holds(i, c), was = rec[i].state
        PROVE  is = was \/ <<was, is>> \in Life!LifeSteps
    <3>1. /\ rec'[i].cmd = c
          /\ \/ rec'[i].state = rec[i].state
             \/ rec[i].state = "queued" /\ rec'[i].state = "running"
             \/ rec[i].state \in Executing /\ rec'[i].state \in {"completed", "failed"}
      BY <1>5, <2>1 DEF Onward, Holds
    <3>2. is = rec'[i].state
      BY <1>4, <2>1, <3>1 DEF Holds
    <3> QED BY <2>1, <3>1, <3>2
            DEF Executing, Life!LifeSteps, Life!Active, Life!Final
  <2>2. ASSUME was = "unknown", \A i \in Slots : ~Holds(i, c) PROVE is = was
    <3>1. \A i \in Slots : ~(rec'[i].state # "free" /\ rec'[i].cmd = c)
      BY <1>5, <2>2 DEF Onward, Holds, Executing
    <3> QED BY <1>2, <2>2, <3>1
  <2> QED BY <1>1, <2>1, <2>2
<1>6. CASE TakenUp
  <2>1. PICK k \in Slots, x \in RecordType :
          /\ rec' = [rec EXCEPT ![k] = x]
          /\ x.state \in {"queued", "running", "rejected"}
          /\ rec[k].state \in {"free"} \cup Terminal
          /\ Find(x.cmd) = {}
    BY <1>6 DEF TakenUp
  <2>2. rec'[k] = x /\ \A j \in Slots \ {k} : rec'[j] = rec[j]
    BY <2>1 DEF IInv, TypeOK
  <2>3. CASE c = x.cmd
    <3>1. was = "unknown"
      BY <1>1, <2>1, <2>3 DEF Find, Holds
    <3>2. is = x.state
      BY <1>4, <2>1, <2>2, <2>3
    <3> QED BY <2>1, <3>1, <3>2 DEF Life!LifeSteps, Life!Active
  <2>4. CASE c # x.cmd /\ Holds(k, c)
    <3>1. was = rec[k].state /\ was \in Terminal
      BY <1>1, <1>3, <2>1, <2>4 DEF Holds
    <3>2. \A j \in Slots : ~(rec'[j].state # "free" /\ rec'[j].cmd = c)
      BY <1>3, <2>2, <2>4 DEF Holds
    <3>3. is = "unknown"
      BY <1>2, <3>2
    <3> QED BY <3>1, <3>3 DEF Terminal, Life!LifeSteps, Life!Final
  <2>5. CASE c # x.cmd /\ ~Holds(k, c)
    <3>1. \A j \in Slots : Holds(j, c) =>
            rec'[j].state = rec[j].state /\ rec'[j].state # "free" /\ rec'[j].cmd = c
      BY <2>2, <2>5 DEF Holds
    <3>2. \A j \in Slots : rec'[j].state # "free" /\ rec'[j].cmd = c => Holds(j, c)
      BY <2>2, <2>5 DEF Holds
    <3> QED BY <1>1, <1>2, <1>4, <3>1, <3>2
  <2> QED BY <2>3, <2>4, <2>5
<1> QED BY <1>5, <1>6 DEF TableStep

\* Resent, refused, pushed out or finished: every command is executed at most once while
\* it is known, is only forgotten when it is final, and stays as it ended.
THEOREM ImplementsCommandLife == Spec => KeepsLife
<1>1. Init => Life!LifeInit
  <2>1. SUFFICES ASSUME Init, NEW c \in Commands PROVE LifeOf(c) = "unknown"
    BY DEF Life!LifeInit
  <2>2. \A i \in Slots : rec[i].state = "free"
    BY <2>1 DEF Init, Free
  <2> QED BY <2>2 DEF LifeOf, Find
<1>2. IInv /\ IInv' /\ LifeIs /\ LifeIs' /\ [Next]_vars
      => [Life!LifeNext]_[c \in Commands |-> LifeOf(c)]
  <2> SUFFICES ASSUME IInv, IInv', LifeIs, LifeIs', [Next]_vars
               PROVE  [Life!LifeNext]_[c \in Commands |-> LifeOf(c)]
    OBVIOUS
  <2>1. CASE UNCHANGED vars
    <3>1. \A c \in Commands : LifeOf(c)' = LifeOf(c)
      BY <2>1 DEF vars, LifeOf, Find
    <3> QED BY <3>1
  <2>2. CASE TableStep
    <3>1. \A c \in Commands : LifeOf(c)' \in Life!LifeStates
      <4> TAKE c \in Commands
      <4>1. \A i \in Slots : rec'[i].state \in RecordStates
        BY DEF IInv, TypeOK, RecordType
      <4>2. \/ LifeOf(c)' = "unknown"
            \/ \E i \in Slots : rec'[i].state # "free" /\ LifeOf(c)' = rec'[i].state
        BY DEF LifeIs, Holds
      <4> QED BY <4>1, <4>2
              DEF RecordStates, Terminal, Life!LifeStates, Life!Active, Life!Final
    <3>2. \A c \in Commands :
            LifeOf(c)' # LifeOf(c) => <<LifeOf(c), LifeOf(c)'>> \in Life!LifeSteps
      BY <2>2, LifeStep
    <3> QED BY <3>1, <3>2 DEF Life!LifeNext
  <2> QED BY <2>1, <2>2, StepGood
<1> QED BY <1>1, <1>2, Inductive, LifeFollows, PTL
        DEF Spec, KeepsLife, Life!LifeSpec
=============================================================================
