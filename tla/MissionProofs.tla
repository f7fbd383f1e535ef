--------------------------- MODULE MissionProofs ----------------------------
(***************************************************************************)
(* Proofs about the missions, for all budgets and bounds and all sets of   *)
(* missions: the types, who owns the axes, which subflow runs, that one    *)
(* axis moves at a time, that what is held is known, and that an abort is  *)
(* final. All follow from one inductive invariant, IInv: the machine is in *)
(* order for the mission (Good), the mission is shut out by an abort that  *)
(* has latched (ShutOut), and an answered gripper command has been done    *)
(* (GripKnown).                                                            *)
(***************************************************************************)
EXTENDS MissionSubflowProofs, FiniteSetTheorems

-----------------------------------------------------------------------------
(* The subflow and the alignment under a mission.                          *)

\* The parts of the mission's state.
LEMMA WorldIs ==
  /\ World.co = co /\ World.axis = axis /\ World.news = news /\ World.sub = sub
  /\ World.align = align /\ World.k = k /\ World.busy = busy /\ World.job = job
BY DEF World

\* The mission's state and the subflow's have the machine in common.
LEMMA WorldHasNow ==
  /\ World \in MissionMachine => Now \in FlowMachine
  /\ Now \in FlowMachine /\ job \in JobType => World \in MissionMachine
BY DEF World, Now, FlowMachine, MissionMachine

\* A poll's next state is the one the task's operators give.
LEMMA BecomeWorld ==
  ASSUME NEW t \in MissionMachine, Become(t), busy' = t.busy, job' = t.job
  PROVE  World' = t
BY DEF Become, World, MissionMachine

\* A mission at rest asks nothing of the machine.
LEMMA RestGood ==
  ASSUME NEW t \in MissionMachine, Within(t.sub), Attended(t), t.job.state \in Resting
  PROVE  Good(t)
BY DEF Good, Running, Owned, Belongs, Orderly, Holding, Told, Resting, Picking, Carrying

\* Nothing is set in motion, and the mission is where it was.
LEMMA CalmGood ==
  ASSUME NEW s, Good(s), NEW t \in MissionMachine, Calm(s, t),
         t.sub = s.sub, t.align = s.align,
         t.k = s.k \/ s.k.state = "active",
         t.job.task = s.job.task, t.job.state = s.job.state, t.job.started = s.job.started,
         t.job.payload = s.job.payload \/ s.job.state \in Resting,
         t.co.owner = s.co.owner \/ s.co.owner # "MISSION",
         s.co.latch => t.co.latch
  PROVE  Good(t)
<1>1. Within(t.sub) /\ Attended(t)
  BY DEF Good, Attended, AlignActive
<1>2. CASE s.job.state \in Resting
  BY <1>1, <1>2, RestGood
<1>3. CASE s.job.state \notin Resting
  <2>1. Running(s) /\ Running(t) /\ t.job.payload = s.job.payload
    BY <1>3 DEF Running
  <2>2. Owned(t) /\ Belongs(t) /\ Holding(t)
    BY <2>1 DEF Good, Owned, Belongs, Holding
  <2>3. Orderly(t)
    BY <2>1 DEF Good, Orderly, OneMoves, Calm, Tracked, MayLinger, Still
  <2>4. Told(t)
    BY <2>1 DEF Good, Told, Applied
  <2> QED
    BY <1>1, <2>2, <2>3, <2>4 DEF Good
<1> QED
  BY <1>2, <1>3

\* What a step that leaves the mission alone must do for it.
LEMMA FlowGood ==
  ASSUME NEW s, Good(s), NEW t \in MissionMachine, t.job = s.job, Active(s.sub),
         t.sub.type = s.sub.type, t.sub.task = s.sub.task, t.sub.retain = s.sub.retain,
         \/ t.co = s.co
         \/ ~s.sub.retain /\ t.co = [s.co EXCEPT !.owner = "NONE"],
         Within(t.sub), Attended(t),
         ~Active(t.sub) => t.sub.state \in {"COMPLETE", "FAULT"},
         Tracked(s) =>
           /\ OneMoves(t)
           /\ Active(t.sub) => Tracked(t)
           /\ t.sub.state = "COMPLETE" => Still(t),
         t.sub.type \in GripTypes /\ t.sub.state = "COMPLETE" => Applied(t, t.sub.type)
  PROVE  Good(t)
<1>1. CASE s.job.state \in Resting
  BY <1>1, RestGood
<1>2. CASE s.job.state \notin Resting
  <2>1. Running(s) /\ Running(t)
    BY <1>2 DEF Running
  <2>2. Owned(t) /\ Belongs(t) /\ Holding(t) /\ Told(t)
    BY <2>1 DEF Good, Owned, Belongs, Holding, Told
  <2>3. Orderly(t)
    BY <2>1 DEF Good, Orderly, Belongs, MayLinger
  <2> QED
    BY <2>2, <2>3 DEF Good
<1> QED
  BY <1>1, <1>2

\* What is said of the machine alone holds of two states that have the machine in common.
LEMMA Transfer ==
  ASSUME NEW s, NEW t, t.co = s.co, t.axis = s.axis, t.sub = s.sub, t.align = s.align, t.k = s.k
  PROVE  /\ Attended(s) <=> Attended(t)
         /\ Tracked(s) <=> Tracked(t)
         /\ OneMoves(s) <=> OneMoves(t)
         /\ Still(s) <=> Still(t)
         /\ AlignActive(s) <=> AlignActive(t)
         /\ \A what : Applied(s, what) <=> Applied(t, what)
         /\ \A u : (Calm(s, u) <=> Calm(t, u)) /\ (Calm(u, s) <=> Calm(u, t))
BY DEF Attended, Tracked, OneMoves, Still, AlignActive, Applied, Moves, Calm

\* A poll of the subflow under a mission.
LEMMA SubflowGood ==
  ASSUME Good(World), ShutOut, NEW late \in BOOLEAN, SubflowPoll(late)
  PROVE  /\ Good(World') /\ (co.latch => Calm(Now, Now'))
         /\ co'.latch = co.latch
         /\ co'.owner = co.owner \/ co'.owner = "NONE"
         /\ k' = k \/ k'.state = "active"
<1>1. Now \in FlowMachine /\ job \in JobType /\ co \in CoType /\ Within(sub) /\ Attended(Now)
  BY WorldHasNow, WorldIs, NowIs, Transfer DEF Good, MissionMachine
<1>2. FlowPoll(late) /\ busy' = busy /\ job' = job /\ pc = "subflow"
  BY DEF SubflowPoll
<1>3. /\ Active(sub) => From(Now, Now')
      /\ ~Active(sub) => Now' = Now
      /\ co.owner # "MISSION" => Calm(Now, Now')
  BY <1>1, <1>2, FlowFrom
<1>4. co.latch => Calm(Now, Now')
  BY <1>2, <1>3 DEF ShutOut
<1>5. /\ Now'.co = co' /\ Now'.axis = axis' /\ Now'.sub = sub' /\ Now'.align = align'
      /\ Now'.k = k' /\ Now'.news = news' /\ Now'.busy = busy'
  BY DEF Now
<1>6. /\ World'.co = co' /\ World'.axis = axis' /\ World'.sub = sub' /\ World'.align = align'
      /\ World'.k = k' /\ World'.job = job'
  BY DEF World
<1>7. Now' \in FlowMachine
  BY <1>1, <1>3 DEF From
<1>8. World' \in MissionMachine
  <2>1. job' \in JobType
    BY <1>1, <1>2
  <2> QED
    BY <1>7, <2>1 DEF World, Now, FlowMachine, MissionMachine
<1>9. CASE Active(sub)
  <2>1. From(Now, Now')
    BY <1>3, <1>9
  <2>2. \/ co' = co
        \/ ~sub.retain /\ co' = [co EXCEPT !.owner = "NONE"]
    BY <1>5, <2>1, NowIs DEF From
  <2>3. Good(World')
    <3> DEFINE s == World
               t == World'
               m == Now
               n == Now'
    <3>1. /\ s.co = m.co /\ s.axis = m.axis /\ s.sub = m.sub /\ s.align = m.align /\ s.k = m.k
          /\ t.co = n.co /\ t.axis = n.axis /\ t.sub = n.sub /\ t.align = n.align /\ t.k = n.k
          /\ t.job = s.job /\ Active(s.sub)
      BY <1>2, <1>5, <1>6, <1>9, WorldIs, NowIs
    <3>2. From(m, n) /\ Good(s) /\ t \in MissionMachine
      BY <1>8, <2>1
    <3> HIDE DEF s, t, m, n
    <3>3. /\ Attended(n) <=> Attended(t)
          /\ Tracked(n) <=> Tracked(t)
          /\ Tracked(m) <=> Tracked(s)
          /\ OneMoves(n) <=> OneMoves(t)
          /\ Still(n) <=> Still(t)
          /\ Applied(n, n.sub.type) <=> Applied(t, t.sub.type)
      BY <3>1, Transfer
    <3>4. Good(t)
      BY <3>1, <3>2, <3>3, FlowGood DEF From
    <3> QED
      BY <3>4 DEF t
  <2>4. co' = co \/ (co'.owner = "NONE" /\ co'.latch = co.latch)
    BY <1>1, <2>2 DEF CoType
  <2>5. k' = k \/ k'.state = "active"
    BY <1>5, <2>1, NowIs DEF From
  <2> QED
    BY <1>4, <2>3, <2>4, <2>5
<1>10. CASE ~Active(sub)
  <2>1. co' = co /\ axis' = axis /\ news' = news /\ sub' = sub /\ align' = align /\ k' = k
    BY <1>3, <1>5, <1>10, NowIs
  <2>2. World' = World
    BY <1>2, <2>1 DEF World
  <2> QED
    BY <1>4, <2>1, <2>2
<1> QED
  BY <1>9, <1>10

\* A poll of the alignment under a mission.
LEMMA VisionGood ==
  ASSUME Good(World), ShutOut, NEW late \in BOOLEAN, VisionPoll(late)
  PROVE  /\ Good(World') /\ (co.latch => Calm(Now, Now')) /\ co' = co /\ k' = k
<1>1. Now \in FlowMachine /\ job \in JobType /\ Attended(Now)
  BY WorldHasNow, WorldIs, NowIs, Transfer DEF Good, MissionMachine
<1>2. AlignPoll(late) /\ busy' = busy /\ job' = job /\ pc = "align"
  BY DEF VisionPoll
<1>3. /\ AlignActive(Now) => Aligns(Now, Now')
      /\ ~AlignActive(Now) => Now' = Now
  BY <1>1, <1>2, VisionFrom
<1>4. co.latch => ~AlignActive(Now)
  BY <1>1, <1>2, NowIs DEF ShutOut, Attended
<1>5. /\ Now'.co = co' /\ Now'.axis = axis' /\ Now'.sub = sub' /\ Now'.align = align'
      /\ Now'.k = k' /\ Now'.news = news' /\ Now'.busy = busy'
  BY DEF Now
<1>6. /\ World'.co = co' /\ World'.axis = axis' /\ World'.sub = sub' /\ World'.align = align'
      /\ World'.k = k' /\ World'.job = job'
  BY DEF World
<1>7. CASE AlignActive(Now)
  <2> DEFINE s == World
             t == World'
             m == Now
             n == Now'
  <2>1. /\ s.co = m.co /\ s.axis = m.axis /\ s.sub = m.sub /\ s.align = m.align /\ s.k = m.k
        /\ t.co = n.co /\ t.axis = n.axis /\ t.sub = n.sub /\ t.align = n.align /\ t.k = n.k
        /\ t.job = s.job
    BY <1>2, <1>5, <1>6, WorldIs, NowIs
  <2>2. Aligns(m, n) /\ AlignActive(m) /\ Attended(m) /\ Good(s)
    BY <1>1, <1>3, <1>7
  <2>3. t \in MissionMachine
    <3>1. n \in FlowMachine /\ job' \in JobType
      BY <1>1, <1>2, <2>2 DEF Aligns
    <3> QED
      BY <3>1 DEF World, Now, FlowMachine, MissionMachine
  <2>4. co' = co /\ k' = k
    BY <1>5, <2>2, NowIs DEF Aligns
  <2> HIDE DEF s, t, m, n
  <2>5. m.sub.state = "RUNNING" /\ m.sub.type \in AlignTypes
    BY <2>2 DEF Attended
  <2>6. /\ t.sub = s.sub /\ t.co = s.co /\ Active(s.sub) /\ t.sub.state = "RUNNING"
        /\ t.sub.type \notin GripTypes
    BY <2>1, <2>2, <2>5 DEF Aligns, Active, AlignTypes, GripTypes
  <2>7. Attended(t) /\ (Tracked(s) => Tracked(t))
    BY <2>1, <2>2, Transfer DEF Aligns
  <2>8. Within(t.sub)
    BY <2>2, <2>6 DEF Good
  <2>9. Good(t)
    BY <2>2, <2>3, <2>6, <2>1, <2>7, <2>8, FlowGood, TrackedIsOne
  <2> QED
    BY <1>4, <1>7, <2>4, <2>9 DEF t
<1>8. CASE ~AlignActive(Now)
  <2>1. co' = co /\ axis' = axis /\ news' = news /\ sub' = sub /\ align' = align /\ k' = k
    BY <1>3, <1>5, <1>8, NowIs
  <2>2. World' = World /\ Now' = Now
    BY <1>2, <2>1 DEF World, Now
  <2>3. Calm(Now, Now')
    BY <2>2 DEF Calm
  <2> QED
    BY <2>1, <2>2, <2>3
<1> QED
  BY <1>7, <1>8

-----------------------------------------------------------------------------
(* The ends of a mission and of its states.                                *)

\* What the mission task does not touch.
Same(s, t) ==
  /\ t \in MissionMachine /\ t.k = s.k /\ t.busy = s.busy /\ Calm(s, t)
  /\ t.co.latch = s.co.latch /\ t.co.abort = s.co.abort

\* A state of the task: changes of its own record.
LEMMA EnterThis ==
  ASSUME NEW s \in MissionMachine, NEW state \in MissionStates
  PROVE  LET t == Enter(s, state)
         IN /\ t \in MissionMachine /\ t.co = s.co /\ t.axis = s.axis /\ t.news = s.news
            /\ t.sub = s.sub /\ t.align = s.align /\ t.k = s.k /\ t.busy = s.busy
            /\ t.job = [s.job EXCEPT !.state = state, !.started = FALSE]
            /\ t.job.state = state /\ t.job.started = FALSE /\ t.job.task = s.job.task
            /\ t.job.payload = s.job.payload
<1> DEFINE j == [s.job EXCEPT !.state = state, !.started = FALSE]
<1>1. s.job \in JobType
  BY DEF MissionMachine
<1>2. /\ j \in JobType /\ j.state = state /\ j.started = FALSE /\ j.task = s.job.task
      /\ j.payload = s.job.payload
  BY <1>1 DEF JobType
<1>3. Enter(s, state) = [s EXCEPT !.job = j]
  BY <1>1 DEF Enter, MissionMachine, JobType
<1> HIDE DEF j
<1>4. LET t == [s EXCEPT !.job = j]
      IN /\ t \in MissionMachine /\ t.co = s.co /\ t.axis = s.axis /\ t.news = s.news
         /\ t.sub = s.sub /\ t.align = s.align /\ t.k = s.k /\ t.busy = s.busy /\ t.job = j
  BY <1>2 DEF MissionMachine
<1> QED
  BY <1>2, <1>3, <1>4 DEF j

\* What a state asks for that a mission under way enters.
Ready(s, state) ==
  /\ (s.co.owner = "MISSION" \/ s.co.latch) /\ s.sub.retain
  /\ OneMoves(s)
  /\ Active(s.sub) => state = "ABORTING" /\ Tracked(s) /\ s.sub.task = s.job.task
  /\ state \in {"ABORTING", "RECOVERY_WAIT_IDLE"} \/ Still(s)
  /\ s.job.task \in Puts =>
       state \notin Picking /\ (state \in Carrying => s.job.payload = "HELD")

\* A state that is ready to be entered.
LEMMA EnterGood ==
  ASSUME NEW s \in MissionMachine, NEW state \in MissionStates, Within(s.sub), Attended(s),
         state \in Resting \/ Ready(s, state)
  PROVE  Good(Enter(s, state)) /\ Same(s, Enter(s, state))
<1> DEFINE t == Enter(s, state)
<1>1. /\ t \in MissionMachine /\ t.co = s.co /\ t.axis = s.axis /\ t.news = s.news
      /\ t.sub = s.sub /\ t.align = s.align /\ t.k = s.k /\ t.busy = s.busy
      /\ t.job.state = state /\ t.job.started = FALSE /\ t.job.task = s.job.task
      /\ t.job.payload = s.job.payload
  BY EnterThis
<1> HIDE DEF t
<1>2. Same(s, t)
  BY <1>1 DEF Same, Calm, Moves
<1>3. Within(t.sub) /\ Attended(t)
  BY <1>1 DEF Attended, AlignActive
<1>4. CASE state \in Resting
  <2>1. Good(t)
    BY <1>1, <1>3, <1>4, RestGood
  <2> QED
    BY <1>2, <2>1 DEF t
<1>5. CASE Ready(s, state)
  <2>1. Owned(t) /\ Belongs(t) /\ Holding(t) /\ Told(t)
    BY <1>1, <1>5 DEF Ready, Owned, Belongs, Holding, Told
  <2>2. Orderly(t)
    BY <1>1, <1>5, Transfer DEF Ready, Orderly, MayLinger
  <2>3. Good(t)
    BY <1>1, <1>3, <2>1, <2>2 DEF Good
  <2> QED
    BY <1>2, <2>3 DEF t
<1> QED
  BY <1>4, <1>5

\* Nothing of a subflow under way remains.
LEMMA EndedThis ==
  ASSUME NEW s \in MissionMachine, Within(s.sub), Attended(s), NEW reason \in Reasons
  PROVE  LET e == Ended(s, reason)
         IN /\ Same(s, e) /\ e.job = s.job /\ ~Active(e.sub) /\ Attended(e)
            /\ Within(e.sub) /\ e.sub.retain = s.sub.retain
            /\ s.sub.retain => e.co = s.co
            /\ e.co.owner = s.co.owner \/ e.co.owner = "NONE"
<1>1. s \in Machine /\ s.co \in CoType
  BY DEF Machine, MissionMachine
<1>2. CASE ~Active(s.sub)
  <2>1. Ended(s, reason) = s
    BY <1>2 DEF Ended
  <2>2. Same(s, s)
    BY DEF Same, Calm
  <2> QED
    BY <1>2, <2>1, <2>2
<1>3. CASE Active(s.sub)
  <2> DEFINE u == AlignAborted(s)
             v == StopAxes(u)
             f == [v.sub EXCEPT !.type = "ABORT_ALL"]
             w == [v EXCEPT !.sub = f]
             e == Finish(w, "FAULT", reason)
  <2>1. /\ SameKind(s, u) /\ u.co = s.co /\ u.sub = s.sub /\ u.k = s.k /\ u.busy = s.busy
        /\ Calm(s, u) /\ ~AlignActive(u)
    <3>1. s.sub.type \notin AlignTypes => ~AlignActive(s)
      BY DEF Attended
    <3> QED
      BY <1>1, <3>1, AbortThis DEF AlignActive
  <2>2. u \in Machine /\ u \in MissionMachine /\ u.job = s.job
    BY <1>1, <2>1 DEF SameKind, Machine
  <2> HIDE DEF u
  <2>3. Stops(u, v, Axes)
    BY <2>2, StopAll
  <2>4. /\ v \in MissionMachine /\ v.job = s.job /\ v.co = s.co /\ v.sub = s.sub /\ v.k = s.k
        /\ v.busy = s.busy /\ v.align = u.align /\ Calm(s, v)
    BY <2>1, <2>2, <2>3 DEF Stops, SameKind, Calm
  <2> HIDE DEF v
  <2>5. f \in SubType /\ f.retain = s.sub.retain
    BY <2>4 DEF MissionMachine, SubType
  <2>6. [v EXCEPT !.sub.type = "ABORT_ALL"] = w
    BY <2>4 DEF MissionMachine
  <2> HIDE DEF f
  <2>7. /\ w \in MissionMachine /\ w.job = s.job /\ w.co = s.co /\ w.sub = f /\ w.k = s.k
        /\ w.busy = s.busy /\ w.align = u.align /\ w.axis = v.axis
    BY <2>4, <2>5 DEF MissionMachine
  <2> HIDE DEF w
  <2>8. /\ SameKind(w, e) /\ e.axis = w.axis /\ e.align = w.align /\ e.k = w.k
        /\ e.busy = w.busy
        /\ e.sub = [w.sub EXCEPT !.state = "FAULT", !.reason = reason]
        /\ e.co = IF w.co.owner = "MISSION" /\ ~w.sub.retain
                  THEN [w.co EXCEPT !.owner = "NONE"] ELSE w.co
    <3>1. w \in Machine /\ "FAULT" \in FlowStates
      BY <2>7 DEF Machine, FlowStates
    <3> QED
      BY <3>1, FinishThis, ZenonT(40)
  <2>9. Ended(s, reason) = e
    BY <1>3, <2>6 DEF Ended, AbortAll, u, v
  <2> HIDE DEF e
  <2>10. e.sub.state = "FAULT" /\ e.sub.retain = s.sub.retain
    BY <2>5, <2>7, <2>8 DEF SubType
  <2>11. /\ e.co.latch = s.co.latch /\ e.co.abort = s.co.abort
         /\ e.co.owner = s.co.owner \/ e.co.owner = "NONE"
         /\ s.sub.retain => e.co = s.co
    BY <1>1, <2>5, <2>7, <2>8 DEF CoType
  <2>12. e \in MissionMachine /\ e.job = s.job
    BY <2>7, <2>8 DEF SameKind
  <2>13. Calm(s, e)
    BY <2>4, <2>7, <2>8 DEF Calm, Moves
  <2>14. ~Active(e.sub) /\ Within(e.sub) /\ Attended(e)
    BY <2>1, <2>7, <2>8, <2>10 DEF Active, Within, Attended, AlignActive
  <2>15. Same(s, e)
    BY <2>7, <2>8, <2>11, <2>12, <2>13 DEF Same
  <2> QED
    BY <2>9, <2>10, <2>11, <2>12, <2>14, <2>15
<1> QED
  BY <1>2, <1>3

\* A mission gives back what it has, once no subflow runs.
LEMMA ReleaseThis ==
  ASSUME NEW s \in MissionMachine, ~Active(s.sub), Attended(s), s.job.state \in Resting
  PROVE  LET t == ReleaseMission(s)
         IN Good(t) /\ Same(s, t) /\ t.job = s.job /\ t.co.owner # "MISSION"
<1> DEFINE f == [s.sub EXCEPT !.retain = FALSE]
           u == [s EXCEPT !.sub = f]
           c == [s.co EXCEPT !.owner = "NONE"]
           t == IF u.co.owner = "MISSION" THEN [u EXCEPT !.co = c] ELSE u
<1>1. /\ f \in SubType /\ f.state = s.sub.state /\ c \in CoType /\ c.owner = "NONE"
      /\ c.latch = s.co.latch /\ c.abort = s.co.abort
  BY DEF MissionMachine, SubType, CoType
<1>2. [s EXCEPT !.sub.retain = FALSE] = u
  BY DEF MissionMachine
<1> HIDE DEF f
<1>3. /\ u \in MissionMachine /\ u.sub = f /\ u.co = s.co /\ u.axis = s.axis /\ u.k = s.k
      /\ u.busy = s.busy /\ u.align = s.align /\ u.job = s.job
  BY <1>1 DEF MissionMachine
<1>4. [u EXCEPT !.co.owner = "NONE"] = [u EXCEPT !.co = c]
  BY <1>3 DEF MissionMachine
<1>5. ReleaseMission(s) = t
  BY <1>2, <1>4 DEF ReleaseMission, Released
<1> HIDE DEF u, c
<1>6. /\ t \in MissionMachine /\ t.sub = f /\ t.axis = s.axis /\ t.k = s.k
      /\ t.busy = s.busy /\ t.align = s.align /\ t.job = s.job /\ t.co.latch = s.co.latch
      /\ t.co.abort = s.co.abort /\ t.co.owner # "MISSION"
  BY <1>1, <1>3 DEF MissionMachine
<1> HIDE DEF t
<1>7. ~Active(t.sub) /\ ~AlignActive(t)
  BY <1>1, <1>6 DEF Active, AlignActive, Attended
<1>8. Good(t)
  BY <1>6, <1>7, RestGood DEF Within, Attended
<1>9. Same(s, t)
  BY <1>6 DEF Same, Calm, Moves
<1> QED
  BY <1>5, <1>6, <1>8, <1>9

\* Two changes of the task, one after the other.
LEMMA SameSame ==
  ASSUME NEW r, NEW s, NEW t, Same(r, s), Same(s, t) PROVE Same(r, t)
BY DEF Same, Calm

\* A mission that ends.
LEMMA FinishTerminalThis ==
  ASSUME NEW s \in MissionMachine, Within(s.sub), Attended(s), NEW reason \in Reasons
  PROVE  LET t == FinishTerminal(s, reason)
         IN Good(t) /\ Same(s, t) /\ t.co.owner # "MISSION" /\ t.job.payload = s.job.payload
<1> DEFINE e == Ended(s, reason)
           n == Enter(e, "FAULT")
           t == ReleaseMission(n)
<1>1. Same(s, e) /\ e.job = s.job /\ ~Active(e.sub) /\ Attended(e) /\ Within(e.sub)
  BY EndedThis
<1> HIDE DEF e
<1>2. e \in MissionMachine /\ "FAULT" \in MissionStates /\ "FAULT" \in Resting
  BY <1>1 DEF Same, MissionStates, Resting
<1>3. /\ n \in MissionMachine /\ n.sub = e.sub /\ n.align = e.align /\ n.co = e.co
      /\ n.job.state = "FAULT" /\ n.job.payload = e.job.payload
  BY <1>2, EnterThis
<1>4. Same(e, n)
  BY <1>1, <1>2, EnterGood
<1> HIDE DEF n
<1>5. Good(t) /\ Same(n, t) /\ t.job = n.job /\ t.co.owner # "MISSION"
  BY <1>1, <1>2, <1>3, ReleaseThis DEF Attended, AlignActive
<1> HIDE DEF t
<1>6. Same(s, t)
  BY <1>1, <1>4, <1>5, SameSame
<1>7. FinishTerminal(s, reason) = t
  BY DEF FinishTerminal, t, n, e
<1> QED
  BY <1>1, <1>3, <1>5, <1>6, <1>7

\* A mission that completes.
LEMMA FinishCompleteThis ==
  ASSUME NEW s \in MissionMachine, ~Active(s.sub), Attended(s)
  PROVE  LET t == FinishComplete(s)
         IN Good(t) /\ Same(s, t) /\ t.co.owner # "MISSION" /\ t.job.payload = s.job.payload
<1> DEFINE n == Enter(s, "COMPLETE")
           t == ReleaseMission(n)
<1>1. "COMPLETE" \in MissionStates /\ "COMPLETE" \in Resting /\ Within(s.sub)
  BY DEF MissionStates, Resting, Within
<1>2. /\ n \in MissionMachine /\ n.sub = s.sub /\ n.align = s.align /\ n.co = s.co
      /\ n.job.state = "COMPLETE" /\ n.job.payload = s.job.payload
  BY <1>1, EnterThis
<1>3. Same(s, n)
  BY <1>1, EnterGood
<1> HIDE DEF n
<1>4. Good(t) /\ Same(n, t) /\ t.job = n.job /\ t.co.owner # "MISSION"
  BY <1>1, <1>2, ReleaseThis DEF Attended, AlignActive
<1>5. Same(s, t)
  BY <1>3, <1>4, SameSame
<1>6. FinishComplete(s) = t
  BY DEF FinishComplete, t, n
<1> QED
  BY <1>2, <1>4, <1>5, <1>6

-----------------------------------------------------------------------------
(* The turns of the mission task.                                          *)

\* A turn of the mission task. The payload only changes by a gripper command that is done.
Turn(s, t) ==
  /\ Good(t) /\ Same(s, t)
  /\ t.co.owner = "MISSION" => ~s.co.latch \/ s.co.owner = "MISSION"
  /\ t.job.payload # s.job.payload =>
       /\ s.job.started /\ s.sub.state = "COMPLETE" /\ s.sub.type \in GripTypes
       /\ t.job.payload = "HELD" <=> s.sub.type = "GRIP_CLOSE"

\* A mission's hold on the machine.
Held(s) ==
  /\ s \in MissionMachine /\ Within(s.sub) /\ Attended(s)
  /\ s.co.owner = "MISSION" \/ s.co.latch
  /\ s.sub.retain

\* A mission under way has its hold, and moves one axis.
LEMMA GoodHeld == ASSUME NEW s, Good(s), Running(s) PROVE Held(s) /\ OneMoves(s)
BY DEF Good, Owned, Held, Orderly

\* The end of a mission is a turn of the task ...
LEMMA TerminalTurn ==
  ASSUME NEW s, s \in MissionMachine, Within(s.sub), Attended(s), NEW reason \in Reasons
  PROVE  Turn(s, FinishTerminal(s, reason))
BY FinishTerminalThis DEF Turn

\* ... and so is a state that is ready to be entered.
LEMMA EnterTurn ==
  ASSUME NEW s, s \in MissionMachine, Within(s.sub), Attended(s),
         NEW state \in MissionStates, state \in Resting \/ Ready(s, state)
  PROVE  Turn(s, Enter(s, state))
<1>1. Good(Enter(s, state)) /\ Same(s, Enter(s, state))
  BY EnterGood
<1>2. Enter(s, state).co = s.co /\ Enter(s, state).job.payload = s.job.payload
  BY EnterThis
<1> QED
  BY <1>1, <1>2 DEF Turn

\* handle_fault: the end, or a restart that first waits for the axes.
LEMMA HandleFaultTurn ==
  ASSUME NEW s, Held(s), OneMoves(s), NEW reason \in Reasons
  PROVE  Turn(s, HandleFault(s, reason))
<1>1. CASE ~Retryable(s, reason)
  BY <1>1, TerminalTurn DEF HandleFault, Held
<1>2. CASE Retryable(s, reason)
  <2> DEFINE e == Ended(s, reason)
             n == e.job.restarts + 1
             j == [e.job EXCEPT !.restarts = n]
             v == [e EXCEPT !.job = j]
             t == Enter(v, "RECOVERY_WAIT_IDLE")
  <2>1. /\ Same(s, e) /\ e.job = s.job /\ ~Active(e.sub) /\ Attended(e) /\ Within(e.sub)
        /\ e.sub.retain = s.sub.retain /\ e.co = s.co
    BY EndedThis DEF Held
  <2> HIDE DEF e
  <2>2. e \in MissionMachine /\ e.job \in JobType
    BY <2>1 DEF Same, MissionMachine
  <2>3. n \in 0 .. MaxRestarts
    <3>1. e.job.restarts \in 0 .. MaxRestarts /\ e.job.restarts < MaxRestarts
      BY <1>2, <2>1, <2>2 DEF JobType, Retryable
    <3> QED
      BY <3>1, MissionAssumption
  <2>4. [e EXCEPT !.job.restarts = @ + 1] = v
    BY <2>2 DEF MissionMachine, JobType
  <2> HIDE DEF n
  <2>5. /\ j \in JobType /\ j.task = s.job.task /\ j.payload = s.job.payload
    BY <2>1, <2>2, <2>3 DEF JobType
  <2> HIDE DEF j
  <2>6. /\ v \in MissionMachine /\ v.co = e.co /\ v.axis = e.axis /\ v.sub = e.sub
        /\ v.align = e.align /\ v.k = e.k /\ v.busy = e.busy /\ v.job = j
    BY <2>2, <2>5 DEF MissionMachine
  <2>7. HandleFault(s, reason) = t
    BY <1>2, <2>4 DEF HandleFault, e
  <2> HIDE DEF v
  <2>8. OneMoves(v)
    BY <2>1, <2>6 DEF Same, Calm, OneMoves, Moves
  <2>9. "RECOVERY_WAIT_IDLE" \in MissionStates \ Picking
    BY DEF MissionStates, Picking
  <2>10. s.job.task \in Puts => s.job.payload = "HELD"
    BY <1>2 DEF Retryable
  <2>11. Ready(v, "RECOVERY_WAIT_IDLE")
    BY <2>1, <2>5, <2>6, <2>8, <2>9, <2>10 DEF Held, Ready
  <2>12. Within(v.sub) /\ Attended(v)
    BY <2>1, <2>6 DEF Attended, AlignActive
  <2>13. Turn(v, t)
    BY <2>6, <2>9, <2>11, <2>12, EnterTurn
  <2>14. t.job.payload = v.job.payload /\ t.co = v.co
    BY <2>6, <2>9, EnterThis
  <2>15. Same(e, v)
    BY <2>6 DEF Same, Calm, Moves
  <2> HIDE DEF t
  <2>16. Same(s, t)
    BY <2>1, <2>13, <2>15, SameSame DEF Turn
  <2> QED
    BY <2>1, <2>5, <2>6, <2>7, <2>13, <2>14, <2>16 DEF Turn
<1> QED
  BY <1>1, <1>2

\* Axes that are idle do not move.
LEMMA IdleStill == ASSUME NEW s, AllIdle(s) PROVE Still(s) /\ OneMoves(s)
BY DEF AllIdle, Still, OneMoves, Moves

\* The first look at the machine, also of a mission that has only just been started.
LEMMA PrecheckTurn ==
  ASSUME NEW s, Held(s), ~Active(s.sub), s.job.state \in {"PRECHECK", "PRECHECK_HELD"},
         s.job.task \in Puts => s.job.state = "PRECHECK_HELD", NEW configured \in BOOLEAN
  PROVE  Turn(s, Precheck(s, configured))
<1>1. Turn(s, HandleFault(s, "FINAL"))
  <2>1. ~Retryable(s, "FINAL") /\ "FINAL" \in Reasons
    BY DEF Retryable, Reasons
  <2> QED
    BY <2>1, TerminalTurn DEF HandleFault, Held
<1> DEFINE next == IF s.job.task \in Puts THEN "PRESET_POSE" ELSE "PREPARE_GRIP_OPEN"
<1>2. ASSUME AllIdle(s), s.job.state = "PRECHECK_HELD" => s.job.payload = "HELD"
      PROVE  Turn(s, Enter(s, next))
  <2>1. next \in MissionStates /\ (s.job.task \in Puts => next \notin Picking)
    BY DEF MissionStates, Picking
  <2>2. Ready(s, next)
    BY <1>2, <2>1, IdleStill DEF Ready, Held
  <2> QED
    BY <2>1, <2>2, EnterTurn DEF Held
<1> QED
  BY <1>1, <1>2 DEF Precheck

\* The states in which a subflow works for the mission.
Working == {state \in MissionStates : Expected(state) # "NONE"}

\* These states.
LEMMA WorkingIs ==
  Working = {"PREPARE_GRIP_OPEN", "GRIP_OPEN", "PRESET_POSE", "RECOVER_PRESET", "RED_OBSERVE",
             "TAG_OBSERVE", "FRAME_OBSERVE", "OPTIONAL_Z_DROP", "TOF3_Z_DESCEND", "RECORD_XYZ",
             "RETURN_RECORDED_POSE", "SAFE_RETREAT", "ALIGN_XZ", "ALIGN_XY", "BLIND_Y",
             "GRIP_CLOSE"}
BY DEF Working, MissionStates, Resting, Expected

\* Each step of a mission is followed by one that its payload allows.
LEMMA NextStateIs ==
  ASSUME NEW state \in Working \ {"SAFE_RETREAT"}, NEW task \in MissionTasks
  PROVE  LET next == NextState(state, task)
         IN /\ next \in MissionStates \ Resting
            /\ next \notin {"ABORTING", "RECOVERY_WAIT_IDLE"}
            /\ task \in Puts /\ state \notin Picking => next \notin Picking
            /\ next \in Carrying =>
                 state \in Carrying \/ state \in {"PREPARE_GRIP_OPEN", "RED_OBSERVE", "RECORD_XYZ"}
            /\ state = "GRIP_OPEN" => next \notin Carrying
<1> DEFINE next == NextState(state, task)
<1>1. state \in {"PREPARE_GRIP_OPEN", "GRIP_OPEN", "PRESET_POSE", "RECOVER_PRESET", "RED_OBSERVE",
                 "TAG_OBSERVE", "FRAME_OBSERVE", "OPTIONAL_Z_DROP", "TOF3_Z_DESCEND", "RECORD_XYZ",
                 "RETURN_RECORDED_POSE", "ALIGN_XZ", "ALIGN_XY", "BLIND_Y", "GRIP_CLOSE"}
  BY WorkingIs
<1>2. CASE state = "PREPARE_GRIP_OPEN"
  BY <1>2 DEF NextState, MissionStates, Resting, Picking, Carrying
<1>3. CASE state = "GRIP_OPEN"
  BY <1>3 DEF NextState, MissionStates, Resting, Picking, Carrying
<1>4. CASE state = "PRESET_POSE"
  BY <1>4 DEF NextState, MissionStates, Resting, Picking, Carrying
<1>5. CASE state = "RECOVER_PRESET"
  BY <1>5 DEF NextState, MissionStates, Resting, Picking, Carrying
<1>6. CASE state \in {"RED_OBSERVE", "TAG_OBSERVE", "FRAME_OBSERVE"}
  BY <1>6 DEF NextState, MissionStates, Resting, Picking, Carrying
<1>7. CASE state \in {"OPTIONAL_Z_DROP", "TOF3_Z_DESCEND"}
  BY <1>7 DEF NextState, MissionStates, Resting, Picking, Carrying
<1>8. CASE state = "RECORD_XYZ"
  BY <1>8 DEF NextState, MissionStates, Resting, Picking, Carrying
<1>9. CASE state = "RETURN_RECORDED_POSE"
  BY <1>9 DEF NextState, MissionStates, Resting, Picking, Carrying
<1>10. CASE state \in {"ALIGN_XZ", "ALIGN_XY"}
  BY <1>10 DEF NextState, MissionStates, Resting, Picking, Carrying
<1>11. CASE state = "BLIND_Y"
  BY <1>11 DEF NextState, MissionStates, Resting, Picking, Carrying
<1>12. CASE state = "GRIP_CLOSE"
  BY <1>12 DEF NextState, MissionStates, Resting, Picking, Carrying
<1> QED
  BY <1>1, <1>2, <1>3, <1>4, <1>5, <1>6, <1>7, <1>8, <1>9, <1>10, <1>11, <1>12

\* A subflow that is complete leaves the mission at rest, and its payload known.
LEMMA AdvanceTurn ==
  ASSUME NEW s, Good(s), Running(s), s.job.state \in Working, s.job.started,
         s.sub.state = "COMPLETE", s.sub.type = Expected(s.job.state)
  PROVE  Turn(s, Advance(s))
<1> DEFINE state == s.job.state
           payload == CASE state \in {"PREPARE_GRIP_OPEN", "GRIP_OPEN"} -> "EMPTY"
                        [] state = "GRIP_CLOSE" -> "HELD"
                        [] OTHER -> s.job.payload
           j == [s.job EXCEPT !.payload = payload]
           u == [s EXCEPT !.job = j]
           next == NextState(state, s.job.task)
           t == IF state = "SAFE_RETREAT" THEN FinishComplete(u) ELSE Enter(u, next)
<1>1. Held(s) /\ OneMoves(s) /\ s.job \in JobType /\ s \in MissionMachine
  BY GoodHeld DEF Good, MissionMachine
<1>2. payload \in {"EMPTY", "HELD"}
  BY <1>1 DEF JobType
<1>3. payload # s.job.payload =>
        s.sub.type \in GripTypes /\ (payload = "HELD" <=> s.sub.type = "GRIP_CLOSE")
  BY <1>1 DEF JobType, Expected, GripTypes
<1>4. state \notin {"PREPARE_GRIP_OPEN", "GRIP_OPEN"} /\ s.job.payload = "HELD"
        => payload = "HELD"
  OBVIOUS
<1>5. [s EXCEPT !.job.payload = payload] = u
  BY <1>1 DEF MissionMachine
<1>6. Advance(s) = t
  BY <1>5 DEF Advance
<1> HIDE DEF payload
<1>7. j \in JobType /\ j.task = s.job.task /\ j.payload = payload /\ j.state = state
  BY <1>1, <1>2 DEF JobType
<1> HIDE DEF j
<1>8. /\ u \in MissionMachine /\ u.co = s.co /\ u.axis = s.axis /\ u.sub = s.sub
      /\ u.align = s.align /\ u.k = s.k /\ u.busy = s.busy /\ u.job = j
  BY <1>1, <1>7 DEF MissionMachine
<1> HIDE DEF u
<1>9. ~Active(s.sub) /\ Same(s, u) /\ Within(u.sub) /\ Attended(u)
  BY <1>1, <1>8 DEF Active, Same, Calm, Moves, Held, Attended, AlignActive
<1>10. state \notin {"ABORTING", "RECOVERY_WAIT_IDLE"}
  BY WorkingIs
<1>11. Still(s)
  BY <1>9, <1>10 DEF Good, Orderly, MayLinger
<1>12. Good(t) /\ Same(u, t) /\ (t.co.owner = "MISSION" => u.co.owner = "MISSION")
       /\ t.job.payload = payload
  <2>1. CASE state = "SAFE_RETREAT"
    BY <1>7, <1>8, <1>9, <2>1, FinishCompleteThis
  <2>2. CASE state # "SAFE_RETREAT"
    <3>1. s.job.task \in MissionTasks /\ state \in Working \ {"SAFE_RETREAT"}
      BY <1>1, <2>2 DEF JobType
    <3>2. /\ next \in MissionStates
          /\ s.job.task \in Puts /\ state \notin Picking => next \notin Picking
          /\ next \in Carrying =>
               state \in Carrying \/ state \in {"PREPARE_GRIP_OPEN", "RED_OBSERVE", "RECORD_XYZ"}
          /\ state = "GRIP_OPEN" => next \notin Carrying
      BY <3>1, NextStateIs
    <3> HIDE DEF next
    <3>3. s.job.task \in Puts =>
            state \notin Picking /\ (state \in Carrying => s.job.payload = "HELD")
      BY DEF Good, Holding
    <3>4. s.job.task \in Puts => next \notin Picking /\ (next \in Carrying => payload = "HELD")
      BY <1>4, <3>2, <3>3 DEF Picking
    <3>5. Ready(u, next)
      <4>1. OneMoves(u) /\ Still(u)
        BY <1>1, <1>8, <1>11, Transfer
      <4> QED
        BY <1>1, <1>7, <1>8, <1>9, <3>4, <4>1 DEF Ready, Held
    <3>6. Turn(u, Enter(u, next))
      BY <1>8, <1>9, <3>2, <3>5, EnterTurn
    <3>7. Enter(u, next).co = u.co /\ Enter(u, next).job.payload = u.job.payload
      BY <1>8, <3>2, EnterThis
    <3> QED
      BY <1>7, <1>8, <2>2, <3>6, <3>7 DEF Turn, next
  <2> QED
    BY <2>1, <2>2
<1> HIDE DEF t
<1>13. Same(s, t)
  BY <1>9, <1>12, SameSame
<1> QED
  BY <1>3, <1>6, <1>8, <1>12, <1>13 DEF Turn

\* A turn that changes nothing.
LEMMA StaysTurn == ASSUME NEW s, Good(s) PROVE Turn(s, s)
BY DEF Turn, Same, Calm, Good

\* Between two subflows nothing moves.
LEMMA QuietStill ==
  ASSUME NEW s, Good(s), Running(s), ~Active(s.sub), ~s.job.started,
         s.job.state \notin {"ABORTING", "RECOVERY_WAIT_IDLE"}
  PROVE  Still(s)
BY DEF Good, Orderly, MayLinger

\* Between two subflows none runs.
LEMMA IdleFlow ==
  ASSUME NEW s, Good(s), Running(s), s.job.state # "ABORTING", ~s.job.started
  PROVE  ~Active(s.sub)
BY DEF Good, Belongs

\* The subflow's record when it is started.
Fresh(type, task, retain, recorded) ==
  [NoFlow EXCEPT !.type = type, !.task = task, !.state = "STARTING",
                 !.retain = retain, !.recorded = recorded]

\* A subflow starts with all its counters.
LEMMA FreshThis ==
  ASSUME NEW type \in FlowTypes, NEW task \in MissionTasks, NEW retain \in BOOLEAN,
         NEW recorded \in BOOLEAN
  PROVE  LET f == Fresh(type, task, retain, recorded)
         IN /\ f \in SubType /\ f.type = type /\ f.task = task /\ f.state = "STARTING"
            /\ f.retain = retain /\ Active(f) /\ Within(f)
<1>1. NoFlow \in SubType
  <2>1. /\ 0 \in 0 .. MaxAttempts /\ 0 \in 0 .. MaxRecoveries /\ 0 \in 0 .. 3
        /\ 0 \in 0 .. StableSamples /\ MaxSegments \in 0 .. MaxSegments
    BY FlowAssumption
  <2> QED
    BY <2>1 DEF NoFlow, SubType, MissionTasks, FlowStates, Reasons
<1>2. NoFlow.stage = 0 /\ NoFlow.attempt = 0 /\ NoFlow.stable = 0
  BY DEF NoFlow
<1> DEFINE f == Fresh(type, task, retain, recorded)
<1>3. /\ f \in SubType /\ f.type = type /\ f.task = task /\ f.state = "STARTING"
      /\ f.retain = retain /\ f.stage = 0 /\ f.attempt = 0 /\ f.stable = 0
  BY <1>1, <1>2 DEF Fresh, SubType, FlowStates
<1> HIDE DEF f
<1>4. Active(f) /\ Within(f)
  BY <1>3, FlowAssumption DEF Active, Within
<1> QED
  BY <1>3, <1>4 DEF f

\* A subflow that is started for the mission.
LEMMA BegunTurn ==
  ASSUME NEW s, Good(s), Running(s), s.job.state \in Working, ~s.job.started, ~s.co.latch
  PROVE  Turn(s, [Begun(s, Expected(s.job.state), s.job.task) EXCEPT !.job.started = TRUE])
<1> DEFINE type == Expected(s.job.state)
           f == Fresh(type, s.job.task, s.sub.retain, s.sub.recorded)
           c == [s.co EXCEPT !.owner = "MISSION"]
           j == [s.job EXCEPT !.started = TRUE]
           t == [s EXCEPT !.co = c, !.news = FALSE, !.sub = f, !.job = j]
<1>1. /\ s \in MissionMachine /\ s.co \in CoType /\ s.sub \in SubType /\ s.job \in JobType
      /\ Held(s) /\ OneMoves(s)
  BY GoodHeld DEF Good, MissionMachine
<1>2. type \in FlowTypes /\ s.job.state \notin {"ABORTING", "RECOVERY_WAIT_IDLE"}
  <2>1. s.job.state \in {"PREPARE_GRIP_OPEN", "GRIP_OPEN", "PRESET_POSE", "RECOVER_PRESET",
             "RED_OBSERVE",
             "TAG_OBSERVE", "FRAME_OBSERVE", "OPTIONAL_Z_DROP", "TOF3_Z_DESCEND", "RECORD_XYZ",
             "RETURN_RECORDED_POSE", "SAFE_RETREAT", "ALIGN_XZ", "ALIGN_XY", "BLIND_Y",
             "GRIP_CLOSE"}
    BY WorkingIs
  <2> QED
    BY <2>1 DEF Expected, FlowTypes, ObserveTypes, AlignTypes, GripTypes, PoseTypes
<1>3. ~Active(s.sub)
  BY <1>2, IdleFlow
<1>4. Still(s)
  BY <1>2, <1>3, QuietStill
<1>5. ~AlignActive(s)
  BY <1>1, <1>3 DEF Held, Attended, Active
<1>6. [Begun(s, type, s.job.task) EXCEPT !.job.started = TRUE] = t
  BY <1>1 DEF Begun, Fresh, MissionMachine
<1>7. /\ f \in SubType /\ f.type = type /\ f.task = s.job.task /\ f.state = "STARTING"
      /\ f.retain = s.sub.retain /\ Active(f) /\ Within(f)
  <2>1. s.job.task \in MissionTasks /\ s.sub.retain \in BOOLEAN /\ s.sub.recorded \in BOOLEAN
    BY <1>1 DEF JobType, SubType
  <2>2. type \in FlowTypes
    BY <1>2
  <2> HIDE DEF type
  <2> QED
    BY <2>1, <2>2, FreshThis
<1> HIDE DEF f
<1>8. /\ c \in CoType /\ c.owner = "MISSION" /\ c.latch = s.co.latch /\ c.abort = s.co.abort
      /\ j \in JobType /\ j.started = TRUE /\ j.task = s.job.task /\ j.state = s.job.state
      /\ j.payload = s.job.payload
  BY <1>1 DEF CoType, JobType
<1> HIDE DEF c, j
<1>9. /\ t \in MissionMachine /\ t.co = c /\ t.axis = s.axis /\ t.sub = f /\ t.align = s.align
      /\ t.k = s.k /\ t.busy = s.busy /\ t.job = j
  BY <1>1, <1>7, <1>8 DEF MissionMachine
<1> HIDE DEF t
<1>10. Still(t) /\ ~AlignActive(t) /\ OneMoves(t)
  BY <1>4, <1>5, <1>9 DEF Still, AlignActive, OneMoves, Moves
<1>11. Within(t.sub) /\ Attended(t)
  BY <1>7, <1>9, <1>10 DEF Attended
<1>12. Owned(t) /\ Belongs(t) /\ Told(t)
  BY <1>1, <1>7, <1>8, <1>9 DEF Held, Owned, Belongs, Told, Working
<1>13. Orderly(t)
  BY <1>7, <1>9, <1>10 DEF Orderly, Tracked, Still, Active
<1>14. Holding(t)
  BY <1>8, <1>9 DEF Good, Holding
<1>15. Good(t)
  BY <1>9, <1>11, <1>12, <1>13, <1>14 DEF Good
<1>16. Same(s, t)
  BY <1>8, <1>9 DEF Same, Calm, Moves
<1> QED
  BY <1>6, <1>8, <1>9, <1>15, <1>16 DEF Turn

\* poll_subflow_state: it starts the subflow of a state, waits for it, and goes on or restarts.
LEMMA SubflowStateTurn ==
  ASSUME NEW s, Good(s), Running(s), s.job.state \in Working, ~s.co.latch, NEW late \in BOOLEAN
  PROVE  Turn(s, SubflowState(s, late))
<1>1. Held(s) /\ OneMoves(s) /\ s.sub.reason \in Reasons /\ "TRANSIENT" \in Reasons
  BY GoodHeld DEF Good, MissionMachine, SubType, Reasons
<1>2. \A reason \in Reasons : Turn(s, HandleFault(s, reason))
  BY <1>1, HandleFaultTurn
<1>3. ~s.job.started => Turn(s, StartSubflow(s))
  BY <1>1, <1>2, BegunTurn DEF StartSubflow
<1>4. /\ s.job.started /\ s.sub.type = Expected(s.job.state) /\ s.sub.state = "COMPLETE"
      => Turn(s, Advance(s))
  BY AdvanceTurn
<1>5. Turn(s, s)
  BY StaysTurn
<1> QED
  BY <1>1, <1>2, <1>3, <1>4, <1>5 DEF SubflowState

\* The states between the subflows.
LEMMA AwaitIdleTurn ==
  ASSUME NEW s, Good(s), s.job.state = "RECOVERY_WAIT_IDLE", NEW late \in BOOLEAN
  PROVE  Turn(s, AwaitIdle(s, late))
<1>1. Running(s)
  BY DEF Running, Resting
<1>2. Held(s) /\ "TRANSIENT" \in Reasons /\ "RECOVER_PRESET" \in MissionStates \ Picking
  BY <1>1, GoodHeld DEF Reasons, MissionStates, Picking
<1>3. Turn(s, FinishTerminal(s, "TRANSIENT"))
  BY <1>2, TerminalTurn DEF Held
<1>4. AllIdle(s) => Turn(s, Enter(s, "RECOVER_PRESET"))
  <2>1. ~Active(s.sub)
    BY <1>1 DEF Good, Belongs, Expected
  <2>2. s.job.task \in Puts => s.job.payload = "HELD"
    BY DEF Good, Holding, Carrying
  <2>3. AllIdle(s) => Ready(s, "RECOVER_PRESET")
    BY <1>2, <2>1, <2>2, IdleStill DEF Ready, Held
  <2> QED
    BY <1>2, <2>3, EnterTurn DEF Held
<1>5. Turn(s, s)
  BY StaysTurn
<1> QED
  BY <1>3, <1>4, <1>5 DEF AwaitIdle

\* The states that wait a moment lead to one that may be entered with this payload.
LEMMA MarkerTurn ==
  ASSUME NEW s, Good(s), s.job.state \in Markers
  PROVE  Turn(s, Enter(s, AfterMarker(s)))
<1> DEFINE next == AfterMarker(s)
<1>1. Running(s) /\ Expected(s.job.state) = "NONE" /\ s.job.state # "ABORTING"
  BY DEF Running, Resting, Markers, Expected
<1>2. Held(s) /\ OneMoves(s)
  BY <1>1, GoodHeld
<1>3. ~s.job.started /\ ~Active(s.sub)
  BY <1>1 DEF Good, Belongs
<1>4. Still(s)
  BY <1>3, <1>1, QuietStill DEF Markers
<1>5. s.job.task \in Puts =>
        s.job.state \notin Picking /\ (s.job.state \in Carrying => s.job.payload = "HELD")
  BY DEF Good, Holding
<1>6. /\ next \in MissionStates
      /\ s.job.task \in Puts => next \notin Picking /\ s.job.payload = "HELD"
  <2>1. CASE s.job.state \in {"FRONT_RED_READY", "FRONT_TAG_READY"}
    BY <1>5, <2>1 DEF AfterMarker, MissionStates, Picking, Carrying
  <2>2. CASE s.job.state = "DOWN_FRAME_READY"
    BY <1>5, <2>2 DEF AfterMarker, MissionStates, Picking, Carrying
  <2>3. CASE s.job.state = "STABLE"
    BY <1>5, <2>3 DEF AfterMarker, MissionStates, Picking, Carrying
  <2> QED
    BY <2>1, <2>2, <2>3 DEF Markers
<1> HIDE DEF next
<1>7. Ready(s, next)
  BY <1>2, <1>3, <1>4, <1>6 DEF Ready, Held
<1>8. Turn(s, Enter(s, next))
  BY <1>2, <1>6, <1>7, EnterTurn DEF Held
<1> QED
  BY <1>8 DEF next

\* A state that is entered with the object held, while nothing moves.
LEMMA QuietEnterTurn ==
  ASSUME NEW s, Good(s), Running(s), ~s.job.started,
         s.job.state \notin {"ABORTING", "RECOVERY_WAIT_IDLE"},
         NEW state \in MissionStates \ Picking, s.job.payload = "HELD"
  PROVE  Turn(s, Enter(s, state))
<1>1. Held(s) /\ OneMoves(s)
  BY GoodHeld
<1>2. ~Active(s.sub) /\ Still(s)
  BY IdleFlow, QuietStill
<1>3. Ready(s, state)
  BY <1>1, <1>2 DEF Ready, Held
<1> QED
  BY <1>1, <1>3, EnterTurn DEF Held

\* The task's state machine.
LEMMA StateStepTurn ==
  ASSUME NEW s, Good(s), Running(s), s.job.state # "ABORTING", ~s.co.latch,
         NEW late \in BOOLEAN, NEW configured \in BOOLEAN, NEW drop \in BOOLEAN,
         s.job.started => drop
  PROVE  Turn(s, StateStep(s, late, configured, drop))
<1>1. Held(s) /\ OneMoves(s) /\ "TRANSIENT" \in Reasons
  BY GoodHeld DEF Reasons
<1>2. Turn(s, s)
  BY StaysTurn
<1>3. ASSUME Expected(s.job.state) = "NONE" PROVE ~s.job.started /\ ~Active(s.sub)
  BY <1>3 DEF Good, Belongs
<1>4. CASE s.job.state = "RECOVERY_WAIT_IDLE"
  BY <1>4, AwaitIdleTurn DEF StateStep, Markers
<1>5. CASE s.job.state \in {"PRECHECK", "PRECHECK_HELD"}
  <2>1. ~Active(s.sub)
    BY <1>3, <1>5 DEF Expected
  <2>2. s.job.task \in Puts => s.job.state = "PRECHECK_HELD"
    BY <1>5 DEF Good, Holding, Picking
  <2>3. Turn(s, Precheck(s, configured))
    BY <1>1, <1>5, <2>1, <2>2, PrecheckTurn
  <2> QED
    BY <1>5, <2>3 DEF StateStep, Markers
<1>6. CASE s.job.state \in Markers
  <2>1. s.job.state \notin {"RECOVERY_WAIT_IDLE", "PRECHECK", "PRECHECK_HELD"}
    BY <1>6 DEF Markers
  <2> QED
    BY <1>2, <1>6, <2>1, MarkerTurn DEF StateStep, Markers
<1>7. CASE s.job.state = "VERIFY"
  <2>1. ~s.job.started
    BY <1>3, <1>7 DEF Expected
  <2>2. "SAFE_RETREAT" \in MissionStates \ Picking
    BY DEF MissionStates, Picking
  <2>3. s.job.payload = "HELD" => Turn(s, Enter(s, "SAFE_RETREAT"))
    BY <1>7, <2>1, <2>2, QuietEnterTurn
  <2>4. Turn(s, HandleFault(s, "TRANSIENT"))
    BY <1>1, HandleFaultTurn
  <2> QED
    BY <1>7, <2>3, <2>4 DEF StateStep, Markers
<1>8. CASE s.job.state = "OPTIONAL_Z_DROP" /\ ~drop
  <2>1. "GRIP_OPEN" \in MissionStates
    BY DEF MissionStates
  <2>2. ~s.job.started /\ ~Active(s.sub) /\ Still(s)
    BY <1>8, IdleFlow, QuietStill
  <2>3. s.job.task \in Puts => s.job.payload = "HELD"
    BY <1>8 DEF Good, Holding, Carrying
  <2>4. Ready(s, "GRIP_OPEN")
    BY <1>1, <2>2, <2>3 DEF Ready, Held, Picking
  <2>5. Turn(s, Enter(s, "GRIP_OPEN"))
    BY <1>1, <2>1, <2>4, EnterTurn DEF Held
  <2> QED
    BY <1>8, <2>5 DEF StateStep, Markers
<1>9. CASE /\ s.job.state \notin {"RECOVERY_WAIT_IDLE", "PRECHECK", "PRECHECK_HELD", "VERIFY"}
           /\ s.job.state \notin Markers /\ ~(s.job.state = "OPTIONAL_Z_DROP" /\ ~drop)
  <2>1. s.job.state \in Working
    <3>1. s.job.state \in MissionStates \ Resting
      BY DEF Running, Good, MissionMachine, JobType
    <3> QED
      BY <1>9, <3>1, WorkingIs DEF MissionStates, Resting, Markers
  <2>2. Turn(s, SubflowState(s, late))
    BY <2>1, SubflowStateTurn
  <2> QED
    BY <1>9, <2>2 DEF StateStep
<1> QED
  BY <1>4, <1>5, <1>6, <1>7, <1>8, <1>9

\* A change of the task's own record, then a turn.
LEMMA TurnAfter ==
  ASSUME NEW r, NEW s, NEW t, Same(r, s), Turn(s, t), s.co.owner = r.co.owner,
         s.job.payload = r.job.payload, s.job.started => r.job.started, s.sub = r.sub
  PROVE  Turn(r, t)
<1>1. Same(r, t)
  BY SameSame DEF Turn
<1>2. s.co.latch = r.co.latch
  BY DEF Same
<1> QED
  BY <1>1, <1>2 DEF Turn

\* A cancellation under way: the mission ends once its subflow has.
LEMMA AbortingTurn ==
  ASSUME NEW s, Good(s), s.job.state = "ABORTING"
  PROVE  Turn(s, Aborting(s))
<1>1. Running(s)
  BY DEF Running, Resting
<1>2. Held(s) /\ "FINAL" \in Reasons
  BY <1>1, GoodHeld DEF Reasons
<1>3. CASE ~Active(s.sub)
  BY <1>2, <1>3, TerminalTurn DEF Aborting, Held
<1>4. CASE Active(s.sub)
  <2> DEFINE f == [s.sub EXCEPT !.cancel = @ \/ ~s.job.issued]
             j == [s.job EXCEPT !.issued = TRUE]
             t == [s EXCEPT !.sub = f, !.job = j]
  <2>1. s \in MissionMachine /\ s.sub \in SubType /\ s.job \in JobType
    BY DEF Good, MissionMachine
  <2>2. /\ f \in SubType /\ f.type = s.sub.type /\ f.task = s.sub.task /\ f.state = s.sub.state
        /\ f.stage = s.sub.stage /\ f.attempt = s.sub.attempt /\ f.stable = s.sub.stable
        /\ f.retain = s.sub.retain
    <3>1. s.sub.cancel \in BOOLEAN /\ s.job.issued \in BOOLEAN
      BY <2>1 DEF SubType, JobType
    <3> DEFINE b == s.sub.cancel \/ ~s.job.issued
    <3>2. b \in BOOLEAN
      OBVIOUS
    <3>3. f = [s.sub EXCEPT !.cancel = b]
      BY <2>1 DEF SubType
    <3> HIDE DEF b, f
    <3> QED
      BY <2>1, <3>2, <3>3 DEF SubType
  <2>3. /\ j \in JobType /\ j.state = s.job.state /\ j.task = s.job.task
        /\ j.payload = s.job.payload /\ j.started = s.job.started
    BY <2>1 DEF JobType
  <2>4. Aborting(s) = t
    BY <1>4, <2>1 DEF Aborting, MissionMachine, SubType
  <2> HIDE DEF f, j
  <2>5. /\ t \in MissionMachine /\ t.co = s.co /\ t.axis = s.axis /\ t.sub = f
        /\ t.align = s.align /\ t.k = s.k /\ t.busy = s.busy /\ t.job = j
    BY <2>1, <2>2, <2>3 DEF MissionMachine
  <2> HIDE DEF t
  <2>6. Within(t.sub) /\ Attended(t)
    BY <2>2, <2>5 DEF Good, Within, Active, Attended, AlignActive
  <2>7. Owned(t) /\ Belongs(t) /\ Holding(t) /\ Told(t)
    BY <2>2, <2>3, <2>5
    DEF Good, Owned, Belongs, Holding, Told, Running, Active, Applied
  <2>8. Movers(t.sub, t.align) = Movers(s.sub, s.align)
    <3>1. f.stage < 3 /\ s.sub.stage < 3
      BY <1>4, <2>2 DEF Good, Within
    <3>2. PoseAxis(f) = PoseAxis(s.sub)
      BY <2>1, <2>2, <3>1, PoseAxisIs
    <3> QED
      BY <2>2, <2>5, <3>2 DEF Movers
  <2>9. Tracked(s) /\ OneMoves(s)
    BY <1>1, <1>4 DEF Good, Orderly
  <2>10. Orderly(t)
    BY <1>4, <2>2, <2>5, <2>8, <2>9 DEF Orderly, Tracked, OneMoves, Moves, Active
  <2>11. Good(t)
    BY <2>5, <2>6, <2>7, <2>10 DEF Good
  <2>12. Same(s, t)
    BY <2>5 DEF Same, Calm, Moves
  <2> QED
    BY <2>3, <2>4, <2>5, <2>11, <2>12 DEF Turn
<1> QED
  BY <1>3, <1>4

\* The task takes up a cancellation.
LEMMA CancelThis ==
  ASSUME NEW s, s \in MissionMachine
  PROVE  LET u == [s EXCEPT !.job.cancel = FALSE, !.job.issued = FALSE]
         IN /\ u \in MissionMachine /\ u.co = s.co /\ u.axis = s.axis /\ u.sub = s.sub
            /\ u.align = s.align /\ u.k = s.k /\ u.busy = s.busy
            /\ u.job.state = s.job.state /\ u.job.task = s.job.task
            /\ u.job.payload = s.job.payload /\ u.job.started = s.job.started
<1> DEFINE j == [s.job EXCEPT !.cancel = FALSE, !.issued = FALSE]
<1>1. s.job \in JobType
  BY DEF MissionMachine
<1>2. /\ j \in JobType /\ j.state = s.job.state /\ j.task = s.job.task
      /\ j.payload = s.job.payload /\ j.started = s.job.started
  BY <1>1 DEF JobType
<1>3. [s EXCEPT !.job.cancel = FALSE, !.job.issued = FALSE] = [s EXCEPT !.job = j]
  BY <1>1 DEF MissionMachine, JobType
<1> HIDE DEF j
<1>4. LET u == [s EXCEPT !.job = j]
      IN /\ u \in MissionMachine /\ u.co = s.co /\ u.axis = s.axis /\ u.sub = s.sub
         /\ u.align = s.align /\ u.k = s.k /\ u.busy = s.busy /\ u.job = j
  BY <1>2 DEF MissionMachine
<1> QED
  BY <1>2, <1>3, <1>4

\* A cancellation that is taken up.
LEMMA CancelledTurn ==
  ASSUME NEW s, Held(s),
         Active(s.sub) => Good(s) /\ Running(s),
         Running(s)
  PROVE  LET t == Enter([s EXCEPT !.job.cancel = FALSE, !.job.issued = FALSE], "ABORTING")
         IN Turn(s, Aborting(t)) /\ t.job.state = "ABORTING"
<1> DEFINE u == [s EXCEPT !.job.cancel = FALSE, !.job.issued = FALSE]
           t == Enter(u, "ABORTING")
<1>1. /\ u \in MissionMachine /\ u.co = s.co /\ u.axis = s.axis /\ u.sub = s.sub
      /\ u.align = s.align /\ u.k = s.k /\ u.busy = s.busy
      /\ u.job.state = s.job.state /\ u.job.task = s.job.task
      /\ u.job.payload = s.job.payload /\ u.job.started = s.job.started
  BY CancelThis DEF Held
<1> HIDE DEF u
<1>2. "ABORTING" \in MissionStates /\ "ABORTING" \notin Picking /\ "ABORTING" \notin Carrying
  BY DEF MissionStates, Picking, Carrying
<1>3. /\ t \in MissionMachine /\ t.co = s.co /\ t.axis = s.axis /\ t.sub = s.sub
      /\ t.align = s.align /\ t.k = s.k /\ t.busy = s.busy /\ t.job.state = "ABORTING"
      /\ t.job.payload = s.job.payload /\ t.job.started = FALSE
  BY <1>1, <1>2, EnterThis
<1>4. Within(u.sub) /\ Attended(u)
  BY <1>1, Transfer DEF Held
<1>5. CASE Active(s.sub)
  <2>1. Tracked(s) /\ OneMoves(s) /\ s.sub.task = s.job.task
    BY <1>5 DEF Good, Orderly, Belongs
  <2>2. Ready(u, "ABORTING")
    BY <1>1, <1>2, <2>1, Transfer DEF Ready, Held
  <2>3. Good(t)
    BY <1>1, <1>2, <1>4, <2>2, EnterGood
  <2> HIDE DEF t
  <2>4. Turn(t, Aborting(t))
    BY <1>3, <2>3, AbortingTurn
  <2>5. Same(s, t)
    BY <1>3 DEF Same, Calm, Moves
  <2>6. Turn(s, Aborting(t))
    BY <1>3, <2>4, <2>5, TurnAfter
  <2> QED
    BY <1>3, <2>6 DEF t, u
<1>6. CASE ~Active(s.sub)
  <2> HIDE DEF t
  <2>1. Aborting(t) = FinishTerminal(t, "FINAL")
    BY <1>3, <1>6 DEF Aborting
  <2>2. Within(t.sub) /\ Attended(t) /\ "FINAL" \in Reasons
    BY <1>3, Transfer DEF Held, Reasons
  <2>3. Turn(t, FinishTerminal(t, "FINAL"))
    BY <1>3, <2>2, TerminalTurn
  <2>4. Same(s, t)
    BY <1>3 DEF Same, Calm, Moves
  <2>5. Turn(s, Aborting(t))
    BY <1>3, <2>1, <2>3, <2>4, TurnAfter
  <2> QED
    BY <1>3, <2>5 DEF t, u
<1> QED
  BY <1>5, <1>6

\* A poll of an active mission.
LEMMA ActiveStepTurn ==
  ASSUME NEW s, Good(s), Running(s),
         NEW late \in BOOLEAN, NEW expired \in BOOLEAN, NEW configured \in BOOLEAN,
         NEW drop \in BOOLEAN, s.job.started => drop
  PROVE  Turn(s, ActiveStep(s, late, expired, configured, drop))
<1>1. Held(s) /\ "FINAL" \in Reasons /\ "TRANSIENT" \in Reasons
  BY GoodHeld DEF Reasons
<1>2. CASE s.job.cancel
  <2> DEFINE t == Enter([s EXCEPT !.job.cancel = FALSE, !.job.issued = FALSE], "ABORTING")
  <2>1. Turn(s, Aborting(t)) /\ t.job.state = "ABORTING"
    BY <1>1, CancelledTurn
  <2> HIDE DEF t
  <2>3. ActiveStep(s, late, expired, configured, drop) = Aborting(t)
    BY <1>2, <2>1 DEF ActiveStep, t
  <2> QED
    BY <2>1, <2>3
<1>3. CASE ~s.job.cancel
  <2>1. s.job.state = "ABORTING" => Turn(s, Aborting(s))
    BY AbortingTurn
  <2>2. \A reason \in Reasons : Turn(s, FinishTerminal(s, reason))
    BY <1>1, TerminalTurn DEF Held
  <2>3. s.job.state # "ABORTING" /\ ~s.co.latch => Turn(s, StateStep(s, late, configured, drop))
    BY StateStepTurn
  <2> QED
    BY <1>1, <1>3, <2>1, <2>2, <2>3 DEF ActiveStep
<1> QED
  BY <1>2, <1>3

\* A mission that starts is checked in the same turn.
LEMMA StartTurn ==
  ASSUME NEW r, Good(r), ~Running(r), r.job.start # "NONE",
         NEW late \in BOOLEAN, NEW expired \in BOOLEAN, NEW configured \in BOOLEAN,
         NEW drop \in BOOLEAN
  PROVE  LET s == ProcessStart(r)
             t == IF s.job.state \in Resting THEN s
                  ELSE ActiveStep(s, late, expired, configured, drop)
         IN /\ Good(t) /\ Same(r, t)
            /\ t.co.owner = "MISSION" => ~r.co.latch \/ r.co.owner = "MISSION"
<1> DEFINE j == [r.job EXCEPT !.start = "NONE", !.task = r.job.start]
           u == [r EXCEPT !.job.start = "NONE", !.job.task = r.job.start]
           h == [j EXCEPT !.restarts = 0, !.issued = FALSE]
           f == [r.sub EXCEPT !.retain = TRUE]
           c == [r.co EXCEPT !.owner = "MISSION"]
           v == [u EXCEPT !.co.owner = "MISSION", !.sub.retain = TRUE, !.job.restarts = 0,
                          !.job.issued = FALSE]
           first == IF r.job.start \in Puts THEN "PRECHECK_HELD" ELSE "PRECHECK"
           refused == Active(r.sub) \/ r.co.owner # "NONE" \/ r.co.latch \/ r.co.abort
           s == IF refused THEN Enter(u, "FAULT") ELSE Enter(v, first)
           t == IF s.job.state \in Resting THEN s
                ELSE ActiveStep(s, late, expired, configured, drop)
<1>1. /\ r \in MissionMachine /\ r.job \in JobType /\ r.sub \in SubType /\ r.co \in CoType
      /\ Within(r.sub) /\ Attended(r)
  BY DEF Good, MissionMachine
<1>2. /\ j \in JobType /\ j.payload = r.job.payload /\ j.task = r.job.start
  BY <1>1 DEF JobType
<1>3. /\ h \in JobType /\ h.payload = r.job.payload /\ h.task = r.job.start
      /\ h.cancel = r.job.cancel
  <2>1. 0 \in 0 .. MaxRestarts
    BY MissionAssumption
  <2> QED
    BY <1>1, <1>2, <2>1 DEF JobType
<1>4. /\ f \in SubType /\ f.state = r.sub.state /\ f.retain = TRUE
      /\ c \in CoType /\ c.owner = "MISSION" /\ c.latch = r.co.latch /\ c.abort = r.co.abort
  BY <1>1 DEF SubType, CoType
<1>5. u = [r EXCEPT !.job = j]
  BY <1>1 DEF MissionMachine, JobType
<1>6. v = [r EXCEPT !.co = c, !.sub = f, !.job = h]
  <2>1. v = [[r EXCEPT !.job = j] EXCEPT !.co.owner = "MISSION", !.sub.retain = TRUE,
                                        !.job.restarts = 0, !.job.issued = FALSE]
    BY <1>5
  <2> HIDE DEF j, u, v
  <2> QED
    BY <1>1, <1>2, <2>1 DEF MissionMachine, JobType
<1> HIDE DEF j, h, f, c, u, v
<1>7. /\ u \in MissionMachine /\ u.co = r.co /\ u.axis = r.axis /\ u.sub = r.sub
      /\ u.align = r.align /\ u.k = r.k /\ u.busy = r.busy /\ u.job = j
  BY <1>1, <1>2, <1>5 DEF MissionMachine
<1>8. /\ v \in MissionMachine /\ v.co = c /\ v.axis = r.axis /\ v.sub = f
      /\ v.align = r.align /\ v.k = r.k /\ v.busy = r.busy /\ v.job = h
  BY <1>1, <1>3, <1>4, <1>6 DEF MissionMachine
<1>9. ProcessStart(r) = s
  <2>1. u.job.task = r.job.start
    BY <1>2, <1>7
  <2>2. ProcessStart(r) =
          IF refused THEN Enter(u, "FAULT")
          ELSE Enter(v, IF u.job.task \in Puts THEN "PRECHECK_HELD" ELSE "PRECHECK")
    BY Zenon DEF ProcessStart, u, v
  <2> QED
    BY <2>1, <2>2
<1>10. CASE refused
  <2>1. "FAULT" \in MissionStates /\ "FAULT" \in Resting
    BY DEF MissionStates, Resting
  <2>2. Within(u.sub) /\ Attended(u) /\ Same(r, u)
    BY <1>1, <1>7 DEF Attended, AlignActive, Same, Calm, Moves
  <2> DEFINE e == Enter(u, "FAULT")
  <2>3. Good(e) /\ Same(u, e) /\ e.co = u.co /\ e.job.state = "FAULT"
    BY <1>7, <2>1, <2>2, EnterGood, EnterThis
  <2> HIDE DEF e
  <2>4. s = e
    BY <1>10 DEF e
  <2> HIDE DEF s
  <2>5. t = e
    BY <2>1, <2>3, <2>4
  <2>6. Same(r, e)
    BY <2>2, <2>3, SameSame
  <2> HIDE DEF t
  <2>7. Good(t) /\ Same(r, t) /\ (t.co.owner = "MISSION" => ~r.co.latch \/ r.co.owner = "MISSION")
    BY <1>7, <2>3, <2>5, <2>6
  <2> QED
    BY <1>9, <2>7 DEF t
<1>11. CASE ~refused
  <2> DEFINE e == Enter(v, first)
  <2>1. first \in MissionStates \ Resting /\ first \in {"PRECHECK", "PRECHECK_HELD"}
        /\ (r.job.start \in Puts => first = "PRECHECK_HELD")
    BY DEF MissionStates, Resting
  <2> HIDE DEF first
  <2>2. /\ e \in MissionMachine /\ e.co = c /\ e.axis = r.axis /\ e.sub = f
        /\ e.align = r.align /\ e.k = r.k /\ e.busy = r.busy
        /\ e.job = [h EXCEPT !.state = first, !.started = FALSE]
        /\ e.job.state = first /\ e.job.task = r.job.start /\ e.job.started = FALSE
    BY <1>3, <1>8, <2>1, EnterThis
  <2> HIDE DEF e
  <2>3. s = e
    BY <1>11 DEF e
  <2>4. ~Active(e.sub) /\ ~e.co.latch /\ e.co.owner = "MISSION" /\ e.sub.retain
    BY <1>4, <1>11, <2>2 DEF Active
  <2>5. ~AlignActive(e)
    BY <1>1, <1>11, <2>2 DEF Attended, AlignActive
  <2>6. Held(e) /\ Running(e)
    BY <2>1, <2>2, <2>4, <2>5 DEF Held, Within, Attended, Running
  <2>7. Same(r, e)
    BY <1>4, <2>2 DEF Same, Calm, Moves
  <2>8. Turn(e, ActiveStep(e, late, expired, configured, drop))
    <3>1. CASE e.job.cancel
      <4> DEFINE x == Enter([e EXCEPT !.job.cancel = FALSE, !.job.issued = FALSE], "ABORTING")
      <4>1. Turn(e, Aborting(x)) /\ x.job.state = "ABORTING"
        BY <2>4, <2>6, CancelledTurn
      <4> HIDE DEF x
      <4>3. ActiveStep(e, late, expired, configured, drop) = Aborting(x)
        BY <3>1, <4>1 DEF ActiveStep, x
      <4> QED
        BY <4>1, <4>3
    <3>2. CASE ~e.job.cancel
      <4>1. Turn(e, Precheck(e, configured))
        BY <2>1, <2>2, <2>4, <2>6, PrecheckTurn
      <4>2. Turn(e, FinishTerminal(e, "TRANSIENT"))
        BY <2>6, TerminalTurn DEF Held, Reasons
      <4>3. StateStep(e, late, configured, drop) = Precheck(e, configured)
        BY <2>1, <2>2 DEF StateStep, Markers
      <4> QED
        BY <2>1, <2>2, <2>4, <3>2, <4>1, <4>2, <4>3 DEF ActiveStep
    <3> QED
      BY <3>1, <3>2
  <2>9. t = ActiveStep(e, late, expired, configured, drop)
    <3> HIDE DEF s
    <3> QED
      BY <2>1, <2>2, <2>3
  <2> HIDE DEF t
  <2>10. Good(t) /\ Same(e, t) /\ Same(r, t)
    BY <2>7, <2>8, <2>9, SameSame DEF Turn
  <2> QED
    BY <1>9, <1>11, <2>10 DEF t
<1> QED
  BY <1>10, <1>11

\* A poll of the mission task.
LEMMA TaskGood ==
  ASSUME Good(World), NEW late \in BOOLEAN, NEW expired \in BOOLEAN, TaskPoll(late, expired)
  PROVE  /\ Good(World') /\ Calm(World, World') /\ k' = k
         /\ co'.latch = co.latch
         /\ co'.owner = "MISSION" => ~co.latch \/ co.owner = "MISSION"
         /\ job.state \notin Resting /\ job'.payload # job.payload =>
              /\ job.started /\ sub.state = "COMPLETE" /\ sub.type \in GripTypes
              /\ job'.payload = "HELD" <=> sub.type = "GRIP_CLOSE"
<1> DEFINE r == World
<1>1. PICK configured \in BOOLEAN, drop \in BOOLEAN :
        (job.started => drop) /\ Task(late, expired, configured, drop)
  BY DEF TaskPoll
<1> DEFINE s == IF job.start # "NONE" /\ job.state \in Resting THEN ProcessStart(r) ELSE r
           t == IF s.job.state \in Resting THEN s
                ELSE ActiveStep(s, late, expired, configured, drop)
<1>2. Become(t) /\ job' = t.job /\ busy' = busy
  BY <1>1 DEF Task, TaskPoll
<1>3. /\ r.job = job /\ r.co = co /\ r.sub = sub /\ r.k = k /\ r.busy = busy
  BY WorldIs
<1> HIDE DEF r
<1>4. /\ Good(t) /\ Same(r, t)
      /\ t.co.owner = "MISSION" => ~r.co.latch \/ r.co.owner = "MISSION"
      /\ Running(r) => Turn(r, t)
  <2>1. CASE job.start # "NONE" /\ job.state \in Resting
    BY <1>3, <2>1, StartTurn DEF Running, r
  <2>2. CASE ~(job.start # "NONE" /\ job.state \in Resting) /\ job.state \in Resting
    <3>1. t = r
      BY <1>3, <2>2
    <3>2. Turn(r, r) /\ Good(r)
      BY StaysTurn DEF r
    <3> HIDE DEF t
    <3> QED
      BY <3>1, <3>2 DEF Turn
  <2>3. CASE job.state \notin Resting
    <3>1. t = ActiveStep(r, late, expired, configured, drop)
      BY <1>3, <2>3
    <3>2. Running(r) /\ Good(r)
      BY <1>3, <2>3 DEF Running, r
    <3> HIDE DEF t
    <3>3. Turn(r, t)
      BY <1>1, <1>3, <3>1, <3>2, ActiveStepTurn
    <3> QED
      BY <3>3 DEF Turn
  <2> QED
    BY <2>1, <2>2, <2>3
<1> HIDE DEF t
<1>5. World' = t
  BY <1>2, <1>3, <1>4, BecomeWorld DEF Same
<1>6. co' = t.co /\ k' = t.k
  BY <1>2 DEF Become
<1> QED
  BY <1>2, <1>3, <1>4, <1>5, <1>6 DEF Same, Turn, Running, r

-----------------------------------------------------------------------------
(* The steps of the specification.                                         *)

\* What every step of the machine keeps to. An abort that has latched is final.
Safe ==
  /\ Good(World') /\ ShutOut' /\ GripKnown'
  /\ co.latch => Calm(World, World')

\* The parts of the mission's next state.
LEMMA WorldPrime ==
  /\ World'.co = co' /\ World'.axis = axis' /\ World'.news = news' /\ World'.sub = sub'
  /\ World'.align = align' /\ World'.k = k' /\ World'.busy = busy' /\ World'.job = job'
BY DEF World

\* The machine comes to a state of the subflow's operators.
LEMMA BecomeFlow ==
  ASSUME NEW t \in FlowMachine, Become(t), busy' = t.busy, job' \in JobType
  PROVE  /\ World' \in MissionMachine
         /\ co' = t.co /\ axis' = t.axis /\ sub' = t.sub /\ align' = t.align /\ k' = t.k
BY DEF Become, World, FlowMachine, MissionMachine

\* The variables of a machine in order.
LEMMA WorldTypes ==
  ASSUME Good(World)
  PROVE  /\ co \in CoType /\ axis \in [Axes -> AxisStates] /\ news \in BOOLEAN /\ sub \in SubType
         /\ align \in [state : AlignStates, why : AlignFaults] /\ k \in CommandType
         /\ busy \in SUBSET {"XY", "Z"} /\ job \in JobType /\ Now \in FlowMachine
         /\ Within(sub) /\ Attended(World) /\ Attended(Now)
<1>1. World \in MissionMachine
  BY DEF Good
<1>2. Attended(World) <=> Attended(Now)
  BY WorldIs, NowIs, Transfer
<1> QED
  BY <1>1, <1>2, WorldIs, WorldHasNow DEF Good, MissionMachine

\* A step that sets nothing in motion and leaves the subflow and the mission alone.
LEMMA CalmSafe ==
  ASSUME IInv, World' \in MissionMachine,
         \A a \in Axes : axis'[a] = "moving" => axis[a] = "moving",
         sub' = sub, align' = align,
         \/ k' = k /\ grip' = grip
         \/ /\ k.state = "active"
            /\ k'.state = "applied" /\ k'.what \in GripTypes => grip' = Position(k'.what),
         job'.task = job.task, job'.state = job.state, job'.started = job.started,
         job'.payload = job.payload \/ job.state \in Resting,
         co'.owner = co.owner \/ (co.owner # "MISSION" /\ co'.owner # "MISSION"),
         co.latch => co'.latch,
         ShutOut'
  PROVE  Safe
<1>1. Good(World)
  BY DEF IInv
<1>2. Calm(World, World')
  BY WorldIs, WorldPrime DEF Calm, Moves
<1>3. Good(World')
  <2> DEFINE s == World
             t == World'
  <2>1. /\ Good(s) /\ t \in MissionMachine /\ Calm(s, t) /\ t.sub = s.sub /\ t.align = s.align
        /\ t.k = s.k \/ s.k.state = "active"
        /\ t.job.task = s.job.task /\ t.job.state = s.job.state /\ t.job.started = s.job.started
        /\ t.job.payload = s.job.payload \/ s.job.state \in Resting
        /\ t.co.owner = s.co.owner \/ s.co.owner # "MISSION"
        /\ s.co.latch => t.co.latch
    BY <1>1, <1>2, WorldIs, WorldPrime
  <2> HIDE DEF s, t
  <2>2. Good(t)
    BY <2>1, CalmGood
  <2> QED
    BY <2>2 DEF t
<1>4. GripKnown'
  BY DEF IInv, GripKnown
<1> QED
  BY <1>2, <1>3, <1>4 DEF Safe

\* A stop moves nothing.
LEMMA StoppedThis ==
  ASSUME NEW s \in FlowMachine
  PROVE  LET t == Stopped(s)
         IN /\ t \in FlowMachine /\ t.sub = s.sub /\ t.align = s.align /\ t.k = s.k
            /\ t.busy = s.busy /\ Calm(s, t)
            /\ t.co.owner = s.co.owner /\ t.co.latch = s.co.latch /\ t.co.abort = s.co.abort
<1> DEFINE x == [[s.axis EXCEPT !["X"] = "stopping"] EXCEPT !["Y"] = "stopping"]
           c == [s.co EXCEPT !.stop = "sent"]
           u == [s EXCEPT !.axis = x, !.co = c]
           xy == IF s.co.stop = "begun" THEN u ELSE s
           v == StopThese(xy, {"Z"})
           d == [v.co EXCEPT !.stop = "none"]
           w == [v EXCEPT !.co = d]
           t == IF InMotion(v) THEN v ELSE w
<1>1. /\ x \in [Axes -> AxisStates] /\ \A a \in Axes : x[a] = "moving" => s.axis[a] = "moving"
      /\ c \in CoType /\ c.owner = s.co.owner /\ c.latch = s.co.latch /\ c.abort = s.co.abort
  BY DEF FlowMachine, AxisStates, CoType
<1>2. [s EXCEPT !.axis["X"] = "stopping", !.axis["Y"] = "stopping", !.co.stop = "sent"] = u
  BY DEF FlowMachine
<1> HIDE DEF x, c
<1>3. /\ u \in FlowMachine /\ u.sub = s.sub /\ u.align = s.align /\ u.k = s.k /\ u.busy = s.busy
      /\ u.axis = x /\ u.co = c
  BY <1>1 DEF FlowMachine
<1> HIDE DEF u
<1>4. /\ xy \in FlowMachine /\ xy.sub = s.sub /\ xy.align = s.align /\ xy.k = s.k
      /\ xy.busy = s.busy /\ Calm(s, xy)
      /\ xy.co.owner = s.co.owner /\ xy.co.latch = s.co.latch /\ xy.co.abort = s.co.abort
  BY <1>1, <1>3 DEF Calm, Moves
<1> HIDE DEF xy
<1>5. Stops(xy, v, {"Z"})
  <2>1. xy \in Machine /\ {"Z"} \in SUBSET Axes
    BY <1>4 DEF Machine, Axes
  <2> QED
    BY <2>1, StopThis
<1>6. /\ v \in FlowMachine /\ v.sub = s.sub /\ v.align = s.align /\ v.k = s.k
      /\ v.busy = s.busy /\ Calm(s, v)
      /\ v.co.owner = s.co.owner /\ v.co.latch = s.co.latch /\ v.co.abort = s.co.abort
  BY <1>4, <1>5 DEF Stops, SameKind, Calm
<1> HIDE DEF v
<1>7. /\ d \in CoType /\ d.owner = s.co.owner /\ d.latch = s.co.latch /\ d.abort = s.co.abort
  BY <1>6 DEF FlowMachine, CoType
<1>8. [v EXCEPT !.co.stop = "none"] = w
  BY <1>6 DEF FlowMachine
<1> HIDE DEF d
<1>9. /\ w \in FlowMachine /\ w.sub = s.sub /\ w.align = s.align /\ w.k = s.k
      /\ w.busy = s.busy /\ Calm(s, w) /\ w.co = d
  BY <1>6, <1>7 DEF FlowMachine, Calm, Moves
<1>10. Stopped(s) = t
  BY <1>2, <1>8 DEF Stopped, v, xy
<1> HIDE DEF w
<1> QED
  BY <1>6, <1>7, <1>9, <1>10

\* The abort takes the ownership, and the alignment with it.
LEMMA AbortTakenThis ==
  ASSUME NEW s \in FlowMachine, Attended(s)
  PROVE  LET t == AbortTaken(s)
         IN /\ t \in FlowMachine /\ t.sub = s.sub /\ t.k = s.k /\ t.busy = s.busy
            /\ ~AlignActive(t) /\ Calm(s, t)
            /\ t.co.latch /\ t.co.owner = "NONE"
            /\ Tracked(s) /\ Active(s.sub) => Tracked(t)
<1> DEFINE u == IF AlignActive(s) THEN AlignAborted(s) ELSE s
           c == [s.co EXCEPT !.abort = FALSE, !.latch = TRUE, !.owner = "NONE",
                             !.stop = IF @ = "none" THEN "begun" ELSE @]
           t == [u EXCEPT !.co = c]
<1>1. AlignActive(s) => s.sub.type \in AlignTypes /\ s.sub.state = "RUNNING"
  BY DEF Attended
<1>2. /\ u \in FlowMachine /\ u.sub = s.sub /\ u.k = s.k /\ u.busy = s.busy /\ u.co = s.co
      /\ ~AlignActive(u) /\ Calm(s, u)
      /\ AlignActive(s) =>
           u.align.state = "off" /\ \A a \in AlignAxes(s.sub.type) : Moves(u, a) => a = "Z"
      /\ ~AlignActive(s) => u = s
  <2>1. s \in Machine
    BY DEF Machine
  <2>2. Calm(s, s)
    BY DEF Calm
  <2>3. CASE AlignActive(s)
    BY <1>1, <2>1, <2>3, AbortThis DEF SameKind, AlignActive
  <2>4. CASE ~AlignActive(s)
    BY <2>2, <2>4
  <2> QED
    BY <2>3, <2>4
<1>3. c \in CoType /\ c.latch = TRUE /\ c.owner = "NONE"
  BY DEF FlowMachine, CoType
<1>4. [u EXCEPT !.co.abort = FALSE, !.co.latch = TRUE, !.co.owner = "NONE",
                !.co.stop = IF @ = "none" THEN "begun" ELSE @] = t
  <2> HIDE DEF u
  <2> QED
    BY <1>2 DEF FlowMachine, CoType
<1>5. AbortTaken(s) = t
  BY <1>4 DEF AbortTaken
<1> HIDE DEF u, c
<1>6. /\ t \in FlowMachine /\ t.sub = u.sub /\ t.k = u.k /\ t.busy = u.busy /\ t.co = c
      /\ t.align = u.align /\ t.axis = u.axis
  BY <1>2, <1>3 DEF FlowMachine
<1> HIDE DEF t
<1>7. ~AlignActive(t) /\ Calm(s, t)
  BY <1>2, <1>6 DEF AlignActive, Calm, Moves
<1>8. ASSUME Tracked(s), Active(s.sub) PROVE Tracked(t)
  <2>1. CASE ~AlignActive(s)
    BY <1>2, <1>6, <1>8, <2>1 DEF Tracked, Moves
  <2>2. CASE AlignActive(s)
    <3>1. Movers(s.sub, s.align) \subseteq AlignAxes(s.sub.type)
      BY <1>1, <2>2 DEF AlignActive, Movers, AlignAxes, AlignTypes, PoseTypes
    <3>2. Movers(t.sub, t.align) = Leftover(s.sub.type)
      BY <1>1, <1>2, <1>6, <2>2 DEF Movers, AlignTypes, PoseTypes
    <3>3. "Z" \in AlignAxes(s.sub.type) => "Z" \in Leftover(s.sub.type)
      BY <1>1, <2>2 DEF AlignAxes, Leftover, AlignTypes
    <3> SUFFICES ASSUME NEW a \in Axes, Moves(t, a) PROVE a \in Movers(t.sub, t.align)
      BY DEF Tracked
    <3>4. Moves(u, a) /\ Moves(s, a)
      BY <1>6, <1>7 DEF Calm, Moves
    <3>5. a \in AlignAxes(s.sub.type)
      BY <1>8, <3>1, <3>4 DEF Tracked
    <3>6. a = "Z"
      BY <1>2, <2>2, <3>4, <3>5
    <3> QED
      BY <3>2, <3>3, <3>5, <3>6
  <2> QED
    BY <2>1, <2>2
<1> QED
  BY <1>2, <1>3, <1>5, <1>6, <1>7, <1>8

\* What the abort leaves of a mission is in order: the latch stands for the owner.
LEMMA CutGood ==
  ASSUME NEW s, Good(s), NEW t \in MissionMachine, Calm(s, t), t.sub = s.sub, t.job = s.job,
         ~AlignActive(t), t.k = s.k, t.co.latch,
         Active(s.sub) /\ Tracked(s) => Tracked(t)
  PROVE  Good(t)
<1>1. Within(t.sub) /\ Attended(t)
  BY DEF Good, Attended
<1>2. CASE s.job.state \in Resting
  BY <1>1, <1>2, RestGood
<1>3. CASE s.job.state \notin Resting
  <2>1. Running(s) /\ Running(t)
    BY <1>3 DEF Running
  <2>2. Owned(t) /\ Belongs(t) /\ Holding(t)
    BY <2>1 DEF Good, Owned, Belongs, Holding
  <2>3. Orderly(t)
    BY <2>1 DEF Good, Orderly, OneMoves, Calm, MayLinger, Still
  <2>4. Told(t)
    BY <2>1 DEF Good, Told, Applied
  <2> QED
    BY <1>1, <2>2, <2>3, <2>4 DEF Good
<1> QED
  BY <1>2, <1>3

\* The coordinator's poll: the abort takes the mission's ownership and leaves the latch.
LEMMA CoordPollSafe ==
  ASSUME IInv, CoordPoll
  PROVE  Safe
<1> DEFINE s == IF co.abort THEN AbortTaken(Now) ELSE Now
           t == IF s.co.stop = "none" THEN s ELSE Stopped(s)
           c == [t.co EXCEPT !.owner = "NONE"]
           u == [t EXCEPT !.co = c]
           free == t.co.owner = "MANUAL" /\ t.co.stop = "none" /\ ~InMotion(t)
                     /\ t.k.state # "active"
<1>1. /\ pc = "coord" /\ pc' = "subflow" /\ busy' = busy /\ job' = job /\ grip' = grip
      /\ Become(IF free THEN [t EXCEPT !.co.owner = "NONE"] ELSE t)
  BY DEF CoordPoll, Rest
<1>2. /\ co \in CoType /\ job \in JobType /\ Now \in FlowMachine /\ Attended(Now)
      /\ Good(World) /\ ShutOut /\ GripKnown
  BY WorldTypes DEF IInv
<1>3. /\ s \in FlowMachine /\ s.sub = sub /\ s.k = k /\ s.busy = busy /\ Calm(Now, s)
      /\ co.abort =>
           /\ ~AlignActive(s) /\ s.co.latch /\ s.co.owner = "NONE"
           /\ Tracked(Now) /\ Active(sub) => Tracked(s)
      /\ ~co.abort => s.co = co /\ s.align = align
  <2>1. Calm(Now, Now)
    BY DEF Calm
  <2>2. CASE co.abort
    BY <1>2, <2>2, NowIs, AbortTakenThis
  <2>3. CASE ~co.abort
    BY <1>2, <2>1, <2>3, NowIs
  <2> QED
    BY <2>2, <2>3
<1> HIDE DEF s
<1>4. /\ t \in FlowMachine /\ t.sub = sub /\ t.k = k /\ t.busy = busy /\ Calm(s, t)
      /\ t.align = s.align /\ t.co.owner = s.co.owner /\ t.co.latch = s.co.latch
  <2>1. Calm(s, s)
    BY DEF Calm
  <2>2. CASE s.co.stop = "none"
    BY <1>3, <2>1, <2>2
  <2>3. CASE s.co.stop # "none"
    BY <1>3, <2>3, StoppedThis
  <2> QED
    BY <2>2, <2>3
<1> HIDE DEF t
<1>5. c \in CoType /\ c.owner = "NONE" /\ c.latch = t.co.latch
  BY <1>4 DEF FlowMachine, CoType
<1>6. [t EXCEPT !.co.owner = "NONE"] = u
  BY <1>4 DEF FlowMachine, CoType
<1> HIDE DEF c
<1>7. /\ u \in FlowMachine /\ u.sub = t.sub /\ u.k = t.k /\ u.busy = t.busy /\ u.co = c
      /\ u.align = t.align /\ u.axis = t.axis
  BY <1>4, <1>5 DEF FlowMachine
<1> HIDE DEF u
<1> DEFINE v == IF free THEN u ELSE t
<1>8. /\ v \in FlowMachine /\ v.sub = sub /\ v.k = k /\ v.busy = busy /\ v.axis = t.axis
      /\ v.align = s.align /\ v.co.latch = s.co.latch
      /\ v.co.owner = s.co.owner \/ (s.co.owner = "MANUAL" /\ v.co.owner = "NONE")
  BY <1>4, <1>5, <1>7
<1>9. Become(v)
  BY <1>1, <1>6
<1> HIDE DEF v
<1>10. /\ World' \in MissionMachine
       /\ co' = v.co /\ axis' = t.axis /\ sub' = sub /\ align' = s.align /\ k' = k
  BY <1>1, <1>2, <1>8, <1>9, BecomeFlow
<1>11. \A a \in Axes : axis'[a] = "moving" => s.axis[a] = "moving" /\ axis[a] = "moving"
  BY <1>3, <1>4, <1>10, NowIs DEF Calm, Moves
<1>12. CASE ~co.abort
  <2>1. ShutOut'
    BY <1>1, <1>2, <1>3, <1>8, <1>10, <1>12 DEF ShutOut
  <2>2. co.latch => co'.latch
    BY <1>3, <1>8, <1>10, <1>12
  <2>3. co'.owner = co.owner \/ (co.owner # "MISSION" /\ co'.owner # "MISSION")
    BY <1>3, <1>8, <1>10, <1>12
  <2>4. align' = align
    BY <1>3, <1>10, <1>12
  <2> QED
    BY <1>1, <1>10, <1>11, <2>1, <2>2, <2>3, <2>4, CalmSafe
<1>13. CASE co.abort
  <2> DEFINE w == World
             x == World'
  <2>1. /\ x \in MissionMachine /\ x.sub = w.sub /\ x.job = w.job /\ x.k = w.k /\ x.co.latch
        /\ x.co.owner # "MISSION" /\ Good(w) /\ Calm(w, x)
    <3>1. co'.latch /\ co'.owner # "MISSION"
      BY <1>3, <1>8, <1>10, <1>13
    <3>2. Calm(w, x)
      BY <1>11, WorldIs, WorldPrime DEF Calm, Moves
    <3> QED
      BY <1>1, <1>2, <1>10, <3>1, <3>2, WorldIs, WorldPrime
  <2>2. ~AlignActive(x)
    BY <1>3, <1>10, <1>13, WorldPrime DEF AlignActive
  <2>3. Active(w.sub) /\ Tracked(w) => Tracked(x)
    <3>1. Tracked(w) <=> Tracked(Now)
      BY WorldIs, NowIs, Transfer
    <3>2. Tracked(s) => Tracked(x)
      BY <1>3, <1>10, <1>11, WorldPrime DEF Tracked, Moves
    <3> QED
      BY <1>3, <1>13, <3>1, <3>2, WorldIs
  <2>4. GripKnown'
    BY <1>1, <1>2, <1>10 DEF GripKnown
  <2>5. ShutOut'
    BY <2>1, WorldPrime DEF ShutOut
  <2> HIDE DEF w, x
  <2>6. Good(x)
    BY <2>1, <2>2, <2>3, CutGood
  <2> QED
    BY <2>1, <2>4, <2>5, <2>6 DEF Safe, w, x
<1> QED
  BY <1>12, <1>13

\* The coordinator's emergency poll: the latch comes before the mission loses its ownership.
LEMMA EmergencySafe ==
  ASSUME IInv, Emergency
  PROVE  Safe
<1> DEFINE c == [co EXCEPT !.latch = TRUE, !.stop = "begun"]
           e == [Now EXCEPT !.co = c]
           s == IF co.latch THEN Now ELSE e
           t == Stopped(s)
<1>1. /\ co \in CoType /\ job \in JobType /\ Now \in FlowMachine /\ pc = "coord" /\ co.abort
      /\ busy' = busy /\ job' = job /\ pc' = pc /\ grip' = grip
  BY WorldTypes DEF IInv, Emergency, Rest
<1>2. /\ c \in CoType /\ c.owner = co.owner /\ c.latch = TRUE /\ c.abort = co.abort
  BY <1>1 DEF CoType
<1>3. [Now EXCEPT !.co.latch = TRUE, !.co.stop = "begun"] = e
  BY <1>1, NowIs DEF FlowMachine, CoType
<1>4. Become(t)
  BY <1>3 DEF Emergency
<1> HIDE DEF c
<1>5. /\ e \in FlowMachine /\ e.sub = sub /\ e.align = align /\ e.k = k /\ e.busy = busy
      /\ e.axis = axis /\ e.co = c
  BY <1>1, <1>2, NowIs DEF FlowMachine
<1> HIDE DEF e
<1>6. /\ s \in FlowMachine /\ s.sub = sub /\ s.align = align /\ s.k = k /\ s.busy = busy
      /\ s.axis = axis /\ s.co.owner = co.owner /\ s.co.latch = TRUE /\ s.co.abort = TRUE
  <2>1. (co.latch = TRUE \/ co.latch = FALSE) /\ co.abort = TRUE
    BY <1>1 DEF CoType
  <2> QED
    BY <1>1, <1>2, <1>5, <2>1, NowIs
<1> HIDE DEF s
<1>7. /\ t \in FlowMachine /\ t.sub = sub /\ t.align = align /\ t.k = k /\ t.busy = busy
      /\ Calm(s, t) /\ t.co.owner = co.owner /\ t.co.latch = TRUE /\ t.co.abort = TRUE
  BY <1>6, StoppedThis
<1> HIDE DEF t
<1>8. /\ World' \in MissionMachine
      /\ co' = t.co /\ axis' = t.axis /\ sub' = sub /\ align' = align /\ k' = k
  BY <1>1, <1>4, <1>7, BecomeFlow
<1>9. \A a \in Axes : axis'[a] = "moving" => axis[a] = "moving"
  BY <1>6, <1>7, <1>8 DEF Calm, Moves
<1>10. ShutOut'
  BY <1>1, <1>7, <1>8 DEF ShutOut
<1> QED
  BY <1>1, <1>7, <1>8, <1>9, <1>10, CalmSafe

\* The polls of the pass.
LEMMA SubflowSafe ==
  ASSUME IInv, NEW late \in BOOLEAN, SubflowPoll(late)
  PROVE  Safe
<1>1. Good(World) /\ ShutOut /\ GripKnown /\ pc = "subflow" /\ grip' = grip
  BY DEF IInv, SubflowPoll, Rest
<1>2. /\ Good(World') /\ (co.latch => Calm(Now, Now'))
      /\ co'.latch = co.latch
      /\ co'.owner = co.owner \/ co'.owner = "NONE"
      /\ k' = k \/ k'.state = "active"
  BY <1>1, SubflowGood
<1>3. ShutOut'
  BY <1>1, <1>2 DEF ShutOut
<1>4. GripKnown'
  BY <1>1, <1>2 DEF GripKnown
<1>5. co.latch => Calm(World, World')
  BY <1>2 DEF World, Now, Calm, Moves
<1> QED
  BY <1>2, <1>3, <1>4, <1>5 DEF Safe

\* The alignment, which an abort has already ended.
LEMMA VisionSafe ==
  ASSUME IInv, NEW late \in BOOLEAN, VisionPoll(late)
  PROVE  Safe
<1>1. Good(World) /\ ShutOut /\ GripKnown /\ pc = "align" /\ grip' = grip
  BY DEF IInv, VisionPoll, Rest
<1>2. Good(World') /\ (co.latch => Calm(Now, Now')) /\ co' = co /\ k' = k
  BY <1>1, VisionGood
<1>3. ShutOut'
  BY <1>1, <1>2 DEF ShutOut
<1>4. GripKnown'
  BY <1>1, <1>2 DEF GripKnown
<1>5. co.latch => Calm(World, World')
  BY <1>2 DEF World, Now, Calm, Moves
<1> QED
  BY <1>2, <1>3, <1>4, <1>5 DEF Safe

\* The mission task, which cannot take the axes back after an abort.
LEMMA TaskSafe ==
  ASSUME IInv, NEW late \in BOOLEAN, NEW expired \in BOOLEAN, TaskPoll(late, expired)
  PROVE  Safe
<1>1. Good(World) /\ ShutOut /\ GripKnown /\ pc = "task" /\ grip' = grip
  BY DEF IInv, TaskPoll, Rest
<1>2. /\ Good(World') /\ Calm(World, World') /\ k' = k
      /\ co'.latch = co.latch
      /\ co'.owner = "MISSION" => ~co.latch \/ co.owner = "MISSION"
  BY <1>1, TaskGood
<1>3. ShutOut'
  BY <1>1, <1>2 DEF ShutOut
<1>4. GripKnown'
  BY <1>1, <1>2 DEF GripKnown
<1> QED
  BY <1>2, <1>3, <1>4 DEF Safe

\* A step that keeps to the types and changes neither the coordinator's state nor the
\* subflow's.
LEMMA StillSafe ==
  ASSUME IInv, World' \in MissionMachine, pc' = pc, co' = co, sub' = sub, align' = align,
         \A a \in Axes : axis'[a] = "moving" => axis[a] = "moving",
         \/ k' = k /\ grip' = grip
         \/ /\ k.state = "active"
            /\ k'.state = "applied" /\ k'.what \in GripTypes => grip' = Position(k'.what),
         job'.task = job.task, job'.state = job.state, job'.started = job.started,
         job'.payload = job.payload \/ job.state \in Resting
  PROVE  Safe
<1>1. ShutOut'
  BY DEF IInv, ShutOut
<1> QED
  BY <1>1, CalmSafe

\* The machine's state is put together from its parts.
LEMMA WorldOf ==
  ASSUME co' \in CoType, axis' \in [Axes -> AxisStates], news' \in BOOLEAN, sub' \in SubType,
         align' \in [state : AlignStates, why : AlignFaults], k' \in CommandType,
         busy' \in SUBSET {"XY", "Z"}, job' \in JobType
  PROVE  World' \in MissionMachine
BY DEF World, MissionMachine

\* An axis comes to rest.
LEMMA AxisEndsSafe ==
  ASSUME IInv, NEW a \in Axes, AxisEnds(a)
  PROVE  Safe
<1>1. Good(World)
  BY DEF IInv
<1>2. /\ pc' = pc /\ grip' = grip /\ co' = co /\ news' = news /\ sub' = sub
      /\ align' = align /\ k' = k /\ busy' = busy /\ job' = job
      /\ axis' = [axis EXCEPT ![a] = IF a \in Unhomed THEN "unref" ELSE "idle"]
  BY DEF AxisEnds, Between, Rest
<1>3. /\ axis' \in [Axes -> AxisStates]
      /\ \A b \in Axes : axis'[b] = "moving" => axis[b] = "moving"
  BY <1>1, <1>2, WorldTypes DEF AxisStates
<1>4. World' \in MissionMachine
  BY <1>1, <1>2, <1>3, WorldTypes, WorldOf
<1> QED
  BY <1>2, <1>3, <1>4, StillSafe

\* An axis fails.
LEMMA AxisFaultsSafe ==
  ASSUME IInv, NEW a \in Axes, AxisFaults(a)
  PROVE  Safe
<1>1. Good(World)
  BY DEF IInv
<1>2. /\ pc' = pc /\ grip' = grip /\ co' = co /\ news' = (news \/ a = "Z") /\ sub' = sub
      /\ align' = align /\ k' = k /\ busy' = busy /\ job' = job
      /\ axis' = [axis EXCEPT ![a] = "fault"]
  BY DEF AxisFaults, Between
<1>3. /\ axis' \in [Axes -> AxisStates]
      /\ \A b \in Axes : axis'[b] = "moving" => axis[b] = "moving"
  BY <1>1, <1>2, WorldTypes DEF AxisStates
<1>4. news' \in BOOLEAN
  BY <1>2
<1>5. World' \in MissionMachine
  BY <1>1, <1>2, <1>3, <1>4, WorldTypes, WorldOf
<1> QED
  BY <1>2, <1>3, <1>5, StillSafe

\* A line is taken, or free again.
LEMMA LinesSafe ==
  ASSUME IInv, NEW line \in {"XY", "Z"}, LineBusy(line) \/ LineFree(line)
  PROVE  Safe
<1>1. Good(World)
  BY DEF IInv
<1>2. /\ pc' = pc /\ grip' = grip /\ co' = co /\ news' = news /\ sub' = sub /\ axis' = axis
      /\ align' = align /\ k' = k /\ job' = job
      /\ busy' = busy \cup {line} \/ busy' = busy \ {line}
  BY DEF LineBusy, LineFree, Between, Rest
<1>3. busy' \in SUBSET {"XY", "Z"}
  BY <1>1, <1>2, WorldTypes
<1>4. World' \in MissionMachine
  BY <1>1, <1>2, <1>3, WorldTypes, WorldOf
<1> QED
  BY <1>2, <1>4, StillSafe

\* A command is answered, or not: an answer that it is applied means that it is done.
LEMMA C552SettlesSafe ==
  ASSUME IInv, C552Settles
  PROVE  Safe
<1>1. Good(World)
  BY DEF IInv
<1>2. PICK state \in {"applied", "failed"}, done \in BOOLEAN :
         /\ state = "applied" => done
         /\ k' = [k EXCEPT !.state = state]
         /\ grip' = IF done /\ k.what \in GripTypes THEN Position(k.what) ELSE grip
  BY DEF C552Settles
<1>3. /\ pc' = pc /\ co' = co /\ news' = news /\ sub' = sub /\ axis' = axis
      /\ align' = align /\ busy' = busy /\ job' = job /\ k.state = "active"
  BY DEF C552Settles, Between
<1>4. k' \in CommandType /\ k'.state = state /\ k'.what = k.what
  BY <1>1, <1>2, WorldTypes DEF CommandType
<1>5. k'.state = "applied" /\ k'.what \in GripTypes => grip' = Position(k'.what)
  BY <1>2, <1>4
<1>6. World' \in MissionMachine
  BY <1>1, <1>3, <1>4, WorldTypes, WorldOf
<1> QED
  BY <1>3, <1>5, <1>6, StillSafe

\* The requests that only set a flag of the mission's record.
LEMMA RequestsSafe ==
  ASSUME IInv,
         \/ \E t \in Tasks : RequestStart(t)
         \/ RequestCancel
         \/ \E payload \in {"EMPTY", "HELD"} : SetPayload(payload)
  PROVE  Safe
<1>1. Good(World)
  BY DEF IInv
<1>2. UNCHANGED <<flowvars, grip>> /\ pc' = pc
  BY DEF RequestStart, RequestCancel, SetPayload, Between
<1>3. /\ grip' = grip /\ co' = co /\ news' = news /\ sub' = sub /\ axis' = axis
      /\ align' = align /\ k' = k /\ busy' = busy
  BY <1>2 DEF flowvars
<1>4. /\ job' \in JobType
      /\ job'.task = job.task /\ job'.state = job.state /\ job'.started = job.started
      /\ job'.payload = job.payload \/ job.state \in Resting
  <2>1. job \in JobType
    BY <1>1, WorldTypes
  <2>2. CASE \E t \in Tasks : RequestStart(t)
    BY <2>1, <2>2, MissionAssumption DEF RequestStart, JobType
  <2>3. CASE RequestCancel
    BY <2>1, <2>3 DEF RequestCancel, JobType
  <2>4. CASE \E payload \in {"EMPTY", "HELD"} : SetPayload(payload)
    BY <2>1, <2>4 DEF SetPayload, MissionActive, JobType
  <2> QED
    BY <2>2, <2>3, <2>4
<1>5. World' \in MissionMachine
  BY <1>1, <1>3, <1>4, WorldTypes, WorldOf
<1> QED
  BY <1>2, <1>3, <1>4, <1>5, StillSafe

\* An abort is asked for.
LEMMA RequestAbortSafe ==
  ASSUME IInv, RequestAbort
  PROVE  Safe
<1>1. Good(World) /\ ShutOut
  BY DEF IInv
<1>2. /\ pc' = pc /\ grip' = grip /\ news' = news /\ sub' = sub /\ axis' = axis
      /\ align' = align /\ k' = k /\ busy' = busy /\ job' = job
      /\ co' = [co EXCEPT !.abort = TRUE]
  BY DEF RequestAbort
<1>3. co' \in CoType /\ co'.owner = co.owner /\ co'.latch = co.latch /\ co'.abort
  BY <1>1, <1>2, WorldTypes DEF CoType
<1>4. World' \in MissionMachine
  BY <1>1, <1>2, <1>3, WorldTypes, WorldOf
<1>5. ShutOut'
  BY <1>1, <1>2, <1>3 DEF ShutOut
<1> QED
  BY <1>2, <1>3, <1>4, <1>5, CalmSafe

\* An axis is stopped by the operator.
LEMMA AxisStopSafe ==
  ASSUME IInv, NEW a \in Axes, AxisStop(a)
  PROVE  Safe
<1> DEFINE t == StopThese(Now, {a})
<1>1. Good(World) /\ job \in JobType /\ Now \in FlowMachine
  BY WorldTypes DEF IInv
<1>2. /\ pc' = pc /\ grip' = grip /\ busy' = busy /\ Become(t)
      /\ job' = [job EXCEPT !.cancel = @ \/ (co.owner = "MISSION" /\ MissionActive)]
  BY DEF AxisStop, Between
<1>3. Stops(Now, t, {a})
  <2>1. Now \in Machine /\ {a} \in SUBSET Axes
    BY <1>1 DEF Machine
  <2> QED
    BY <2>1, StopThis
<1> HIDE DEF t
<1>4. /\ t \in FlowMachine /\ t.co = co /\ t.sub = sub /\ t.align = align /\ t.k = k
      /\ t.busy = busy /\ Calm(Now, t)
  BY <1>1, <1>3, NowIs DEF Stops, SameKind
<1>5. /\ job' \in JobType
      /\ job'.task = job.task /\ job'.state = job.state /\ job'.started = job.started
      /\ job'.payload = job.payload
  <2>1. (job.cancel \/ (co.owner = "MISSION" /\ MissionActive)) \in BOOLEAN
    OBVIOUS
  <2> QED
    BY <1>1, <1>2, <2>1 DEF JobType
<1>6. /\ World' \in MissionMachine
      /\ co' = co /\ axis' = t.axis /\ sub' = sub /\ align' = align /\ k' = k
  BY <1>2, <1>4, <1>5, BecomeFlow
<1>7. \A b \in Axes : axis'[b] = "moving" => axis[b] = "moving"
  BY <1>4, <1>6, NowIs DEF Calm, Moves
<1> QED
  BY <1>2, <1>5, <1>6, <1>7, StillSafe

\* What is done while no mission is under way is safe if it does not leave the subflow's
\* budgets, or an alignment without its subflow, and if nothing has latched.
LEMMA IdleSafe ==
  ASSUME World' \in MissionMachine, Within(sub'), Attended(World'), job'.state \in Resting,
         ~co'.latch, ~co.latch, GripKnown'
  PROVE  Safe
<1> DEFINE t == World'
<1>1. t \in MissionMachine /\ Within(t.sub) /\ Attended(t) /\ t.job.state \in Resting
  BY WorldPrime
<1> HIDE DEF t
<1>2. Good(t)
  BY <1>1, RestGood
<1> QED
  BY <1>2 DEF Safe, ShutOut, t

\* The shell cancels the subflow that it has started.
LEMMA CancelFlowSafe ==
  ASSUME IInv, CancelFlow
  PROVE  Safe
<1>1. /\ Good(World) /\ ShutOut /\ GripKnown /\ Within(sub) /\ Attended(World)
      /\ sub \in SubType /\ job.state \in Resting
  BY WorldTypes DEF IInv, CancelFlow, MissionActive
<1>2. /\ pc' = pc /\ grip' = grip /\ co' = co /\ news' = news /\ axis' = axis
      /\ align' = align /\ k' = k /\ busy' = busy /\ job' = job
      /\ sub' = [sub EXCEPT !.cancel = TRUE]
  BY DEF CancelFlow, Between, Rest
<1>3. /\ sub' \in SubType /\ sub'.type = sub.type /\ sub'.state = sub.state
      /\ sub'.stage = sub.stage /\ sub'.attempt = sub.attempt /\ sub'.stable = sub.stable
  BY <1>1, <1>2 DEF SubType
<1>4. World' \in MissionMachine
  BY <1>1, <1>2, <1>3, WorldTypes, WorldOf
<1>5. Within(sub')
  BY <1>1, <1>3 DEF Within, Active
<1> DEFINE s == World
           t == World'
<1>6. /\ t \in MissionMachine /\ t.sub = sub' /\ t.align = s.align /\ t.co = s.co
      /\ s.sub = sub /\ t.job.state \in Resting /\ Attended(s)
  BY <1>1, <1>2, <1>4, WorldIs, WorldPrime
<1> HIDE DEF s, t
<1>7. Attended(t)
  BY <1>3, <1>6 DEF Attended, AlignActive
<1>8. Good(t)
  BY <1>5, <1>6, <1>7, RestGood
<1>9. ShutOut' /\ GripKnown'
  BY <1>1, <1>2 DEF ShutOut, GripKnown
<1>10. Calm(World, World')
  BY <1>2, WorldIs, WorldPrime DEF Calm, Moves
<1> QED
  BY <1>8, <1>9, <1>10 DEF Safe, t

\* The shell starts a subflow.
LEMMA StartFlowSafe ==
  ASSUME IInv, NEW type \in Flows, NEW task \in Tasks, StartFlow(type, task)
  PROVE  Safe
<1> DEFINE f == Fresh(type, task, sub.retain, sub.recorded)
           c == [co EXCEPT !.owner = "MISSION"]
           t == [Now EXCEPT !.co = c, !.news = FALSE, !.sub = f]
<1>1. /\ Good(World) /\ GripKnown /\ Attended(World)
      /\ job \in JobType /\ Now \in FlowMachine /\ co \in CoType /\ sub \in SubType
      /\ job.state \in Resting
  BY WorldTypes DEF IInv, StartFlow, MissionActive
<1>2. /\ grip' = grip /\ busy' = busy /\ job' = job
      /\ Become(Begun(Now, type, task)) /\ MayStart(Now, type)
  BY DEF StartFlow
<1>3. ~co.latch /\ ~Active(sub)
  BY <1>2, NowIs DEF MayStart, MayBegin, MayAcquire
<1>4. ~AlignActive(World)
  BY <1>1, <1>3, WorldIs DEF Attended, Active
<1>5. Begun(Now, type, task) = t
  BY <1>1, NowIs DEF Begun, Fresh, FlowMachine
<1>6. f \in SubType /\ Within(f)
  <2>1. /\ type \in FlowTypes /\ task \in MissionTasks
        /\ sub.retain \in BOOLEAN /\ sub.recorded \in BOOLEAN
    BY <1>1, MissionAssumption DEF SubType
  <2> QED
    BY <2>1, FreshThis
<1>7. c \in CoType /\ c.latch = co.latch
  BY <1>1 DEF CoType
<1> HIDE DEF f, c
<1>8. /\ t \in FlowMachine /\ t.co = c /\ t.axis = axis /\ t.sub = f /\ t.align = align
      /\ t.k = k /\ t.busy = busy
  BY <1>1, <1>6, <1>7, NowIs DEF FlowMachine
<1> HIDE DEF t
<1>9. /\ World' \in MissionMachine
      /\ co' = c /\ axis' = axis /\ sub' = f /\ align' = align /\ k' = k
  BY <1>1, <1>2, <1>5, <1>8, BecomeFlow
<1>10. Attended(World')
  BY <1>4, <1>9, WorldIs, WorldPrime DEF Attended, AlignActive
<1>11. GripKnown'
  BY <1>1, <1>2, <1>9 DEF GripKnown
<1> QED
  BY <1>1, <1>2, <1>3, <1>6, <1>7, <1>9, <1>10, <1>11, IdleSafe

\* A manual command comes while no mission is under way.
LEMMA ManualIsIdle ==
  ASSUME Good(World), ~co.latch, co.owner \in {"NONE", "MANUAL"}
  PROVE  job.state \in Resting /\ ~AlignActive(World)
BY WorldIs DEF Good, Owned, Running, Attended

\* A manual move.
LEMMA ManualMoveSafe ==
  ASSUME IInv, NEW a \in Axes, ManualMove(a)
  PROVE  Safe
<1> DEFINE x == [axis EXCEPT ![a] = "moving"]
           c == [co EXCEPT !.owner = "MANUAL"]
           t == [Now EXCEPT !.co = c, !.axis = x]
<1>1. /\ Good(World) /\ GripKnown /\ Within(sub)
      /\ job \in JobType /\ Now \in FlowMachine /\ co \in CoType
      /\ axis \in [Axes -> AxisStates]
  BY WorldTypes DEF IInv
<1>2. /\ grip' = grip /\ busy' = busy /\ job' = job
      /\ ~co.latch /\ co.owner \in {"NONE", "MANUAL"}
      /\ Become([Moved(Now, a) EXCEPT !.co.owner = "MANUAL"])
  BY DEF ManualMove
<1>3. job.state \in Resting /\ ~AlignActive(World)
  BY <1>1, <1>2, ManualIsIdle
<1>4. [Moved(Now, a) EXCEPT !.co.owner = "MANUAL"] = t
  BY <1>1, NowIs DEF Moved, FlowMachine, CoType
<1>5. x \in [Axes -> AxisStates] /\ c \in CoType /\ c.latch = co.latch
  BY <1>1 DEF AxisStates, CoType
<1> HIDE DEF x, c
<1>6. /\ t \in FlowMachine /\ t.co = c /\ t.sub = sub /\ t.align = align
      /\ t.k = k /\ t.busy = busy
  BY <1>1, <1>5, NowIs DEF FlowMachine
<1> HIDE DEF t
<1>7. /\ World' \in MissionMachine
      /\ co' = c /\ sub' = sub /\ align' = align /\ k' = k
  BY <1>1, <1>2, <1>4, <1>6, BecomeFlow
<1>8. Attended(World')
  BY <1>3, <1>7, WorldIs, WorldPrime DEF Attended, AlignActive
<1>9. GripKnown'
  BY <1>1, <1>2, <1>7 DEF GripKnown
<1> QED
  BY <1>1, <1>2, <1>3, <1>5, <1>7, <1>8, <1>9, IdleSafe

\* A manual gripper command.
LEMMA ManualGripSafe ==
  ASSUME IInv, NEW what \in GripTypes, ManualGrip(what)
  PROVE  Safe
<1> DEFINE m == [what |-> what, state |-> "active"]
           c == [co EXCEPT !.owner = "MANUAL"]
           t == [Now EXCEPT !.co = c, !.k = m]
<1>1. /\ Good(World) /\ Within(sub) /\ job \in JobType /\ Now \in FlowMachine /\ co \in CoType
  BY WorldTypes DEF IInv
<1>2. /\ grip' = grip /\ busy' = busy /\ job' = job
      /\ ~co.latch /\ co.owner \in {"NONE", "MANUAL"}
      /\ Become([Now EXCEPT !.co.owner = "MANUAL", !.k = m])
  BY DEF ManualGrip
<1>3. job.state \in Resting /\ ~AlignActive(World)
  BY <1>1, <1>2, ManualIsIdle
<1>4. m \in CommandType /\ m.state = "active" /\ c \in CoType /\ c.latch = co.latch
  BY <1>1 DEF CommandType, CoType
<1> HIDE DEF m
<1>5. [Now EXCEPT !.co.owner = "MANUAL", !.k = m] = t
  BY <1>1, NowIs DEF FlowMachine, CoType
<1> HIDE DEF c
<1>6. /\ t \in FlowMachine /\ t.co = c /\ t.sub = sub /\ t.align = align
      /\ t.k = m /\ t.busy = busy
  BY <1>1, <1>4, NowIs DEF FlowMachine
<1> HIDE DEF t
<1>7. /\ World' \in MissionMachine
      /\ co' = c /\ sub' = sub /\ align' = align /\ k' = m
  BY <1>1, <1>2, <1>5, <1>6, BecomeFlow
<1>8. Attended(World')
  BY <1>3, <1>7, WorldIs, WorldPrime DEF Attended, AlignActive
<1>9. GripKnown'
  BY <1>4, <1>7 DEF GripKnown
<1> QED
  BY <1>1, <1>2, <1>3, <1>4, <1>7, <1>8, <1>9, IdleSafe

-----------------------------------------------------------------------------
(* The invariant, and what follows from it.                                *)

\* Every step of the mission keeps the inductive invariant's part about the machine.
LEMMA NextSafe ==
  ASSUME IInv, Next
  PROVE  Safe
<1>1. CASE Pass
  BY <1>1, CoordPollSafe, SubflowSafe, TaskSafe, VisionSafe DEF Pass
<1>2. CASE Devices
  BY <1>2, AxisEndsSafe, AxisFaultsSafe, LinesSafe, C552SettlesSafe DEF Devices
<1>3. CASE Operator
  <2>1. CASE Emergency \/ RequestAbort \/ CancelFlow
    BY <2>1, EmergencySafe, RequestAbortSafe, CancelFlowSafe
  <2>2. CASE \/ RequestCancel
             \/ \E t \in Tasks : RequestStart(t)
             \/ \E payload \in {"EMPTY", "HELD"} : SetPayload(payload)
    BY <2>2, RequestsSafe
  <2>3. CASE \E a \in Axes : AxisStop(a) \/ ManualMove(a)
    BY <2>3, AxisStopSafe, ManualMoveSafe
  <2>4. CASE \E type \in Flows, task \in Tasks : StartFlow(type, task)
    BY <2>4, StartFlowSafe
  <2>5. CASE \E what \in GripTypes : ManualGrip(what)
    BY <2>5, ManualGripSafe
  <2> QED
    BY <1>3, <2>1, <2>2, <2>3, <2>4, <2>5 DEF Operator
<1> QED
  BY <1>1, <1>2, <1>3 DEF Next

\* Every step keeps the pass, the gripper and the bounds within their types.
LEMMA NextTypes ==
  ASSUME IInv, Next
  PROVE  /\ pc' \in {"coord", "subflow", "task", "align"}
         /\ grip' \in {"open", "closed"}
         /\ requests' \in 0 .. MaxRequests /\ trouble' \in 0 .. MaxTrouble
<1>1. /\ pc \in {"coord", "subflow", "task", "align"}
      /\ grip \in {"open", "closed"}
      /\ requests \in 0 .. MaxRequests /\ trouble \in 0 .. MaxTrouble
      /\ MaxRequests \in Nat /\ MaxTrouble \in Nat
  BY MissionAssumption DEF IInv
<1>2. CASE Pass
  BY <1>1, <1>2 DEF Pass, CoordPoll, SubflowPoll, TaskPoll, VisionPoll, Rest
<1>3. CASE Devices
  <2>1. CASE C552Settles
    BY <1>1, <2>1 DEF C552Settles, Between, Position
  <2>2. CASE ~C552Settles
    BY <1>1, <1>3, <2>2
       DEF Devices, Between, Rest, AxisEnds, AxisFaults, LineBusy, LineFree
  <2> QED
    BY <2>1, <2>2
<1>4. CASE Operator
  <2>1. /\ pc' = pc /\ grip' = grip /\ trouble' = trouble
        /\ requests' = requests \/ (requests < MaxRequests /\ requests' = requests + 1)
    <3>1. CASE Emergency \/ RequestAbort \/ CancelFlow
      BY <3>1 DEF Emergency, RequestAbort, CancelFlow, Between, Rest, Request
    <3>2. CASE RequestCancel \/ \E t \in Tasks : RequestStart(t)
      BY <3>2 DEF RequestCancel, RequestStart, Between, Request
    <3>3. CASE \E payload \in {"EMPTY", "HELD"} : SetPayload(payload)
      BY <3>3 DEF SetPayload, Between, Request
    <3>4. CASE \E a \in Axes : AxisStop(a) \/ ManualMove(a)
      BY <3>4 DEF AxisStop, ManualMove, Between, Request
    <3>5. CASE \E type \in Flows, task \in Tasks : StartFlow(type, task)
      BY <3>5 DEF StartFlow, Between, Request
    <3>6. CASE \E what \in GripTypes : ManualGrip(what)
      BY <3>6 DEF ManualGrip, Between, Request
    <3> QED
      BY <1>4, <3>1, <3>2, <3>3, <3>4, <3>5, <3>6 DEF Operator
  <2> QED
    BY <1>1, <2>1
<1> QED
  BY <1>2, <1>3, <1>4 DEF Next

\* The program starts with the machine at rest.
LEMMA InitIInv == Init => IInv
<1> SUFFICES ASSUME Init PROVE IInv
  OBVIOUS
<1>1. /\ co = [owner |-> "NONE", latch |-> FALSE, abort |-> FALSE, stop |-> "none"]
      /\ axis = [a \in Axes |-> IF a \in Unhomed THEN "unref" ELSE "idle"]
      /\ news = FALSE /\ sub = NoFlow /\ align = [state |-> "off", why |-> "NONE"]
      /\ k = [what |-> "NONE", state |-> "idle"] /\ busy = {}
  BY DEF Init, FlowInit
<1>2. PICK payload \in {"EMPTY", "HELD"} :
        job = [task |-> "RED_PICK", state |-> "IDLE", payload |-> payload, restarts |-> 0,
               started |-> FALSE, cancel |-> FALSE, issued |-> FALSE, start |-> "NONE"]
  BY DEF Init
<1>3. job \in JobType /\ job.state = "IDLE"
  <2>1. 0 \in 0 .. MaxRestarts
    BY MissionAssumption
  <2> QED
    BY <1>2, <2>1 DEF JobType, MissionStates, Resting, MissionTasks
<1>4. co \in CoType /\ co.latch = FALSE
  BY <1>1 DEF CoType
<1>5. axis \in [Axes -> AxisStates] /\ news \in BOOLEAN /\ busy \in SUBSET {"XY", "Z"}
  BY <1>1 DEF AxisStates
<1>6. align \in [state : AlignStates, why : AlignFaults] /\ align.state = "off"
  BY <1>1 DEF AlignStates, AlignFaults
<1>7. k \in CommandType /\ k.state = "idle"
  BY <1>1 DEF CommandType
<1>8. NoFlow \in SubType /\ NoFlow.state = "IDLE"
  <2>1. /\ 0 \in 0 .. MaxAttempts /\ 0 \in 0 .. MaxRecoveries /\ 0 \in 0 .. 3
        /\ 0 \in 0 .. StableSamples /\ MaxSegments \in 0 .. MaxSegments
    BY FlowAssumption
  <2> QED
    BY <2>1 DEF NoFlow, SubType, MissionTasks, FlowStates, Reasons
<1>9. World \in MissionMachine
  BY <1>1, <1>3, <1>4, <1>5, <1>6, <1>7, <1>8 DEF World, MissionMachine
<1>10. Within(sub) /\ Attended(World)
  BY <1>1, <1>6, <1>8, WorldIs DEF Within, Attended, Active, AlignActive
<1> DEFINE s == World
<1>11. s \in MissionMachine /\ Within(s.sub) /\ Attended(s) /\ s.job.state \in Resting
  BY <1>3, <1>9, <1>10, WorldIs DEF Resting
<1> HIDE DEF s
<1>12. Good(s)
  BY <1>11, RestGood
<1>13. /\ pc \in {"coord", "subflow", "task", "align"} /\ grip \in {"open", "closed"}
       /\ requests \in 0 .. MaxRequests /\ trouble \in 0 .. MaxTrouble
  BY MissionAssumption DEF Init
<1> QED
  BY <1>4, <1>7, <1>12, <1>13 DEF IInv, ShutOut, GripKnown, s

\* The invariant is inductive.
LEMMA NextIInv == IInv /\ [Next]_vars => IInv'
<1> SUFFICES ASSUME IInv, [Next]_vars PROVE IInv'
  OBVIOUS
<1>1. CASE Next
  BY <1>1, NextSafe, NextTypes DEF IInv, Safe
<1>2. CASE UNCHANGED vars
  <2>1. /\ co' = co /\ axis' = axis /\ news' = news /\ sub' = sub /\ align' = align /\ k' = k
        /\ busy' = busy /\ job' = job /\ pc' = pc /\ grip' = grip
        /\ requests' = requests /\ trouble' = trouble
    BY <1>2 DEF vars, flowvars
  <2>2. World' = World
    BY <2>1 DEF World
  <2>3. ShutOut' /\ GripKnown'
    BY <2>1 DEF IInv, ShutOut, GripKnown
  <2>4. Good(World')
    BY <2>2 DEF IInv
  <2> QED
    BY <2>1, <2>3, <2>4 DEF IInv
<1> QED
  BY <1>1, <1>2

\* The machine is in order in every reachable state, for all budgets and bounds, all sets of
\* missions and subflows, and all axes that have no reference at the start.
THEOREM Invariance == Spec => []IInv
BY InitIInv, NextIInv, PTL DEF Spec

\* The variables keep to their types, and the attempts, recoveries and restarts to their
\* budgets.
THEOREM TypeCorrect == Spec => []TypeOK
<1>1. IInv => TypeOK
  BY WorldTypes DEF IInv, TypeOK
<1> QED
  BY <1>1, Invariance, PTL

\* A mission under way owns the axes, in every gap between two subflows and through every
\* restart of handle_fault, until it ends or the abort latches.
THEOREM Owns == Spec => []MissionOwns
<1>1. IInv => MissionOwns
  BY WorldIs DEF IInv, Good, Owned, Running, MissionOwns
<1> QED
  BY <1>1, Invariance, PTL

\* The subflow that runs under a mission is the one its state stands for: neither
\* handle_fault nor a cancellation nor the shell leaves another one running beside it.
THEOREM Belonging == Spec => []FlowBelongs
<1>1. IInv => FlowBelongs
  BY WorldIs DEF IInv, Good, Owned, Belongs, Running, FlowBelongs
<1> QED
  BY <1>1, Invariance, PTL

\* No alignment outlives the subflow that runs it.
THEOREM NoOrphan == Spec => []NoOrphanAlign
<1>1. IInv => NoOrphanAlign
  BY WorldTypes, NowIs DEF IInv, Attended, NoOrphanAlign
<1> QED
  BY <1>1, Invariance, PTL

\* A set whose elements are all the same has at most one.
LEMMA AtMostOne ==
  ASSUME NEW S, \A a, b \in S : a = b
  PROVE  Cardinality(S) <= 1
<1>1. CASE S = {}
  BY <1>1, FS_EmptySet
<1>2. CASE S # {}
  <2>1. PICK a : a \in S
    BY <1>2
  <2>2. S = {a}
    BY <2>1
  <2> QED
    BY <2>2, FS_Singleton
<1> QED
  BY <1>1, <1>2

\* A mission moves one axis at a time, also after a fault, a recovery, or a stop of Z that
\* the busy line has swallowed.
THEOREM OneMoving == Spec => []OneAxisMoves
<1>1. IInv => OneAxisMoves
  <2> SUFFICES ASSUME IInv, job.state \notin Resting
               PROVE  Cardinality({a \in Axes : axis[a] = "moving"}) <= 1
    BY DEF OneAxisMoves
  <2> DEFINE S == {a \in Axes : axis[a] = "moving"}
  <2>1. \A a, b \in S : a = b
    BY WorldIs DEF IInv, Good, Orderly, Running, OneMoves, Moves
  <2> QED
    BY <2>1, AtMostOne
<1> QED
  BY <1>1, Invariance, PTL

\* A mission that puts something down holds it in every state up to GRIP_OPEN, over any
\* number of restarts.
THEOREM HoldsToTheEnd == Spec => []PutHolds
<1>1. IInv => PutHolds
  BY WorldIs DEF IInv, Good, Holding, PutHolds
<1> QED
  BY <1>1, Invariance, PTL

\* The payload only changes when a gripper subflow is complete, which knows of the answer to
\* its own command.
LEMMA NextRecords ==
  ASSUME IInv, Next, job.state \notin Resting, job'.payload # job.payload
  PROVE  job'.payload = "HELD" <=> grip = "closed"
<1>1. Good(World) /\ GripKnown /\ job \in JobType
  BY WorldTypes DEF IInv
<1>2. CASE \E late, expired \in BOOLEAN : TaskPoll(late, expired)
  <2>1. /\ job.started /\ sub.state = "COMPLETE" /\ sub.type \in GripTypes
        /\ job'.payload = "HELD" <=> sub.type = "GRIP_CLOSE"
    BY <1>1, <1>2, TaskGood
  <2>2. k.state = "applied" /\ k.what = sub.type
    BY <1>1, <2>1, WorldIs DEF Good, Told, Running, Applied
  <2>3. grip = Position(sub.type)
    BY <1>1, <2>1, <2>2 DEF GripKnown
  <2> QED
    BY <2>1, <2>3 DEF Position
<1>3. CASE ~(\E late, expired \in BOOLEAN : TaskPoll(late, expired))
  <2>1. job'.payload = job.payload
    <3>1. CASE Pass
      BY <1>3, <3>1 DEF Pass, CoordPoll, SubflowPoll, VisionPoll
    <3>2. CASE Devices
      BY <3>2 DEF Devices, AxisEnds, AxisFaults, LineBusy, LineFree, C552Settles
    <3>3. CASE Operator
      <4>1. MissionActive
        BY DEF MissionActive
      <4>2. CASE RequestCancel \/ \E a \in Axes : AxisStop(a)
        BY <1>1, <4>2 DEF RequestCancel, AxisStop, JobType
      <4>3. CASE ~(RequestCancel \/ \E a \in Axes : AxisStop(a))
        BY <3>3, <4>1, <4>3 DEF Operator, Emergency, RequestAbort, CancelFlow, RequestStart,
           SetPayload, StartFlow, ManualMove, ManualGrip
      <4> QED
        BY <4>2, <4>3
    <3> QED
      BY <3>1, <3>2, <3>3 DEF Next
  <2> QED
    BY <2>1
<1> QED
  BY <1>2, <1>3

\* What a mission records of its payload is what the gripper did.
THEOREM TruthfulRecord == Spec => RecordsTruth
<1>1. IInv /\ [Next]_vars =>
        [job.state \notin Resting /\ job'.payload # job.payload =>
           (job'.payload = "HELD" <=> grip = "closed")]_vars
  BY NextRecords
<1> QED
  BY <1>1, Invariance, PTL DEF Spec, RecordsTruth

\* After the abort has latched, no poll, no operator and no answer that comes late sets an
\* axis in motion.
THEOREM LatchIsFinal == Spec => NothingAfterLatch
<1>1. IInv /\ [Next]_vars =>
        [\A a \in Axes : co.latch /\ axis'[a] = "moving" => axis[a] = "moving"]_vars
  <2> SUFFICES ASSUME IInv, Next, NEW a \in Axes, co.latch, axis'[a] = "moving"
               PROVE  axis[a] = "moving"
    OBVIOUS
  <2>1. Calm(World, World')
    BY NextSafe DEF Safe
  <2> QED
    BY <2>1, WorldIs, WorldPrime DEF Calm, Moves
<1> QED
  BY <1>1, Invariance, PTL DEF Spec, NothingAfterLatch
=============================================================================
