------------------------------ MODULE C552Proofs ------------------------------
(* Proofs about C552, for any sensors, timeouts, ages and numbers of commands: the     *)
(* types, what an answer and a frame on the wire are taken for, how long a command may *)
(* last, and what a device that counts as ready is worth.                              *)
EXTENDS C552, Integers, TLAPS

\* The numbers: commands are counted, the board has heard only of those there were, and
\* not yet of one that is still to be sent.
Numbers ==
  /\ command.no = count
  /\ board.heard \subseteq 1 .. count
  /\ wire = Noise \/ wire <= count
  /\ command.state = "TX_PENDING" => command.no \notin board.heard

NumberInv == LinkTypeOK /\ Numbers /\ SentOnce /\ AppliedIsDone

\* A tick that no poll has answered yet.
Slack == IF polled THEN 0 ELSE 1

\* The deadlines: until it is sent a command is as old as its life, afterwards its life
\* is at most the first deadline longer.
Deadlines ==
  /\ command.state = "TX_PENDING" =>
       ~command.sent /\ life = command.age /\ command.age <= AcceptTimeout + 1 + Slack
  /\ command.state = "WAIT_ACCEPTED" =>
       /\ command.sent /\ life <= AcceptTimeout + 2 + command.age
       /\ command.age <= AcceptTimeout + 1 + Slack
  /\ command.state = "WAIT_APPLIED" =>
       /\ command.sent /\ life <= AcceptTimeout + 2 + command.age
       /\ command.age <= ApplyTimeout + 1 + Slack

\* The health of one device: its streak is one of good samples and no longer than the
\* link's; when it is ready it has earned it and the data is young; when the link has been
\* silent too long nothing is left of it.
Healthy(d) ==
  /\ dev[d].streak <= good[d] /\ dev[d].streak <= snap.streak
  /\ dev[d].ready =>
       /\ good[d] = RecoveryFrames /\ snap.online /\ dev[d].age <= StaleAge
       /\ dev[d].age + snap.age <= StaleAge + 1 + Slack
  /\ snap.age > LinkTimeout + 1 + Slack => ~dev[d].ready /\ dev[d].streak = 0

Health == \A d \in Sensors : Healthy(d)

-----------------------------------------------------------------------------
(* The type invariant.                                                     *)

DevType == [age : SampleAges, streak : 0 .. RecoveryFrames, ready : BOOLEAN]
CommandType == [state : CommandStates, no : 0 .. MaxSent, sent : BOOLEAN, age : 0 .. LifeCap]

LEMMA OlderTyped ==
  ASSUME NEW cap \in Nat, NEW age \in 0 .. cap
  PROVE  Older(age, cap) \in 0 .. cap
BY DEF Older

LEMMA CapsTyped == AgeCap \in Nat /\ LifeCap \in Nat
BY LinkAssumption DEF AgeCap, LifeCap

LEMMA LostTyped ==
  ASSUME LinkTypeOK, NEW d \in Sensors
  PROVE  /\ Lost(d) \in DevType
         /\ Lost(d).age = dev[d].age /\ Lost(d).streak = 0 /\ Lost(d).ready = FALSE
<1> DEFINE r == dev[d]
           l == [r EXCEPT !.streak = 0]
<1>1. r \in DevType
  BY DEF LinkTypeOK, DevType
<1>2. 0 \in 0 .. RecoveryFrames
  BY LinkAssumption
<1> HIDE DEF r
<1>3. l \in DevType /\ l.age = r.age /\ l.streak = 0
  BY <1>1, <1>2 DEF DevType
<1> HIDE DEF l
<1>4. /\ [l EXCEPT !.ready = FALSE] \in DevType
      /\ [l EXCEPT !.ready = FALSE].age = r.age
      /\ [l EXCEPT !.ready = FALSE].streak = 0
      /\ [l EXCEPT !.ready = FALSE].ready = FALSE
  BY <1>3 DEF DevType
<1>5. Lost(d) = [l EXCEPT !.ready = FALSE]
  BY DEF Lost, l, r
<1> QED BY <1>4, <1>5 DEF r

LEMMA HealthTyped ==
  ASSUME LinkTypeOK, NEW d \in Sensors, NEW age \in SampleAges
  PROVE  DeviceHealth(d, age) \in DevType
<1>1. dev[d] \in DevType
  BY DEF LinkTypeOK, DevType
<1>2. CASE Usable(age)
  BY <1>1, <1>2, LinkAssumption DEF DeviceHealth, DevType
<1>3. CASE ~Usable(age)
  BY <1>3, LostTyped DEF DeviceHealth, DevType
<1> QED BY <1>2, <1>3

LEMMA SentTyped ==
  ASSUME command \in CommandType
  PROVE  /\ Sent \in CommandType
         /\ Sent.no = command.no /\ Sent.state = command.state /\ Sent.sent = TRUE
         /\ IF command.sent THEN Sent.age = command.age ELSE Sent.age = 0
<1>1. CASE command.sent
  BY <1>1 DEF Sent, CommandType
<1>2. CASE ~command.sent
  <2>1. Sent = [state |-> command.state, no |-> command.no, sent |-> TRUE, age |-> 0]
    BY <1>2 DEF Sent, CommandType
  <2>2. 0 \in 0 .. LifeCap
    BY CapsTyped
  <2> QED BY <1>2, <2>1, <2>2 DEF CommandType
<1>3. command.sent \in BOOLEAN
  BY DEF CommandType
<1> QED BY <1>1, <1>2, <1>3

LEMMA TakenTyped ==
  ASSUME command \in CommandType, NEW result \in AckResults
  PROVE  /\ Taken(result) \in CommandType
         /\ Taken(result).no = command.no /\ Taken(result).sent = TRUE
         /\ Taken(result).age = Sent.age
         /\ result = "ACCEPTED" => Taken(result).state = "WAIT_APPLIED"
         /\ result = "APPLIED" => Taken(result).state = "APPLIED"
         /\ result = "REFUSED" => Taken(result).state = "FAILED"
<1> DEFINE state == CASE result = "ACCEPTED" -> "WAIT_APPLIED"
                      [] result = "APPLIED" -> "APPLIED"
                      [] OTHER -> "FAILED"
<1>1. /\ state \in CommandStates
      /\ result = "ACCEPTED" => state = "WAIT_APPLIED"
      /\ result = "APPLIED" => state = "APPLIED"
      /\ result = "REFUSED" => state = "FAILED"
  BY DEF AckResults, CommandStates
<1>2. Taken(result) = [Sent EXCEPT !.state = state]
  BY DEF Taken
<1> HIDE DEF state
<1> QED BY <1>1, <1>2, SentTyped DEF CommandType

\* What a poll leaves of a command.
LEMMA PolledCommand ==
  ASSUME LinkTypeOK, NEW lag \in {0, 1}, PollCommand(lag)
  PROVE  \/ command' = command
         \/ Outstanding /\ command' = [command EXCEPT !.state = "TIMEOUT"]
BY DEF PollCommand, Outstanding

LEMMA InitTyped == LinkInit => LinkTypeOK
<1> SUFFICES ASSUME LinkInit PROVE LinkTypeOK
  OBVIOUS
<1>1. /\ 0 \in 0 .. AgeCap /\ 0 \in 0 .. LifeCap /\ 0 \in SampleAges
      /\ 0 \in 0 .. RecoveryFrames /\ 0 \in 0 .. MaxSent /\ 0 \in 0 .. MaxSent + 1
  BY LinkAssumption, CapsTyped DEF SampleAges
<1>2. snap \in [age : 0 .. AgeCap, online : BOOLEAN, streak : 0 .. RecoveryFrames]
  BY <1>1 DEF LinkInit
<1>3. dev \in [Sensors -> [age : SampleAges, streak : 0 .. RecoveryFrames, ready : BOOLEAN]]
  BY <1>1 DEF LinkInit
<1>4. command \in [state : CommandStates, no : 0 .. MaxSent, sent : BOOLEAN, age : 0 .. LifeCap]
  BY <1>1 DEF LinkInit, CommandStates
<1>5. board \in [heard : SUBSET (1 .. MaxSent), done : SUBSET (1 .. MaxSent)]
  BY DEF LinkInit
<1> QED BY <1>1, <1>2, <1>3, <1>4, <1>5 DEF LinkInit, LinkTypeOK, Silence

LEMMA StepTyped == LinkTypeOK /\ [LinkNext]_linkvars => LinkTypeOK'
<1> SUFFICES ASSUME LinkTypeOK, [LinkNext]_linkvars PROVE LinkTypeOK'
  OBVIOUS
<1> USE CapsTyped
<1>0. /\ snap \in [age : 0 .. AgeCap, online : BOOLEAN, streak : 0 .. RecoveryFrames]
      /\ dev \in [Sensors -> DevType] /\ command \in CommandType
      /\ good \in [Sensors -> 0 .. RecoveryFrames]
  BY DEF LinkTypeOK, DevType, CommandType
<1>1. ASSUME NEW ages \in [Sensors -> SampleAges], Snapshot(ages) PROVE LinkTypeOK'
  <2>1. dev' \in [Sensors -> DevType]
    BY <1>1, HealthTyped DEF Snapshot
  <2>2. snap' \in [age : 0 .. AgeCap, online : BOOLEAN, streak : 0 .. RecoveryFrames]
    BY <1>0, <1>1, LinkAssumption DEF Snapshot
  <2>3. good' \in [Sensors -> 0 .. RecoveryFrames]
    BY <1>0, <1>1, LinkAssumption DEF Snapshot
  <2> QED BY <1>1, <2>1, <2>2, <2>3 DEF Snapshot, LinkTypeOK, DevType
<1>2. CASE ResetStream
  <2>1. dev' \in [Sensors -> DevType]
    BY <1>2, LostTyped DEF ResetStream
  <2>2. snap' \in [age : 0 .. AgeCap, online : BOOLEAN, streak : 0 .. RecoveryFrames]
    BY <1>0, <1>2, LinkAssumption DEF ResetStream
  <2> QED BY <1>2, <2>1, <2>2 DEF ResetStream, LinkTypeOK, DevType
<1>3. ASSUME NEW lag \in {0, 1}, LinkPoll(lag) PROVE LinkTypeOK'
  <2>1. dev' \in [Sensors -> DevType]
    BY <1>0, <1>3, LostTyped DEF LinkPoll, PollHealth
  <2>2. snap' \in [age : 0 .. AgeCap, online : BOOLEAN, streak : 0 .. RecoveryFrames]
    <3>1. snap' = snap \/ snap' = [snap EXCEPT !.online = FALSE, !.streak = 0]
      BY <1>3 DEF LinkPoll, PollHealth
    <3>2. 0 \in 0 .. RecoveryFrames
      BY LinkAssumption
    <3> QED BY <1>0, <3>1, <3>2
  <2>3. command' \in CommandType
    BY <1>0, <1>3, PolledCommand DEF LinkPoll, CommandType, CommandStates
  <2>4. started' \in BOOLEAN /\ wire' \in 0 .. MaxSent + 1
    <3>1. command.no \in 0 .. MaxSent + 1
      BY <1>0, LinkAssumption DEF CommandType
    <3> QED BY <1>3, <3>1 DEF LinkPoll, PollCommand, LinkTypeOK
  <2> QED BY <1>3, <2>1, <2>2, <2>3, <2>4 DEF LinkPoll, LinkTypeOK, DevType, CommandType
<1>4. CASE LinkTick
  <2>1. snap' \in [age : 0 .. AgeCap, online : BOOLEAN, streak : 0 .. RecoveryFrames]
    BY <1>0, <1>4, OlderTyped DEF LinkTick
  <2>2. command' \in CommandType
    BY <1>0, <1>4, OlderTyped DEF LinkTick, CommandType
  <2>3. life' \in 0 .. LifeCap /\ good' \in [Sensors -> 0 .. RecoveryFrames] /\ polled' \in BOOLEAN
    <3>1. life' \in 0 .. LifeCap
      <4>1. life' = 0 \/ life' = Older(life, LifeCap)
        BY <1>4 DEF LinkTick
      <4> QED BY <4>1, OlderTyped DEF LinkTypeOK
    <3>2. good' = good \/ good' = [d \in Sensors |-> 0]
      BY <1>4 DEF LinkTick
    <3>3. polled' = FALSE
      BY <1>4 DEF LinkTick
    <3>4. good' \in [Sensors -> 0 .. RecoveryFrames]
      BY <1>0, <3>2, LinkAssumption
    <3> QED BY <3>1, <3>3, <3>4
  <2> QED BY <1>4, <2>1, <2>2, <2>3 DEF LinkTick, LinkTypeOK, CommandType
<1>5. CASE QueueCommand
  <2>1. count' \in 1 .. MaxSent /\ life' = 0 /\ started' = FALSE
    BY <1>5, LinkAssumption DEF QueueCommand, LinkTypeOK
  <2>2. command' \in CommandType
    BY <1>5, <2>1 DEF QueueCommand, CommandType, CommandStates
  <2>3. wire' \in 0 .. MaxSent + 1
    BY <1>5, <2>1, LinkAssumption DEF QueueCommand, LinkTypeOK, Silence, Noise
  <2> QED BY <1>5, <2>1, <2>2, <2>3 DEF QueueCommand, LinkTypeOK, CommandType
<1>6. ASSUME NEW arrives \in BOOLEAN, TxComplete(arrives) PROVE LinkTypeOK'
  <2>1. command' \in CommandType
    BY <1>0, <1>6, SentTyped DEF TxComplete, CommandType, CommandStates
  <2>2. board' \in [heard : SUBSET (1 .. MaxSent), done : SUBSET (1 .. MaxSent)]
    BY <1>6, LinkAssumption DEF TxComplete, LinkTypeOK, Silence, Noise
  <2>3. wire' = 0 /\ 0 \in 0 .. MaxSent + 1 /\ started' = FALSE
    BY <1>6, LinkAssumption DEF TxComplete, Silence
  <2> QED BY <1>6, <2>1, <2>2, <2>3 DEF TxComplete, LinkTypeOK, CommandType
<1>7. ASSUME NEW n \in 1 .. MaxSent, BoardActs(n) PROVE LinkTypeOK'
  BY <1>7 DEF BoardActs, LinkTypeOK
<1>8. ASSUME NEW n \in 1 .. MaxSent, NEW result \in AckResults, AckReceived(n, result)
      PROVE  LinkTypeOK'
  <2>1. command' \in CommandType
    BY <1>0, <1>8, TakenTyped DEF AckReceived
  <2> QED BY <1>8, <2>1 DEF AckReceived, LinkTypeOK, CommandType
<1>9. CASE UNCHANGED linkvars
  BY <1>9 DEF linkvars, LinkTypeOK
<1> QED BY <1>1, <1>2, <1>3, <1>4, <1>5, <1>6, <1>7, <1>8, <1>9 DEF LinkNext
-----------------------------------------------------------------------------
(* The numbers.                                                            *)

LEMMA Division ==
  ASSUME NEW M \in Nat, M > 0, NEW k \in Nat
  PROVE  k = M * (k \div M) + (k % M) /\ k \div M \in Int /\ k % M \in Int
<1>1. k = M * (k \div M) + (k % M)
  OBVIOUS
<1>2. k \div M \in Int
  OBVIOUS
<1>3. k % M \in Int
  OBVIOUS
<1> QED BY <1>1, <1>2, <1>3

\* Within a round of numbers two commands with the same number are the same.
LEMMA OneRound ==
  ASSUME NEW M \in Nat \ {0}, NEW n \in Nat, NEW c \in Nat,
         n <= c, c < n + M, n % M = c % M
  PROVE  n = c
<1>0. M > 0
  OBVIOUS
<1> DEFINE q == n \div M
           r == c \div M
           a == n % M
           b == c % M
<1>1. n = M * q + a /\ q \in Int /\ a \in Int
  BY <1>0, Division
<1>2. c = M * r + b /\ r \in Int
  BY <1>0, Division
<1>3. a = b
  OBVIOUS
<1> HIDE DEF q, r, a, b
<1>4. c = M * r + a
  BY <1>2, <1>3
<1>5. c - n = M * (r - q)
  BY <1>1, <1>2, <1>4
<1>6. CASE r <= q
  <2>1. M * (r - q) <= 0
    BY <1>1, <1>2, <1>6
  <2> QED BY <1>5, <2>1
<1>7. CASE r > q
  <2>1. M * (r - q) >= M
    BY <1>1, <1>2, <1>7
  <2> QED BY <1>5, <2>1
<1> QED BY <1>1, <1>2, <1>6, <1>7

\* An answer that is taken is one to the command under way.
LEMMA AnswersItsOwn ==
  ASSUME LinkTypeOK, Numbers, NEW n \in 1 .. MaxSent, n \in board.heard,
         count < n + SeqModulus, Answers(n)
  PROVE  n = command.no
<1>1. count \in Nat /\ n \in Nat /\ n <= count /\ command.no = count
  BY LinkAssumption DEF LinkTypeOK, Numbers
<1>2. n % SeqModulus = count % SeqModulus
  BY <1>1 DEF Answers
<1> QED BY <1>1, <1>2, OneRound, LinkAssumption

LEMMA InitNumbered == LinkInit => Numbers /\ SentOnce /\ AppliedIsDone
BY LinkAssumption DEF LinkInit, Numbers, SentOnce, AppliedIsDone, Silence

\* A step that leaves line, board and number alone, and the state unless it ends it.
LEMMA NumbersStay ==
  ASSUME NumberInv, UNCHANGED <<wire, board, count>>, command'.no = command.no,
         command'.state = command.state \/ command'.state \notin {"TX_PENDING", "APPLIED"}
  PROVE  Numbers' /\ SentOnce' /\ AppliedIsDone'
BY DEF NumberInv, Numbers, SentOnce, AppliedIsDone, Noise

LEMMA StepNumbered == NumberInv /\ LinkTypeOK' /\ [LinkNext]_linkvars
                        => Numbers' /\ SentOnce' /\ AppliedIsDone'
<1> SUFFICES ASSUME NumberInv, LinkTypeOK', [LinkNext]_linkvars
             PROVE  Numbers' /\ SentOnce' /\ AppliedIsDone'
  OBVIOUS
<1>0. /\ LinkTypeOK /\ Numbers /\ SentOnce /\ AppliedIsDone
      /\ command \in CommandType /\ count \in 0 .. MaxSent
  BY DEF NumberInv, LinkTypeOK, CommandType
<1>1. CASE \/ \E ages \in [Sensors -> SampleAges] : Snapshot(ages)
           \/ ResetStream \/ UNCHANGED linkvars
  BY <1>1, NumbersStay DEF Snapshot, ResetStream, linkvars
<1>2. ASSUME NEW lag \in {0, 1}, LinkPoll(lag)
      PROVE  Numbers' /\ SentOnce' /\ AppliedIsDone'
  <2>1. /\ command'.no = command.no
        /\ command'.state = command.state \/ command'.state = "TIMEOUT"
    BY <1>0, <1>2, PolledCommand DEF LinkPoll, CommandType
  <2>2. CASE wire' = wire
    BY <1>2, <2>1, <2>2, NumbersStay DEF LinkPoll
  <2>3. CASE wire' # wire
    <3>1. command.state = "TX_PENDING" /\ wire' = command.no
      BY <1>2, <2>3 DEF LinkPoll, PollCommand, PollSends
    <3> QED BY <1>0, <1>2, <2>1, <3>1
            DEF LinkPoll, Numbers, SentOnce, AppliedIsDone, CommandType
  <2> QED BY <2>2, <2>3
<1>3. CASE LinkTick
  BY <1>0, <1>3, NumbersStay DEF LinkTick, CommandType
<1>4. CASE QueueCommand
  <2>1. /\ count' = count + 1 /\ command'.no = count' /\ command'.state = "TX_PENDING"
        /\ board' = board /\ wire' \in {Silence, wire, Noise, count'}
    BY <1>4 DEF QueueCommand
  <2>2. /\ count' \notin board.heard /\ Noise \notin board.heard
        /\ Silence \notin board.heard /\ board.heard \subseteq 1 .. count'
    BY <1>0, <2>1, LinkAssumption DEF Numbers, Noise, Silence
  <2>3. wire' = Noise \/ wire' <= count'
    BY <1>0, <2>1, LinkAssumption DEF Numbers, Noise, Silence, LinkTypeOK
  <2>4. Noise' = Noise
    BY DEF Noise
  <2> QED BY <1>0, <2>1, <2>2, <2>3, <2>4 DEF Numbers, SentOnce, AppliedIsDone
<1>5. ASSUME NEW arrives \in BOOLEAN, TxComplete(arrives)
      PROVE  Numbers' /\ SentOnce' /\ AppliedIsDone'
  <2>1. /\ command'.no = command.no /\ command'.state # "TX_PENDING"
        /\ command'.state = "APPLIED" => command.state = "APPLIED"
    <3>1. CASE ~Outstanding
      BY <1>5, <3>1 DEF TxComplete, Outstanding
    <3>2. CASE command.state = "TX_PENDING"
      BY <1>0, <1>5, <3>2, SentTyped DEF TxComplete, Outstanding, CommandType
    <3>3. CASE Outstanding /\ command.state # "TX_PENDING"
      BY <1>0, <1>5, <3>3, SentTyped DEF TxComplete, Outstanding
    <3> QED BY <3>1, <3>2, <3>3
  <2>2. wire' = 0 /\ count' = count /\ board'.done = board.done
        /\ board'.heard \subseteq board.heard \cup ({wire} \ {Noise})
    BY <1>0, <1>5 DEF TxComplete, Silence, LinkTypeOK
  <2>3. wire \in 1 .. count \/ wire = Noise
    BY <1>0, <1>5, LinkAssumption DEF TxComplete, Silence, LinkTypeOK, Numbers
  <2>4. board'.heard \subseteq 1 .. count
    BY <1>0, <2>2, <2>3 DEF Numbers
  <2> QED BY <1>0, <2>1, <2>2, <2>4 DEF Numbers, SentOnce, AppliedIsDone
<1>6. ASSUME NEW n \in 1 .. MaxSent, BoardActs(n)
      PROVE  Numbers' /\ SentOnce' /\ AppliedIsDone'
  <2>1. /\ board'.heard = board.heard /\ board.done \subseteq board'.done
        /\ UNCHANGED <<command, wire, count>>
    BY <1>0, <1>6 DEF BoardActs, LinkTypeOK
  <2> QED BY <1>0, <2>1 DEF Numbers, SentOnce, AppliedIsDone, Noise
<1>7. ASSUME NEW n \in 1 .. MaxSent, NEW result \in AckResults, AckReceived(n, result)
      PROVE  Numbers' /\ SentOnce' /\ AppliedIsDone'
  <2>1. UNCHANGED <<wire, board, count>> /\ (result = "APPLIED" => n \in board.done)
    BY <1>7 DEF AckReceived
  <2>2. CASE ~Answers(n)
    BY <1>7, <2>1, <2>2, NumbersStay DEF AckReceived
  <2>3. CASE Answers(n)
    <3>1. n = command.no
      BY <1>0, <1>7, <2>3, AnswersItsOwn DEF AckReceived
    <3>2. /\ command'.no = command.no /\ command'.state # "TX_PENDING"
          /\ command'.state = "APPLIED" => result = "APPLIED"
      BY <1>0, <1>7, <2>3, TakenTyped DEF AckReceived, AckResults, CommandType
    <3> QED BY <1>0, <2>1, <3>1, <3>2 DEF Numbers, SentOnce, AppliedIsDone, Noise
  <2> QED BY <2>2, <2>3
<1> QED BY <1>1, <1>2, <1>3, <1>4, <1>5, <1>6, <1>7 DEF LinkNext

LEMMA NumbersCorrect == LinkSpec => []NumberInv
<1>1. LinkInit => NumberInv
  BY InitTyped, InitNumbered DEF NumberInv
<1>2. NumberInv /\ [LinkNext]_linkvars => NumberInv'
  BY StepTyped, StepNumbered DEF NumberInv
<1> QED BY <1>1, <1>2, PTL DEF LinkSpec
-----------------------------------------------------------------------------
(* The deadlines.                                                          *)

LEMMA InitOnTime == LinkInit => Deadlines
BY DEF LinkInit, Deadlines

\* A step that leaves the command, its life and the poll alone.
LEMMA DeadlinesStay ==
  ASSUME Deadlines, UNCHANGED <<command, life, polled>>
  PROVE  Deadlines'
BY DEF Deadlines, Slack

LEMMA StepOnTime == LinkTypeOK /\ Deadlines /\ [LinkNext]_linkvars => Deadlines'
<1> SUFFICES ASSUME LinkTypeOK, Deadlines, [LinkNext]_linkvars PROVE Deadlines'
  OBVIOUS
<1>0. /\ command \in CommandType /\ command.age \in 0 .. LifeCap /\ life \in 0 .. LifeCap
      /\ LifeCap \in Nat /\ Slack \in {0, 1}
  BY CapsTyped DEF LinkTypeOK, CommandType, Slack
<1>1. CASE \/ \E ages \in [Sensors -> SampleAges] : Snapshot(ages)
           \/ ResetStream \/ UNCHANGED linkvars
           \/ \E n \in 1 .. MaxSent : BoardActs(n)
  BY <1>1, DeadlinesStay DEF Snapshot, ResetStream, linkvars, BoardActs
<1>2. ASSUME NEW lag \in {0, 1}, LinkPoll(lag) PROVE Deadlines'
  <2>1. Slack' = 0 /\ life' = life
    BY <1>2 DEF LinkPoll, Slack
  <2>2. CASE command' = command
    <3>1. command.state \in {"TX_PENDING", "WAIT_ACCEPTED"} => command.age <= AcceptTimeout + 1
      <4>1. ASSUME command.state \in {"TX_PENDING", "WAIT_ACCEPTED"}
            PROVE  ~Overdue(AcceptTimeout, lag)
        BY <1>0, <1>2, <2>2, <4>1 DEF LinkPoll, PollCommand, CommandType
      <4> QED BY <1>0, <4>1, LinkAssumption DEF Overdue
    <3>2. command.state = "WAIT_APPLIED" => command.age <= ApplyTimeout + 1
      <4>1. ASSUME command.state = "WAIT_APPLIED" PROVE ~Overdue(ApplyTimeout, lag)
        BY <1>0, <1>2, <2>2, <4>1 DEF LinkPoll, PollCommand, CommandType
      <4> QED BY <1>0, <4>1, LinkAssumption DEF Overdue
    <3> QED BY <2>1, <2>2, <3>1, <3>2, LinkAssumption DEF Deadlines
  <2>3. CASE command' = [command EXCEPT !.state = "TIMEOUT"]
    <3>1. command'.state = "TIMEOUT"
      BY <1>0, <2>3 DEF CommandType
    <3> QED BY <3>1 DEF Deadlines
  <2> QED BY <1>2, <2>2, <2>3, PolledCommand DEF LinkPoll
<1>3. CASE LinkTick
  <2>1. Slack = 0 /\ Slack' = 1
    BY <1>3 DEF LinkTick, Slack
  <2>2. command'.state = command.state /\ command'.sent = command.sent
    BY <1>0, <1>3 DEF LinkTick, CommandType
  <2>3. CASE Outstanding
    <3>1. command'.age = Older(command.age, LifeCap) /\ life' = Older(life, LifeCap)
      BY <1>0, <1>3, <2>3 DEF LinkTick, CommandType
    <3>2. command.age <= ApplyTimeout + 1
      BY <1>0, <2>1, <2>3, LinkAssumption DEF Deadlines, Outstanding
    <3>3. command'.age = command.age + 1
      BY <1>0, <3>1, <3>2, LinkAssumption DEF Older, LifeCap
    <3>4. life' <= life + 1 /\ life' \in 0 .. LifeCap
      BY <1>0, <3>1 DEF Older
    <3>5. life = command.age => life' = command'.age
      BY <3>1
    <3> QED BY <1>0, <2>1, <2>2, <3>3, <3>4, <3>5, LinkAssumption DEF Deadlines
  <2>4. CASE ~Outstanding
    BY <2>2, <2>4 DEF Deadlines, Outstanding
  <2> QED BY <2>3, <2>4
<1>4. CASE QueueCommand
  <2>1. /\ command'.state = "TX_PENDING" /\ command'.sent = FALSE /\ command'.age = 0
        /\ life' = 0
    BY <1>4 DEF QueueCommand
  <2>2. 0 <= AcceptTimeout + 1 + Slack'
    <3>1. Slack' = 0 \/ Slack' = 1
      BY DEF Slack
    <3>2. AcceptTimeout \in Nat
      BY LinkAssumption
    <3> QED BY <3>1, <3>2
  <2> QED BY <2>1, <2>2 DEF Deadlines
<1>5. ASSUME NEW arrives \in BOOLEAN, TxComplete(arrives) PROVE Deadlines'
  <2>1. life' = life /\ Slack' = Slack
    BY <1>5 DEF TxComplete, Slack
  <2>2. CASE ~Outstanding
    BY <1>5, <2>2 DEF TxComplete, Deadlines, Outstanding
  <2>3. CASE command.state = "TX_PENDING"
    <3>1. command'.state = "WAIT_ACCEPTED" /\ command'.sent = TRUE /\ command'.age = Sent.age
      BY <1>0, <1>5, <2>3, SentTyped DEF TxComplete, Outstanding, CommandType
    <3>2. Sent.age = 0 /\ life <= AcceptTimeout + 2
      BY <1>0, <2>3, SentTyped, LinkAssumption DEF Deadlines
    <3> QED BY <1>0, <2>1, <3>1, <3>2, LinkAssumption DEF Deadlines
  <2>4. CASE Outstanding /\ command.state # "TX_PENDING"
    <3>1. command' = command
      BY <1>5, <2>4 DEF TxComplete, Outstanding, Sent, Deadlines
    <3> QED BY <2>1, <3>1 DEF Deadlines
  <2> QED BY <2>2, <2>3, <2>4
<1>6. ASSUME NEW n \in 1 .. MaxSent, NEW result \in AckResults, AckReceived(n, result)
      PROVE  Deadlines'
  <2>1. life' = life /\ Slack' = Slack
    BY <1>6 DEF AckReceived, Slack
  <2>2. CASE ~Answers(n)
    BY <1>6, <2>2, DeadlinesStay DEF AckReceived
  <2>3. CASE Answers(n) /\ result = "ACCEPTED"
    <3>1. command'.state = "WAIT_APPLIED" /\ command'.sent = TRUE /\ command'.age = Sent.age
      BY <1>0, <1>6, <2>3, TakenTyped DEF AckReceived
    <3>2. CASE command.state = "TX_PENDING"
      <4>1. Sent.age = 0 /\ life <= AcceptTimeout + 2
        BY <1>0, <3>2, SentTyped, LinkAssumption DEF Deadlines
      <4> QED BY <1>0, <2>1, <3>1, <4>1, LinkAssumption DEF Deadlines
    <3>3. CASE command.state \in {"WAIT_ACCEPTED", "WAIT_APPLIED"}
      <4>1. Sent.age = command.age
        BY <1>0, <3>3, SentTyped DEF Deadlines
      <4> QED BY <1>0, <2>1, <3>1, <3>3, <4>1, LinkAssumption DEF Deadlines
    <3> QED BY <2>3, <3>2, <3>3 DEF Answers, Outstanding
  <2>4. CASE Answers(n) /\ result # "ACCEPTED"
    <3>1. command'.state \in {"APPLIED", "FAILED"}
      BY <1>0, <1>6, <2>4, TakenTyped DEF AckReceived, AckResults
    <3> QED BY <3>1 DEF Deadlines
  <2> QED BY <2>2, <2>3, <2>4
<1> QED BY <1>1, <1>2, <1>3, <1>4, <1>5, <1>6 DEF LinkNext

LEMMA OnTimeIsBounded == LinkTypeOK /\ Deadlines => CommandIsBounded
<1> SUFFICES ASSUME LinkTypeOK, Deadlines, Outstanding
             PROVE  life <= AcceptTimeout + ApplyTimeout + 4
  BY DEF CommandIsBounded
<1>1. command.age \in Nat /\ life \in Nat /\ Slack \in {0, 1}
  BY CapsTyped DEF LinkTypeOK, Slack
<1> QED BY <1>1, LinkAssumption DEF Outstanding, Deadlines
-----------------------------------------------------------------------------
(* The health.                                                             *)

LEMMA InitHealthy == LinkInit => Health
BY LinkAssumption DEF LinkInit, Health, Healthy, Slack

\* A step that leaves the snapshot, the devices and the poll alone.
LEMMA HealthStays ==
  ASSUME Health, UNCHANGED <<snap, dev, good, polled>>
  PROVE  Health'
BY DEF Health, Healthy, Slack

\* A device that has been lost, with the link counting from 0 or as before.
LEMMA LostIsHealthy ==
  ASSUME LinkTypeOK, LinkTypeOK', NEW d \in Sensors, dev'[d].streak = 0, dev'[d].ready = FALSE
  PROVE  Healthy(d)'
BY LinkAssumption DEF LinkTypeOK, Healthy

LEMMA SnapshotHealthy ==
  ASSUME LinkTypeOK, LinkTypeOK', Health, NEW ages \in [Sensors -> SampleAges], Snapshot(ages)
  PROVE  Health'
<1> SUFFICES ASSUME NEW d \in Sensors PROVE Healthy(d)'
  BY DEF Health
<1>0. /\ Healthy(d) /\ dev[d] \in DevType /\ good[d] \in 0 .. RecoveryFrames
      /\ snap.streak \in 0 .. RecoveryFrames /\ ages[d] \in Nat
      /\ dev[d].streak \in 0 .. RecoveryFrames /\ (Slack' = 0 \/ Slack' = 1)
  BY LinkAssumption DEF Health, LinkTypeOK, DevType, SampleAges, Slack
<1>1. /\ dev'[d] = DeviceHealth(d, ages[d]) /\ snap'.age = 0
      /\ snap'.streak = IF snap.streak < RecoveryFrames THEN snap.streak + 1 ELSE snap.streak
      /\ snap.online \/ snap'.streak >= RecoveryFrames => snap'.online
  BY DEF Snapshot
<1>2. CASE ~Usable(ages[d])
  <2>1. dev'[d] = [Lost(d) EXCEPT !.age = ages[d]]
    BY <1>1, <1>2 DEF DeviceHealth
  <2>2. dev'[d].streak = 0 /\ dev'[d].ready = FALSE
    BY <2>1, LostTyped DEF DevType
  <2> QED BY <2>2, LostIsHealthy
<1>3. CASE Usable(ages[d])
  <2>1. good'[d] = IF good[d] < RecoveryFrames THEN good[d] + 1 ELSE good[d]
    BY <1>3 DEF Snapshot
  <2>2. /\ dev'[d].age = ages[d]
        /\ dev'[d].streak = IF dev[d].streak < RecoveryFrames THEN dev[d].streak + 1
                            ELSE dev[d].streak
    BY <1>1, <1>3 DEF DeviceHealth
  <2>6. dev'[d].ready => dev[d].ready \/ dev'[d].streak >= RecoveryFrames
    <3> DEFINE next == IF dev[d].streak < RecoveryFrames THEN dev[d].streak + 1
                       ELSE dev[d].streak
               ready == dev[d].ready \/ next >= RecoveryFrames
    <3>1. dev'[d] = [age |-> ages[d], streak |-> next, ready |-> ready]
      BY <1>1, <1>3 DEF DeviceHealth
    <3> HIDE DEF next, ready
    <3>2. dev'[d].ready = ready /\ dev'[d].streak = next
      BY <3>1
    <3> QED BY <3>2 DEF ready
  <2>3. dev'[d].streak <= good'[d] /\ dev'[d].streak <= snap'.streak
    BY <1>0, <1>1, <2>1, <2>2, LinkAssumption DEF Healthy
  <2>4. dev'[d].ready => good'[d] = RecoveryFrames /\ snap'.online
    <3>1. CASE dev[d].ready
      BY <1>0, <1>1, <2>1, <3>1, LinkAssumption DEF Healthy
    <3>2. CASE dev'[d].streak >= RecoveryFrames
      <4>1. good'[d] \in 0 .. RecoveryFrames /\ snap'.streak \in Nat
        BY <1>0, <1>1, <2>1, LinkAssumption
      <4>2. dev'[d].streak \in Nat
        BY <1>0, <2>2, LinkAssumption
      <4> QED BY <1>1, <2>3, <3>2, <4>1, <4>2, LinkAssumption
    <3> QED BY <2>6, <3>1, <3>2
  <2>5. /\ dev'[d].age <= StaleAge /\ dev'[d].age + snap'.age <= StaleAge + 1 + Slack'
        /\ ~(snap'.age > LinkTimeout + 1 + Slack')
    <3>1. ages[d] <= StaleAge
      BY <1>3 DEF Usable
    <3>2. dev'[d].age = ages[d] /\ snap'.age = 0
      BY <1>1, <2>2
    <3> QED BY <1>0, <3>1, <3>2, LinkAssumption
  <2> QED BY <2>3, <2>4, <2>5 DEF Healthy
<1> QED BY <1>2, <1>3

LEMMA PollHealthy ==
  ASSUME LinkTypeOK, LinkTypeOK', Health, NEW lag \in {0, 1}, LinkPoll(lag)
  PROVE  Health'
<1> SUFFICES ASSUME NEW d \in Sensors PROVE Healthy(d)'
  BY DEF Health
<1>0. /\ Healthy(d) /\ dev[d].age \in Nat /\ snap.age \in Nat
      /\ Slack' = 0 /\ good' = good
  BY LinkAssumption, CapsTyped DEF Health, LinkTypeOK, SampleAges, Slack, LinkPoll
<1>1. CASE dev'[d] = Lost(d)
  BY <1>1, LostTyped, LostIsHealthy
<1>2. CASE dev'[d] # Lost(d)
  <2>1. /\ snap.age <= LinkTimeout + lag /\ snap' = snap
        /\ dev'[d] = dev[d] /\ ~SampleStale(d, snap.age, lag)
    BY <1>0, <1>2, LinkAssumption DEF LinkPoll, PollHealth
  <2>2. snap.age <= LinkTimeout + 1
    BY <1>0, <2>1, LinkAssumption
  <2>3. dev[d].ready => dev[d].age + snap.age <= StaleAge + 1
    <3>1. CASE snap.age >= lag
      BY <1>0, <2>1, <3>1, LinkAssumption DEF SampleStale
    <3>2. CASE snap.age < lag
      <4>1. snap.age = 0
        BY <1>0, <3>2
      <4> QED BY <1>0, <4>1, LinkAssumption DEF Healthy
    <3> QED BY <1>0, <3>1, <3>2
  <2> QED BY <1>0, <2>1, <2>2, <2>3, LinkAssumption DEF Healthy
<1> QED BY <1>1, <1>2

LEMMA TickHealthy ==
  ASSUME LinkTypeOK, LinkTypeOK', Health, LinkTick
  PROVE  Health'
<1> SUFFICES ASSUME NEW d \in Sensors PROVE Healthy(d)'
  BY DEF Health
<1>0. /\ Healthy(d) /\ dev[d].age \in Nat /\ snap.age \in 0 .. AgeCap
      /\ Slack = 0 /\ Slack' = 1 /\ dev' = dev
      /\ dev[d].streak \in Nat
  BY LinkAssumption DEF Health, LinkTypeOK, SampleAges, Slack, LinkTick
<1>1. /\ snap'.streak = snap.streak /\ snap'.online = snap.online
      /\ snap'.age = Older(snap.age, AgeCap)
  BY DEF LinkTick, LinkTypeOK
<1>2. snap'.age \in Nat /\ snap'.age <= snap.age + 1
  BY <1>0, <1>1, CapsTyped DEF Older
<1>3. snap'.age > LinkTimeout + 2 => snap.age > LinkTimeout + 1
  BY <1>0, <1>1, LinkAssumption DEF Older, AgeCap
<1>4. CASE snap'.age > LinkTimeout + 2
  <2>1. dev'[d].streak = 0 /\ dev'[d].ready = FALSE
    BY <1>0, <1>3, <1>4, LinkAssumption DEF Healthy, LinkTypeOK
  <2> QED BY <2>1, LostIsHealthy
<1>5. CASE ~(snap'.age > LinkTimeout + 2)
  <2>1. good' = good
    BY <1>5 DEF LinkTick
  <2> QED BY <1>0, <1>1, <1>2, <1>5, <2>1, LinkAssumption DEF Healthy
<1> QED BY <1>4, <1>5

LEMMA StepHealthy == LinkTypeOK /\ Health /\ [LinkNext]_linkvars => Health'
<1> SUFFICES ASSUME LinkTypeOK, LinkTypeOK', Health, [LinkNext]_linkvars PROVE Health'
  BY StepTyped
<1>1. CASE ResetStream
  <2> SUFFICES ASSUME NEW d \in Sensors PROVE Healthy(d)'
    BY DEF Health
  <2>1. dev'[d] = Lost(d)
    BY <1>1 DEF ResetStream
  <2> QED BY <2>1, LostTyped, LostIsHealthy
<1>2. CASE \/ QueueCommand \/ UNCHANGED linkvars
           \/ \E arrives \in BOOLEAN : TxComplete(arrives)
           \/ \E n \in 1 .. MaxSent : BoardActs(n) \/ \E result \in AckResults : AckReceived(n, result)
  BY <1>2, HealthStays DEF QueueCommand, TxComplete, BoardActs, AckReceived, linkvars
<1> QED BY <1>1, <1>2, SnapshotHealthy, PollHealthy, TickHealthy DEF LinkNext

LEMMA HealthyIsWorth == LinkTypeOK /\ Health => ReadyIsEarned /\ ReadyIsFresh
<1> SUFFICES ASSUME LinkTypeOK, Health, NEW d \in Sensors, dev[d].ready
             PROVE  /\ good[d] = RecoveryFrames /\ snap.online
                    /\ snap.age <= LinkTimeout + 2 /\ dev[d].age + snap.age <= StaleAge + 2
  BY DEF ReadyIsEarned, ReadyIsFresh
<1>1. Healthy(d) /\ snap.age \in Nat /\ dev[d].age \in Nat /\ Slack \in {0, 1}
  BY LinkAssumption, CapsTyped DEF Health, LinkTypeOK, SampleAges, Slack
<1> QED BY <1>1, LinkAssumption DEF Healthy

-----------------------------------------------------------------------------
(* The theorems.                                                           *)

LEMMA LinkCorrect == LinkSpec => [](NumberInv /\ Deadlines /\ Health)
<1>1. LinkInit => Deadlines /\ Health
  BY InitOnTime, InitHealthy
<1>2. NumberInv => LinkTypeOK
  BY DEF NumberInv
<1>3. LinkTypeOK /\ Deadlines /\ Health /\ [LinkNext]_linkvars => Deadlines' /\ Health'
  BY StepOnTime, StepHealthy
<1> QED BY <1>1, <1>2, <1>3, NumbersCorrect, PTL DEF LinkSpec

\* The types, for any sensors, timeouts and number of commands (c552.h:10).
THEOREM LinkTyped == LinkSpec => []LinkTypeOK
BY LinkCorrect, PTL DEF NumberInv

\* A command reported as applied has been carried out by the board: neither late, repeated
\* or reordered answers nor the return of a number deceive c552_process_ack (c552.c:341).
THEOREM AppliedMeansDone == LinkSpec => []AppliedIsDone
BY LinkCorrect, PTL DEF NumberInv

\* No command reaches the board twice, although c552_poll_command sends from a buffer that
\* the next command overwrites and tries again until the line is free (c552.c:539).
THEOREM NeverSentTwice == LinkSpec => []SentOnce
BY LinkCorrect, PTL DEF NumberInv

\* A command is outstanding no longer than its two deadlines, whatever the answers and
\* however the poll's clock lags behind an interrupt (c552.c:535).
THEOREM CommandEnds == LinkSpec => []CommandIsBounded
BY LinkCorrect, OnTimeIsBounded, PTL DEF NumberInv

\* A device that is ready has earned it by as many good samples in a row, with no silence
\* in between (c552.c:267).
THEOREM ReadinessEarned == LinkSpec => []ReadyIsEarned
BY LinkCorrect, HealthyIsWorth, PTL DEF NumberInv

\* A device that is ready has data that was fresh a tick ago, on a link that is alive,
\* also when the poll's clock is behind the snapshot's (c552.c:566).
THEOREM ReadinessFresh == LinkSpec => []ReadyIsFresh
BY LinkCorrect, HealthyIsWorth, PTL DEF NumberInv
=============================================================================
