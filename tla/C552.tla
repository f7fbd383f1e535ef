--------------------------------- MODULE C552 ---------------------------------
(***************************************************************************)
(* The link to the C552 sensor board: c552.c over USART3. The board sends   *)
(* snapshots of its sensors, from which the firmware derives the health of  *)
(* the link and of each device; the firmware sends one command at a time,   *)
(* which the board answers with ACCEPTED and APPLIED, or refuses.           *)
(*                                                                         *)
(* Interrupts (a frame received, a transmission complete, a UART error) come *)
(* between any two polls; the functions themselves are critical sections.   *)
(* Time is counted in ticks, all of them ages; the loop polls in every one. *)
(* A poll may have read the clock before the last tick: lag. In an unsigned *)
(* difference an event that is younger than the poll's clock is very old.   *)
(*                                                                         *)
(* Bytes, the parser's resynchronisation and CRC are left out: a damaged    *)
(* frame is one that does not arrive. So are target and kind of a command:  *)
(* its sequence number tells them.                                          *)
(***************************************************************************)
EXTENDS Naturals, FiniteSets

CONSTANTS
  Sensors,         \* C552_DEVICE_...
  LinkTimeout,     \* C552_LINK_TIMEOUT_MS
  StaleAge,        \* C552_TOF_STALE_MS, C552_K230_STALE_MS
  RecoveryFrames,  \* C552_RECOVERY_FRAMES
  AcceptTimeout,   \* C552_COMMAND_ACCEPT_TIMEOUT_MS
  ApplyTimeout,    \* C552_COMMAND_APPLY_TIMEOUT_MS
  SeqModulus,      \* a command's number is an uint8: 256
  MaxSent          \* bound: commands

ASSUME LinkAssumption ==
  /\ LinkTimeout \in Nat /\ StaleAge \in Nat
  /\ RecoveryFrames \in Nat \ {0}
  /\ AcceptTimeout \in Nat /\ ApplyTimeout \in Nat /\ AcceptTimeout <= ApplyTimeout
  /\ SeqModulus \in Nat \ {0} /\ MaxSent \in Nat

VARIABLES
  snap,     \* the last snapshot: its age (from C552_Init if none), link_online, streak
  dev,      \* per device: sample age in the snapshot, recovery streak, ready
  command,  \* g_command_status, with the age of the tick its deadline counts from
  started,  \* g_command_tx_started
  wire,     \* the frame in transmission
  board,    \* what the board has received and what it has done
  count,    \* commands so far, g_next_command_sequence without its width
  polled,   \* the loop has polled in this tick
  good,     \* history: usable samples in a row, of each device
  life      \* history: the age of the command

linkvars == <<snap, dev, command, started, wire, board, count, polled, good, life>>

CommandStates == {"IDLE", "TX_PENDING", "WAIT_ACCEPTED", "WAIT_APPLIED", "APPLIED",
                  "FAILED", "TIMEOUT"}

\* c552_command_is_active_state
Outstanding == command.state \in {"TX_PENDING", "WAIT_ACCEPTED", "WAIT_APPLIED"}

AgeCap == LinkTimeout + 3
LifeCap == AcceptTimeout + ApplyTimeout + 5
Older(age, cap) == IF age < cap THEN age + 1 ELSE cap

\* What is on the wire when it is not the frame of a command, as a number that none has.
Silence == 0
Noise == MaxSent + 1

LinkInit ==
  /\ snap = [age |-> 0, online |-> FALSE, streak |-> 0]
  /\ dev = [d \in Sensors |-> [age |-> 0, streak |-> 0, ready |-> FALSE]]
  /\ command = [state |-> "IDLE", no |-> 0, sent |-> FALSE, age |-> 0]
  /\ started = FALSE /\ wire = Silence
  /\ board = [heard |-> {}, done |-> {}]
  /\ count = 0 /\ polled = TRUE
  /\ good = [d \in Sensors |-> 0]
  /\ life = 0

-----------------------------------------------------------------------------
(* Snapshots.                                                              *)

\* The age of a sample that is invalid or implausible counts as too high.
Usable(age) == age <= StaleAge

Lost(d) == [dev[d] EXCEPT !.streak = 0, !.ready = FALSE]

\* Mutant: a sample that is of no use leaves the streak alone.
DeviceHealthLax(d, age) ==
  LET streak == IF dev[d].streak < RecoveryFrames THEN dev[d].streak + 1 ELSE dev[d].streak
  IN IF Usable(age)
     THEN [age |-> age, streak |-> streak,
           ready |-> dev[d].ready \/ streak >= RecoveryFrames]
     ELSE [dev[d] EXCEPT !.age = age, !.ready = FALSE]

\* Mutant: the streak goes on counting.
DeviceHealthUncapped(d, age) ==
  IF Usable(age)
  THEN [age |-> age, streak |-> dev[d].streak + 1,
        ready |-> dev[d].ready \/ dev[d].streak + 1 >= RecoveryFrames]
  ELSE [Lost(d) EXCEPT !.age = age]

\* c552_update_device_health
DeviceHealth(d, age) ==
  LET streak == IF dev[d].streak < RecoveryFrames THEN dev[d].streak + 1 ELSE dev[d].streak
  IN IF Usable(age)
     THEN [age |-> age, streak |-> streak,
           ready |-> dev[d].ready \/ streak >= RecoveryFrames]
     ELSE [Lost(d) EXCEPT !.age = age]

\* c552_publish_snapshot: a snapshot with a sample of each device.
Snapshot(ages) ==
  LET streak == IF snap.streak < RecoveryFrames THEN snap.streak + 1 ELSE snap.streak
  IN /\ snap' = [age |-> 0, streak |-> streak,
                 online |-> snap.online \/ streak >= RecoveryFrames]
     /\ dev' = [d \in Sensors |-> DeviceHealth(d, ages[d])]
     /\ good' = [d \in Sensors |->
          IF ~Usable(ages[d]) THEN 0
          ELSE IF good[d] < RecoveryFrames THEN good[d] + 1 ELSE good[d]]
     /\ UNCHANGED <<command, started, wire, board, count, polled, life>>

\* C552_ResetStream, after a UART error or when the receiver is restarted.
ResetStream ==
  /\ ~snap.online
  /\ snap' = [snap EXCEPT !.streak = 0]
  /\ dev' = [d \in Sensors |-> Lost(d)]
  /\ UNCHANGED <<command, started, wire, board, count, polled, good, life>>

-----------------------------------------------------------------------------
(* The poll.                                                               *)

\* c552_effective_age of a sample in a snapshot of this age. The difference of a clock
\* that is older than the snapshot wraps: it makes a sample younger, or of no age very old.
SampleStale(d, age, lag) ==
  IF age >= lag THEN dev[d].age + (age - lag) > StaleAge ELSE dev[d].age < lag

\* Mutant: between two snapshots the samples do not age.
PollHealthAgeless(lag) ==
  IF snap.age > LinkTimeout + lag
  THEN /\ snap' = [snap EXCEPT !.online = FALSE, !.streak = 0]
       /\ dev' = [d \in Sensors |-> Lost(d)]
  ELSE UNCHANGED <<snap, dev>>

\* C552_Poll, the health: the link times out, or samples expire.
PollHealth(lag) ==
  IF snap.age > LinkTimeout + lag
  THEN /\ snap' = [snap EXCEPT !.online = FALSE, !.streak = 0]
       /\ dev' = [d \in Sensors |-> Lost(d)]
  ELSE /\ dev' = [d \in Sensors |-> IF SampleStale(d, snap.age, lag) THEN Lost(d) ELSE dev[d]]
       /\ UNCHANGED snap

\* A deadline has passed, or seems to: its beginning is younger than the poll's clock.
Overdue(timeout, lag) == command.age > timeout + lag \/ command.age < lag

\* Mutant: whatever has been sent is sent again as long as it is not answered.
PollSendsAgain == Outstanding /\ ~started /\ wire = Silence

\* USART3_TransmitAsync from c552_poll_command; it is tried again while the line is busy.
PollSends == command.state = "TX_PENDING" /\ ~started /\ wire = Silence

\* c552_poll_command
PollCommand(lag) ==
  /\ IF PollSends THEN started' = TRUE /\ wire' = command.no
     ELSE UNCHANGED <<started, wire>>
  /\ command' =
       IF \/ command.state \in {"TX_PENDING", "WAIT_ACCEPTED"} /\ Overdue(AcceptTimeout, lag)
          \/ command.state = "WAIT_APPLIED" /\ Overdue(ApplyTimeout, lag)
       THEN [command EXCEPT !.state = "TIMEOUT"] ELSE command

\* C552_Poll
LinkPoll(lag) ==
  /\ PollHealth(lag) /\ PollCommand(lag)
  /\ polled' = TRUE
  /\ UNCHANGED <<board, count, good, life>>

\* A millisecond, in which the loop has come round.
LinkTick ==
  /\ polled /\ polled' = FALSE
  /\ snap' = [snap EXCEPT !.age = Older(@, AgeCap)]
  /\ command' = [command EXCEPT !.age = IF Outstanding THEN Older(@, LifeCap) ELSE 0]
  /\ life' = IF Outstanding THEN Older(life, LifeCap) ELSE 0
  /\ good' = IF snap'.age > LinkTimeout + 2 THEN [d \in Sensors |-> 0] ELSE good
  /\ UNCHANGED <<dev, started, wire, board, count>>

-----------------------------------------------------------------------------
(* Commands.                                                               *)

\* c552_queue_command, from C552_SetK230Mode or C552_SetGripper. The frame is built in
\* the buffer from which another one may be being sent: that one goes on, is garbled, or
\* becomes the new one.
QueueCommand ==
  /\ ~Outstanding /\ count < MaxSent
  /\ count' = count + 1
  /\ command' = [state |-> "TX_PENDING", no |-> count', sent |-> FALSE, age |-> 0]
  /\ started' = FALSE /\ life' = 0
  /\ wire' \in IF wire = Silence THEN {Silence} ELSE {wire, Noise, count'}
  /\ UNCHANGED <<snap, dev, board, polled, good>>

Sent == IF command.sent THEN command ELSE [command EXCEPT !.sent = TRUE, !.age = 0]

\* C552_OnTxComplete. The frame reaches the board or is damaged on the way.
TxComplete(arrives) ==
  /\ wire # Silence
  /\ wire' = Silence /\ started' = FALSE
  /\ command' = IF ~Outstanding THEN command
                ELSE IF command.state = "TX_PENDING" THEN [Sent EXCEPT !.state = "WAIT_ACCEPTED"]
                ELSE Sent
  /\ board' = IF arrives /\ wire # Noise THEN [board EXCEPT !.heard = @ \cup {wire}] ELSE board
  /\ UNCHANGED <<snap, dev, count, polled, good, life>>

\* Mutant: an answer is taken for the command under way.
AnswersAny(n) == Outstanding

\* An answer is taken by its number alone.
Answers(n) == Outstanding /\ n % SeqModulus = command.no % SeqModulus

\* Mutant: ACCEPTED starts the deadline anew.
TakenAnew(result) ==
  IF result = "ACCEPTED" THEN [command EXCEPT !.sent = TRUE, !.age = 0, !.state = "WAIT_APPLIED"]
  ELSE [Sent EXCEPT !.state = IF result = "APPLIED" THEN "APPLIED" ELSE "FAILED"]

\* What an answer that is taken makes of the command.
Taken(result) ==
  [Sent EXCEPT !.state = CASE result = "ACCEPTED" -> "WAIT_APPLIED"
                           [] result = "APPLIED" -> "APPLIED"
                           [] OTHER -> "FAILED"]

\* c552_process_ack: an answer to the command n. The board answers as often and as late as
\* it likes, but not after a whole round of numbers.
AckReceived(n, result) ==
  /\ n \in board.heard /\ count < n + SeqModulus
  /\ result = "APPLIED" => n \in board.done
  /\ command' = IF Answers(n) THEN Taken(result) ELSE command
  /\ UNCHANGED <<snap, dev, started, wire, board, count, polled, good, life>>

\* The board does what it has been told.
BoardActs(n) ==
  /\ n \in board.heard \ board.done
  /\ board' = [board EXCEPT !.done = @ \cup {n}]
  /\ UNCHANGED <<snap, dev, command, started, wire, count, polled, good, life>>

-----------------------------------------------------------------------------
AckResults == {"ACCEPTED", "APPLIED", "REFUSED"}
SampleAges == 0 .. StaleAge + 1

LinkNext ==
  \/ \E ages \in [Sensors -> SampleAges] : Snapshot(ages)
  \/ ResetStream
  \/ \E lag \in {0, 1} : LinkPoll(lag)
  \/ LinkTick
  \/ QueueCommand
  \/ \E arrives \in BOOLEAN : TxComplete(arrives)
  \/ \E n \in 1 .. MaxSent : BoardActs(n) \/ \E result \in AckResults : AckReceived(n, result)

LinkSpec == LinkInit /\ [][LinkNext]_linkvars

-----------------------------------------------------------------------------
\* The variables stay within their types.
LinkTypeOK ==
  /\ snap \in [age : 0 .. AgeCap, online : BOOLEAN, streak : 0 .. RecoveryFrames]
  /\ dev \in [Sensors -> [age : SampleAges, streak : 0 .. RecoveryFrames, ready : BOOLEAN]]
  /\ command \in [state : CommandStates, no : 0 .. MaxSent, sent : BOOLEAN, age : 0 .. LifeCap]
  /\ started \in BOOLEAN
  /\ wire \in 0 .. MaxSent + 1
  /\ board \in [heard : SUBSET (1 .. MaxSent), done : SUBSET (1 .. MaxSent)]
  /\ count \in 0 .. MaxSent /\ polled \in BOOLEAN
  /\ good \in [Sensors -> 0 .. RecoveryFrames] /\ life \in 0 .. LifeCap

\* A command that is reported as applied has been carried out: no late answer to an
\* earlier one, no repeated or reordered answer and no return of its number is taken for it.
AppliedIsDone == command.state = "APPLIED" => command.no \in board.done

\* No command reaches the board twice, whatever is repeated, overwritten in the buffer or
\* completed for another: what is on the wire has not been heard.
SentOnce == wire \notin board.heard

\* No command is under way longer than its two deadlines allow, however often the board
\* says ACCEPTED and whenever the frame gets onto the line.
CommandIsBounded == Outstanding => life <= AcceptTimeout + ApplyTimeout + 4

\* A device that counts as ready has sent its last three samples in order, with no silence
\* of the link between them.
ReadyIsEarned == \A d \in Sensors : dev[d].ready => good[d] = RecoveryFrames

\* A device that counts as ready, on a link that does, has data that was fresh a tick ago.
ReadyIsFresh ==
  \A d \in Sensors : dev[d].ready =>
    /\ snap.online /\ snap.age <= LinkTimeout + 2
    /\ dev[d].age + snap.age <= StaleAge + 2
=============================================================================
