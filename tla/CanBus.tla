------------------------------- MODULE CanBus -------------------------------
(* The CAN transport of the X and Y drivers (fdcan.c, smd.c): commands cut     *)
(* into frames, replies put together from frames in one buffer, and the       *)
(* recovery of the controller. Interrupts come between any two steps of the   *)
(* LegacyIo loop; the loop's emergency part preempts the shell.               *)
(* A frame is one of the n parts of command or reply of; bytes are left out,  *)
(* and header, tail and checksum together accept exactly the whole frames.    *)
EXTENDS Naturals, Sequences

CONSTANTS
  TxSize,     \* elements of the TX FIFO (4 in the code)
  RxSize,     \* elements of RX FIFO 0 (4 in the code)
  MaxSends,   \* bound of the model: commands sent
  MaxFaults   \* bound of the model: faults of the controller or the line

ASSUME CanAssumption ==
  /\ TxSize \in Nat \ {0} /\ RxSize \in Nat \ {0}
  /\ MaxSends \in Nat /\ MaxFaults \in Nat

VARIABLES
  can,      \* g_can_recovery_requested, g_can_bus_off_active, g_can_hard_fault_active
  frame,    \* g_can_rx_frame: the parts in the buffer, frame_done
  sending,  \* can_send_long_msg of shell and loop: the next part, or none
  at,       \* where the loop is
  held,     \* the element can_read_fifo0_message has read and not yet released, or 0
  seen,     \* the status that can_recovery_poll has read and acts on; else "active"
  bus,      \* the controller: error state, HAL state, interrupts raised, RAM error code
  tx,       \* the TX FIFO
  fifo,     \* RX FIFO 0: everything received, and the first element not released
  last,     \* the frame that was last on the line
  heard,    \* what the drivers have heard and not yet forgotten
  air,      \* the part each command's reply has got to on the line
  refused,  \* history: commands that were reported as not sent
  taken,    \* history: how often the reply to each command has been processed
  known,    \* history: the loop has seen the bus off, and not restarted it
  sent, faults

canvars == <<can, frame, sending, at, held, seen, bus, tx, fifo, last, heard, air,
             refused, taken, known, sent, faults>>
code    == <<can, frame, sending, at, held, seen>>
history == <<refused, taken, known>>
line    == <<last, heard, air>>

Sends    == 1 .. MaxSends
Parts    == [of : Sends, k : {1, 2}, n : {1, 2}]
Nothing  == [of |-> 0, k |-> 0, n |-> 0]
Places   == {"rest", "emergency", "drain", "mark", "status", "decide", "withdraw",
             "restarted", "look", "hand", "polls"}

CanInit ==
  /\ can = [requested |-> FALSE, off |-> FALSE, hard |-> FALSE]
  /\ frame = [parts |-> <<>>, done |-> FALSE]
  /\ sending = [shell |-> Nothing, loop |-> Nothing]
  /\ at = "rest" /\ held = 0 /\ seen = "active"
  /\ bus = [state |-> "active", run |-> "BUSY", raised |-> {}, code |-> FALSE]
  /\ tx = <<>> /\ fifo = [log |-> <<>>, get |-> 1]
  /\ last = Nothing /\ heard = <<>> /\ air = [c \in Sends |-> Nothing]
  /\ refused = {} /\ taken = [c \in Sends |-> 0] /\ known = FALSE
  /\ sent = 0 /\ faults = 0

----------------------------------------------------------------------------
(* Sending.                                                                 *)

\* Mutant: the interrupts stay enabled while a command is sent.
MaskedNever == FALSE

\* can_send_long_msg disables the interrupts, and with them the preemption of the shell.
Masked == sending.shell # Nothing \/ sending.loop # Nothing

\* A command of n parts is begun by the shell, or in the loop by the emergency stop or
\* one of the polls.
Begin(who, n) ==
  /\ ~Masked /\ sending[who] = Nothing /\ sent < MaxSends
  /\ sent' = sent + 1
  /\ sending' = [sending EXCEPT ![who] = [of |-> sent + 1, k |-> 1, n |-> n]]
  /\ UNCHANGED <<can, frame, at, held, seen, bus, tx, fifo, line, history, faults>>

ShellSends == at = "rest" /\ \E n \in {1, 2} : Begin("shell", n)
LoopSends  == at \in {"emergency", "polls"} /\ \E n \in {1, 2} : Begin("loop", n)

\* The conditions on which can_send_msg refuses without asking the HAL.
Closed == can.requested \/ can.off \/ Len(tx) = TxSize

Next1(p) == IF p.k < p.n THEN [p EXCEPT !.k = @ + 1] ELSE Nothing

\* One pass of the loop in can_send_long_msg with its can_send_msg: the first refusal
\* ends it and leaves the parts before it in the FIFO.
SendPart(who) ==
  LET p == sending[who]
      refuses == Closed \/ bus.run # "BUSY"
      faulty  == ~Closed /\ bus.run # "BUSY"
  IN /\ p # Nothing
     /\ tx' = IF refuses THEN tx ELSE Append(tx, p)
     /\ sending' = [sending EXCEPT ![who] = IF refuses THEN Nothing ELSE Next1(p)]
     /\ refused' = IF refuses THEN refused \cup {p.of} ELSE refused
     /\ can' = IF faulty THEN [can EXCEPT !.requested = TRUE, !.hard = TRUE] ELSE can
     /\ UNCHANGED <<frame, at, held, seen, bus, fifo, line, taken, known, sent, faults>>

ShellPart == at = "rest" /\ SendPart("shell")
LoopPart  == SendPart("loop")

----------------------------------------------------------------------------
(* Receiving.                                                               *)

Fill == Len(fifo.log) + 1 - fifo.get

\* Every interrupt ends in HAL_FDCAN_ErrorCallback while the HAL's error code is set.
ErrorCallback(c) == IF bus.code THEN [c EXCEPT !.requested = TRUE, !.hard = TRUE] ELSE c

Emptied == [parts |-> <<>>, done |-> FALSE]

\* A part goes into the buffer; the first after a frame that is done begins a new one.
Into(f, p) == [parts |-> IF f.done THEN <<p>> ELSE Append(f.parts, p), done |-> FALSE]

\* HAL_FDCAN_RxFifo0Callback reads all that is in the FIFO.
RxInterrupt ==
  /\ ~Masked /\ Fill > 0 /\ bus.run = "BUSY"
  /\ frame' = [parts |-> (IF frame.done THEN <<>> ELSE frame.parts)
                           \o SubSeq(fifo.log, fifo.get, Len(fifo.log)),
               done |-> FALSE]
  /\ fifo' = [fifo EXCEPT !.get = Len(fifo.log) + 1]
  /\ can' = ErrorCallback(can)
  /\ UNCHANGED <<sending, at, held, seen, bus, tx, line, history, sent, faults>>

\* The same callback when the FIFO has lost a message.
LostInterrupt ==
  /\ ~Masked /\ "lost" \in bus.raised
  /\ bus' = [bus EXCEPT !.raised = @ \ {"lost"}]
  /\ frame' = Emptied
  /\ can' = ErrorCallback(can)
  /\ UNCHANGED <<sending, at, held, seen, tx, fifo, line, history, sent, faults>>

\* can_rx_timeout_check drains the FIFO with the interrupts enabled: the element is read,
\* and released by its number, whatever the interrupt has released in between.
DrainRead ==
  /\ at = "drain" /\ held = 0 /\ Fill > 0 /\ bus.run = "BUSY"
  /\ held' = fifo.get
  /\ UNCHANGED <<can, frame, sending, at, seen, bus, tx, fifo, line, history, sent, faults>>

\* Mutant: the element is released by counting instead of by its number.
DrainStoreNext ==
  /\ at = "drain" /\ held # 0
  /\ fifo' = [fifo EXCEPT !.get = @ + 1]
  /\ frame' = Into(frame, fifo.log[held])
  /\ held' = 0
  /\ UNCHANGED <<can, sending, at, seen, bus, tx, line, history, sent, faults>>

DrainStore ==
  /\ at = "drain" /\ held # 0
  /\ fifo' = [fifo EXCEPT !.get = held + 1]
  /\ frame' = Into(frame, fifo.log[held])
  /\ held' = 0
  /\ UNCHANGED <<can, sending, at, seen, bus, tx, line, history, sent, faults>>

\* Nothing more to drain. The silence of 5 ms is measured here, and marked in the next step.
DrainEnds ==
  /\ at = "drain" /\ held = 0 /\ (Fill = 0 \/ bus.run # "BUSY")
  /\ at' \in {"status"} \cup {p \in {"mark"} : frame.parts # <<>> /\ ~frame.done}
  /\ UNCHANGED <<can, frame, sending, held, seen, bus, tx, fifo, line, history, sent, faults>>

Mark ==
  /\ at = "mark" /\ at' = "status"
  /\ frame' = [frame EXCEPT !.done = TRUE]
  /\ UNCHANGED <<can, sending, held, seen, bus, tx, fifo, line, history, sent, faults>>

Look ==
  /\ at = "look"
  /\ at' = IF frame.done THEN "hand" ELSE "polls"
  /\ UNCHANGED <<can, frame, sending, held, seen, bus, tx, fifo, line, history, sent, faults>>

\* What smd_process_response accepts.
Whole(ps) == ps # <<>> /\ Len(ps) = ps[1].n /\ \A i \in DOMAIN ps : ps[i] = [ps[1] EXCEPT !.k = i]

\* Mutant: the buffer is marked as read, but not emptied.
HandOverKeeping ==
  /\ at = "hand" /\ at' = "polls"
  /\ frame' = [frame EXCEPT !.done = FALSE]
  /\ taken' = IF Whole(frame.parts) THEN [taken EXCEPT ![frame.parts[1].of] = @ + 1] ELSE taken
  /\ UNCHANGED <<can, sending, held, seen, bus, tx, fifo, line, refused, known, sent, faults>>

\* The buffer is copied and emptied with the interrupts disabled, then processed.
HandOver ==
  /\ at = "hand" /\ at' = "polls"
  /\ frame' = Emptied
  /\ taken' = IF Whole(frame.parts) THEN [taken EXCEPT ![frame.parts[1].of] = @ + 1] ELSE taken
  /\ UNCHANGED <<can, sending, held, seen, bus, tx, fifo, line, refused, known, sent, faults>>

----------------------------------------------------------------------------
(* Recovery.                                                                *)

\* Until the controller has heard the line idle for long enough, the restart leaves it off.
IsOff == bus.state \in {"off", "leaving"}

ReadStatus ==
  /\ at = "status" /\ at' = "decide"
  /\ seen' = IF IsOff THEN "off" ELSE bus.state
  /\ UNCHANGED <<can, frame, sending, held, bus, tx, fifo, line, history, sent, faults>>

\* Mutant: that the bus is off is left to the interrupt to note.
NotedByInterrupt(c) == [c EXCEPT !.requested = @ \/ seen = "off"]

\* The flags after the first half of can_recovery_poll.
Noted(c) == [c EXCEPT !.off = seen = "off", !.requested = @ \/ seen = "off"]

\* The request ends without a restart: the line is passive, or all is well again.
Withdrawn(c) == c.requested /\ ~c.off /\ ~c.hard /\ (seen = "passive" \/ Len(tx) < TxSize)

\* HAL_FDCAN_AbortTxRequest of all that is pending.
Abort == IF bus.run = "BUSY" THEN <<>> ELSE tx

\* On a passive line what is pending is given up when the grace time is over.
Grace == {tx} \cup {t \in {Abort} : seen = "passive"}

\* can_recovery_poll from the status on: no request; the request withdrawn; the delays not
\* over; HAL_FDCAN_Stop fails, for good as it requires BUSY; the controller restarted.
NoRequest ==
  /\ ~Noted(can).requested
  /\ can' = Noted(can) /\ tx' \in Grace
  /\ UNCHANGED <<bus, fifo, frame, faults>>

Withdraw ==
  /\ Withdrawn(Noted(can)) /\ can' = Noted(can)
  /\ tx' = IF seen = "passive" THEN Abort ELSE tx
  /\ UNCHANGED <<bus, fifo, frame, faults>>

Due == Noted(can).requested /\ ~Withdrawn(Noted(can)) /\ can' = Noted(can)

Wait ==
  /\ Due /\ tx' \in Grace
  /\ UNCHANGED <<bus, fifo, frame, faults>>

StopFails ==
  /\ Due /\ tx' = Abort
  /\ bus' = [bus EXCEPT !.run = "ERROR"]
  /\ UNCHANGED <<fifo, frame, faults>>

Restart ==
  /\ Due /\ bus.run = "BUSY"
  /\ tx' = <<>> /\ fifo' = [fifo EXCEPT !.get = Len(fifo.log) + 1] /\ frame' = Emptied
  /\ bus' = [bus EXCEPT !.state = IF IsOff THEN "leaving" ELSE "active", !.raised = {}, !.code = FALSE]
  /\ UNCHANGED faults

RecoveryPoll ==
  /\ at = "decide"
  /\ \/ (NoRequest \/ Wait \/ StopFails) /\ at' = "look"
     \/ Withdraw /\ at' = "withdraw"
     \/ Restart /\ at' = "restarted"
  /\ known' = (at' # "restarted" /\ (known \/ (seen = "off" /\ IsOff)))
  /\ seen' = "active"
  /\ UNCHANGED <<sending, held, line, refused, taken, sent>>

\* The request is withdrawn, and with it what an interrupt has requested since the look at
\* the flags; the next pass sees the status again.
Withdrawal ==
  /\ at = "withdraw" /\ at' = "look"
  /\ can' = [can EXCEPT !.requested = FALSE]
  /\ UNCHANGED <<frame, sending, held, seen, bus, tx, fifo, line, history, sent, faults>>

\* After the restart all flags are cleared, whatever an interrupt has set since.
Restarted ==
  /\ at = "restarted" /\ at' = "look"
  /\ can' = [requested |-> FALSE, off |-> FALSE, hard |-> FALSE]
  /\ UNCHANGED <<frame, sending, held, seen, bus, tx, fifo, line, history, sent, faults>>

\* HAL_FDCAN_ErrorStatusCallback for the bus-off.
BusOffInterrupt ==
  /\ ~Masked /\ "off" \in bus.raised
  /\ bus' = [bus EXCEPT !.raised = @ \ {"off"}]
  /\ can' = ErrorCallback([can EXCEPT !.requested = TRUE, !.off = TRUE])
  /\ UNCHANGED <<frame, sending, at, held, seen, tx, fifo, line, history, sent, faults>>

\* The message RAM failed: the error code is set, and the callback requests the recovery.
RamInterrupt ==
  /\ ~Masked /\ "ram" \in bus.raised
  /\ bus' = [bus EXCEPT !.raised = @ \ {"ram"}, !.code = TRUE]
  /\ can' = [can EXCEPT !.requested = TRUE, !.hard = TRUE]
  /\ UNCHANGED <<frame, sending, at, held, seen, tx, fifo, line, history, sent, faults>>

\* The loop's pass: the emergency part, then, if the mutex is free, the rest.
LoopPass ==
  /\ ~Masked
  /\ \/ at = "rest" /\ at' = "emergency"
     \/ at = "emergency" /\ at' \in {"drain", "rest"}
     \/ at = "polls" /\ at' = "rest"
  /\ UNCHANGED <<can, frame, sending, held, seen, bus, tx, fifo, line, history, sent, faults>>

----------------------------------------------------------------------------
(* Controller, line and drivers.                                            *)

\* A frame goes out; the drivers forget what they have heard when the line was silent for
\* 5 ms before it, and the one that has heard a whole command answers in n parts.
Transmit ==
  /\ tx # <<>> /\ ~IsOff /\ bus.run = "BUSY"
  /\ tx' = Tail(tx) /\ last' = Head(tx)
  /\ \E before \in {heard, <<>>} :
       LET h == Append(before, Head(tx))
       IN \/ /\ Whole(h) /\ heard' = <<>>
             /\ \/ UNCHANGED air               \* the driver does not answer
                \/ \E n \in {1, 2} :
                     air' = [air EXCEPT ![Head(tx).of] = [of |-> Head(tx).of, k |-> 1, n |-> n]]
          \/ ~Whole(h) /\ heard' = h /\ UNCHANGED air
  /\ UNCHANGED <<code, bus, fifo, history, sent, faults>>

\* A part of a reply arrives, or finds the FIFO full. A frame lasts a millisecond: RxSize of
\* them do not come between the reading of an element and its release.
Arrive(c) ==
  /\ held # 0 => Len(fifo.log) < held + RxSize
  /\ air[c] # Nothing /\ ~IsOff
  /\ air' = [air EXCEPT ![c] = Next1(@)]
  /\ IF Fill < RxSize
     THEN fifo' = [fifo EXCEPT !.log = Append(@, air[c])] /\ UNCHANGED bus
     ELSE bus' = [bus EXCEPT !.raised = @ \cup {"lost"}] /\ UNCHANGED fifo
  /\ UNCHANGED <<code, tx, last, heard, history, sent, faults>>

Fault ==
  /\ faults < MaxFaults /\ faults' = faults + 1
  /\ \/ bus' = [bus EXCEPT !.state = "off", !.raised = @ \cup {"off"}]
     \/ ~IsOff /\ bus' = [bus EXCEPT !.state = "passive"]
     \/ bus' = [bus EXCEPT !.raised = @ \cup {"ram"}]
  /\ UNCHANGED <<code, tx, fifo, line, history, sent>>

\* The line is good again; out of bus-off this takes a restart.
Eases ==
  /\ bus.state \in {"passive", "leaving"}
  /\ bus' = [bus EXCEPT !.state = "active"]
  /\ known' = FALSE
  /\ UNCHANGED <<code, tx, fifo, line, refused, taken, sent, faults>>

CanNext ==
  \/ ShellSends \/ LoopSends \/ ShellPart \/ LoopPart
  \/ RxInterrupt \/ LostInterrupt \/ BusOffInterrupt \/ RamInterrupt
  \/ LoopPass \/ DrainRead \/ DrainStore \/ DrainEnds \/ Mark \/ ReadStatus \/ RecoveryPoll
  \/ Withdrawal \/ Restarted \/ Look \/ HandOver
  \/ Transmit \/ (\E c \in Sends : Arrive(c)) \/ Fault \/ Eases

CanSpec == CanInit /\ [][CanNext]_canvars

----------------------------------------------------------------------------
(* Correctness.                                                             *)

\* The variables stay within their types; neither FIFO is ever over-full.
CanTypeOK ==
  /\ can \in [requested : BOOLEAN, off : BOOLEAN, hard : BOOLEAN]
  /\ frame.parts \in Seq(Parts) /\ frame.done \in BOOLEAN
  /\ sending \in [{"shell", "loop"} -> Parts \cup {Nothing}]
  /\ at \in Places /\ held \in 0 .. Len(fifo.log)
  /\ seen \in {"active", "passive", "off"}
  /\ bus \in [state : {"active", "passive", "off", "leaving"}, run : {"BUSY", "ERROR"},
              raised : SUBSET {"off", "ram", "lost"}, code : BOOLEAN]
  /\ tx \in Seq(Parts) /\ Len(tx) <= TxSize
  /\ fifo.log \in Seq(Parts) /\ fifo.get \in 1 .. Len(fifo.log) + 1 /\ Fill <= RxSize
  /\ last \in Parts \cup {Nothing} /\ heard \in Seq(Parts)
  /\ air \in [Sends -> Parts \cup {Nothing}]
  /\ refused \subseteq Sends /\ taken \in [Sends -> Nat] /\ known \in BOOLEAN
  /\ sent \in 0 .. MaxSends /\ faults \in 0 .. MaxFaults

\* The parts of a command stand one behind the other on the line: neither the emergency
\* stop that preempts the shell nor a refusal, a cancelled request or a restart puts a
\* part of another command, or a gap, before the rest of one.
CommandsUnbroken ==
  LET order == <<last>> \o tx
  IN \A i \in DOMAIN order :
       order[i].k > 1 => i = 1 \/ order[i - 1] = [order[i] EXCEPT !.k = @ - 1]

\* A reply is processed once at most, however loop and interrupt cross while they empty the
\* FIFO into the one buffer, and never for a command that was reported as not sent.
RepliesOnce == \A c \in Sends : taken[c] <= 1 /\ (taken[c] = 1 => c \notin refused)

\* When a pass of the loop has found the bus off, and it still is, no command goes into the
\* FIFO before a restart, whatever flags the interrupts set in between.
NothingIntoOff == [][known => Len(tx') <= Len(tx)]_canvars
=============================================================================
