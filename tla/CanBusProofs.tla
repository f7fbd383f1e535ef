----------------------------- MODULE CanBusProofs -----------------------------
(* Proofs about CanBus, for FIFOs of any size and any number of commands and faults: *)
(* the type invariant, that the parts of commands are never mixed, that nothing is   *)
(* queued for a bus that is known to be off, and that each reply is processed once.  *)
EXTENDS CanBus, Integers, SequenceTheorems, TLAPS

\* The flags and states.
Flags ==
  /\ can \in [requested : BOOLEAN, off : BOOLEAN, hard : BOOLEAN]
  /\ at \in Places
  /\ seen \in {"active", "passive", "off"}
  /\ bus \in [state : {"active", "passive", "off", "leaving"}, run : {"BUSY", "ERROR"},
              raised : SUBSET {"off", "ram", "lost"}, code : BOOLEAN]
  /\ known \in BOOLEAN

\* Commands, from their beginning to the drivers' answers.
Outgoing ==
  /\ sending \in [{"shell", "loop"} -> Parts \cup {Nothing}]
  /\ tx \in Seq(Parts) /\ Len(tx) <= TxSize
  /\ last \in Parts \cup {Nothing} /\ heard \in Seq(Parts)
  /\ air \in [Sends -> Parts \cup {Nothing}]
  /\ refused \subseteq Sends
  /\ sent \in 0 .. MaxSends /\ faults \in 0 .. MaxFaults

\* Replies. The element that the loop has read is among the last RxSize + 1 to come in,
\* so that its release does not bring back more than the FIFO holds.
Incoming ==
  /\ frame \in [parts : Seq(Parts), done : BOOLEAN]
  /\ fifo \in [log : Seq(Parts), get : Nat]
  /\ fifo.get \in 1 .. Len(fifo.log) + 1 /\ Fill <= RxSize
  /\ held \in 0 .. Len(fifo.log) /\ (held # 0 => Len(fifo.log) <= held + RxSize)
  /\ taken \in [Sends -> Nat]

TypeInv == Flags /\ Outgoing /\ Incoming

\* What stands on the line or in the FIFO before the element i.
Before(i) == IF i = 1 THEN last ELSE tx[i - 1]

\* CommandsUnbroken, without the sequence that joins the line and the FIFO.
Chained == \A i \in 1 .. Len(tx) : tx[i].k > 1 => Before(i) = [tx[i] EXCEPT !.k = @ - 1]

\* One command at a time is being sent, with the loop at its place for it, and the part
\* before the next one stands last.
Behind ==
  /\ sending.shell # Nothing => sending.loop = Nothing /\ at = "rest"
  /\ sending.loop # Nothing => at \in {"emergency", "polls"}
  /\ \A who \in {"shell", "loop"} :
       sending[who].k > 1 => Before(Len(tx) + 1) = [sending[who] EXCEPT !.k = @ - 1]

\* A bus that the loop has found off is off, and the loop knows it.
KnownIsOff == known => IsOff /\ can.off /\ at # "restarted" /\ (at = "decide" => seen = "off")

----------------------------------------------------------------------------
(* The type invariant.                                                      *)

\* The part after a part is a part, or there is none.
LEMMA NextPart == \A p \in Parts : Next1(p) \in Parts \cup {Nothing}
  BY DEF Next1, Parts

LEMMA FlagsInit == CanInit => Flags
<1> SUFFICES ASSUME CanInit PROVE Flags
  OBVIOUS
<1>1. can \in [requested : BOOLEAN, off : BOOLEAN, hard : BOOLEAN] /\ known \in BOOLEAN
  BY DEF CanInit
<1>2. at \in Places /\ seen \in {"active", "passive", "off"}
  BY DEF CanInit, Places
<1>3. bus \in [state : {"active", "passive", "off", "leaving"}, run : {"BUSY", "ERROR"},
               raised : SUBSET {"off", "ram", "lost"}, code : BOOLEAN]
  BY DEF CanInit
<1> QED BY <1>1, <1>2, <1>3 DEF Flags

LEMMA FlagsStep == ASSUME Flags, [CanNext]_canvars PROVE Flags'
<1> USE DEF Flags, Places, code, line, history
<1>1. CASE ShellSends BY <1>1 DEF ShellSends, Begin
<1>2. CASE LoopSends BY <1>2 DEF LoopSends, Begin
<1>3. CASE ShellPart BY <1>3 DEF ShellPart, SendPart
<1>4. CASE LoopPart BY <1>4 DEF LoopPart, SendPart
<1>5. CASE RxInterrupt BY <1>5 DEF RxInterrupt, ErrorCallback
<1>6. CASE LostInterrupt BY <1>6 DEF LostInterrupt, ErrorCallback
<1>7. CASE BusOffInterrupt BY <1>7 DEF BusOffInterrupt, ErrorCallback
<1>8. CASE RamInterrupt BY <1>8 DEF RamInterrupt
<1>9. CASE LoopPass BY <1>9 DEF LoopPass
<1>10. CASE DrainRead \/ DrainStore BY <1>10 DEF DrainRead, DrainStore
<1>11. CASE DrainEnds \/ Mark \/ Look \/ HandOver
  BY <1>11 DEF DrainEnds, Mark, Look, HandOver
<1>12. CASE ReadStatus BY <1>12 DEF ReadStatus, IsOff
<1>13. CASE RecoveryPoll
  <2> DEFINE N == Noted(can)
  <2>1. N \in [requested : BOOLEAN, off : BOOLEAN, hard : BOOLEAN]
    BY DEF Noted
  <2>2. can' \in {can, N}
    BY <1>13 DEF RecoveryPoll, NoRequest, Withdraw, Wait, StopFails, Restart, Due
  <2>3. /\ bus' \in [state : {"active", "passive", "off", "leaving"}, run : {"BUSY", "ERROR"},
                     raised : SUBSET {"off", "ram", "lost"}, code : BOOLEAN]
    BY <1>13 DEF RecoveryPoll, NoRequest, Withdraw, Wait, StopFails, Restart
  <2>4. at' \in Places /\ seen' \in {"active", "passive", "off"}
    BY <1>13 DEF RecoveryPoll
  <2>5. known' \in BOOLEAN
    BY <1>13, Zenon DEF RecoveryPoll
  <2> QED BY <2>1, <2>2, <2>3, <2>4, <2>5
<1>14. CASE Withdrawal BY <1>14 DEF Withdrawal
<1>15. CASE Restarted BY <1>15 DEF Restarted
<1>16. CASE Transmit BY <1>16 DEF Transmit
<1>17. CASE \E c \in Sends : Arrive(c) BY <1>17 DEF Arrive
<1>18. CASE Fault
  <2>1. UNCHANGED <<can, at, seen, known>>
    BY <1>18 DEF Fault
  <2>2. \/ bus' = [bus EXCEPT !.state = "off", !.raised = @ \cup {"off"}]
        \/ bus' = [bus EXCEPT !.state = "passive"]
        \/ bus' = [bus EXCEPT !.raised = @ \cup {"ram"}]
    BY <1>18 DEF Fault
  <2>3. bus' \in
          [state : {"active", "passive", "off", "leaving"}, run : {"BUSY", "ERROR"},
           raised : SUBSET {"off", "ram", "lost"}, code : BOOLEAN]
    <3>1. CASE bus' = [bus EXCEPT !.state = "off", !.raised = @ \cup {"off"}]
      BY <3>1
    <3>2. CASE bus' = [bus EXCEPT !.state = "passive"]
      BY <3>2
    <3>3. CASE bus' = [bus EXCEPT !.raised = @ \cup {"ram"}]
      BY <3>3
    <3> QED BY <2>2, <3>1, <3>2, <3>3, Zenon
  <2>4. can' \in [requested : BOOLEAN, off : BOOLEAN, hard : BOOLEAN] /\ at' \in Places
        /\ seen' \in {"active", "passive", "off"}
    BY <2>1
  <2>5. known' \in BOOLEAN
    BY <2>1, Zenon
  <2> QED BY <2>3, <2>4, <2>5
<1>19. CASE Eases BY <1>19 DEF Eases
<1>20. CASE UNCHANGED canvars BY <1>20 DEF canvars
<1> QED
  BY <1>1, <1>2, <1>3, <1>4, <1>5, <1>6, <1>7, <1>8, <1>9, <1>10, <1>11, <1>12, <1>13,
     <1>14, <1>15, <1>16, <1>17, <1>18, <1>19, <1>20 DEF CanNext

LEMMA OutgoingInit == CanInit => Outgoing
  BY CanAssumption DEF CanInit, Outgoing, Sends

LEMMA OutgoingStep == ASSUME Outgoing, [CanNext]_canvars PROVE Outgoing'
<1> USE DEF Outgoing, code, line, history
<1>1. CASE ShellSends \/ LoopSends
  <2>1. PICK who \in {"shell", "loop"}, n \in {1, 2} : Begin(who, n)
    BY <1>1 DEF ShellSends, LoopSends
  <2>2. [of |-> sent + 1, k |-> 1, n |-> n] \in Parts /\ sent + 1 \in 0 .. MaxSends
    BY <2>1, CanAssumption DEF Begin, Parts, Sends
  <2> QED BY <2>1, <2>2 DEF Begin
<1>2. CASE ShellPart \/ LoopPart
  <2>1. PICK who \in {"shell", "loop"} : SendPart(who)
    BY <1>2 DEF ShellPart, LoopPart
  <2>2. sending[who] \in Parts /\ sending[who].of \in Sends
    BY <2>1 DEF SendPart, Parts
  <2>3. Next1(sending[who]) \in Parts \cup {Nothing}
    BY <2>2, NextPart
  <2>4. tx' = tx \/ (Len(tx) # TxSize /\ tx' = Append(tx, sending[who]))
    BY <2>1 DEF SendPart, Closed
  <2>5. tx' \in Seq(Parts) /\ Len(tx') <= TxSize
    BY <2>2, <2>4, CanAssumption
  <2>6. sending' \in [{"shell", "loop"} -> Parts \cup {Nothing}] /\ refused' \subseteq Sends
    BY <2>1, <2>2, <2>3 DEF SendPart
  <2> QED BY <2>1, <2>5, <2>6 DEF SendPart
<1>3. CASE RecoveryPoll
  <2>1. tx' = tx \/ tx' = <<>>
    BY <1>3 DEF RecoveryPoll, NoRequest, Withdraw, Wait, StopFails, Restart, Grace, Abort
  <2>2. tx' \in Seq(Parts) /\ Len(tx') <= TxSize
    <3>1. <<>> \in Seq(Parts) /\ Len(<<>>) = 0 /\ 0 <= TxSize
      BY CanAssumption
    <3> QED BY <2>1, <3>1
  <2>3. UNCHANGED <<sending, line, refused, sent, faults>>
    BY <1>3 DEF RecoveryPoll, NoRequest, Withdraw, Wait, StopFails, Restart
  <2> QED BY <2>2, <2>3
<1>4. CASE Transmit
  <2>1. tx # <<>> /\ Head(tx) \in Parts /\ Tail(tx) \in Seq(Parts) /\ Len(Tail(tx)) = Len(tx) - 1
    BY <1>4, HeadTailProperties DEF Transmit
  <2>2. tx' \in Seq(Parts) /\ Len(tx') <= TxSize /\ last' \in Parts
    <3>1. Len(tx) \in Nat
      BY LenProperties
    <3> QED BY <1>4, <2>1, <3>1, CanAssumption DEF Transmit
  <2>3. heard' \in Seq(Parts)
    <3>1. heard' = <<>> \/ \E before \in {heard, <<>>} : heard' = Append(before, Head(tx))
      BY <1>4 DEF Transmit
    <3>2. \A before \in {heard, <<>>} : before \in Seq(Parts) /\ Append(before, Head(tx)) \in Seq(Parts)
      <4>1. heard \in Seq(Parts) /\ <<>> \in Seq(Parts)
        OBVIOUS
      <4> QED BY <2>1, <4>1, AppendProperties
    <3>3. <<>> \in Seq(Parts)
      OBVIOUS
    <3> QED BY <3>1, <3>2, <3>3
  <2>4. air' \in [Sends -> Parts \cup {Nothing}]
    <3>1. air' = air \/ \E n \in {1, 2} :
            air' = [air EXCEPT ![Head(tx).of] = [of |-> Head(tx).of, k |-> 1, n |-> n]]
      BY <1>4 DEF Transmit
    <3>2. \A p \in Parts, n \in {1, 2} : p.of \in Sends /\ [of |-> p.of, k |-> 1, n |-> n] \in Parts
      BY DEF Parts
    <3> QED BY <2>1, <3>1, <3>2, SMTT(30)
  <2> QED BY <1>4, <2>2, <2>3, <2>4 DEF Transmit
<1>5. CASE \E c \in Sends : Arrive(c)
  <2>1. PICK c \in Sends : Arrive(c)
    BY <1>5
  <2>2. Next1(air[c]) \in Parts \cup {Nothing}
    BY <2>1, NextPart DEF Arrive
  <2> QED BY <2>1, <2>2 DEF Arrive
<1>6. CASE Fault BY <1>6, CanAssumption DEF Fault
<1>7. CASE Eases BY <1>7 DEF Eases
<1>8. CASE RxInterrupt \/ LostInterrupt \/ BusOffInterrupt \/ RamInterrupt
  BY <1>8 DEF RxInterrupt, LostInterrupt, BusOffInterrupt, RamInterrupt
<1>9. CASE LoopPass \/ DrainRead \/ DrainStore \/ DrainEnds \/ Mark \/ ReadStatus
  BY <1>9 DEF LoopPass, DrainRead, DrainStore, DrainEnds, Mark, ReadStatus
<1>10. CASE Withdrawal \/ Restarted \/ Look \/ HandOver
  BY <1>10 DEF Withdrawal, Restarted, Look, HandOver
<1>11. CASE UNCHANGED canvars BY <1>11 DEF canvars
<1> QED
  BY <1>1, <1>2, <1>3, <1>4, <1>5, <1>6, <1>7, <1>8, <1>9, <1>10, <1>11 DEF CanNext

LEMMA IncomingInit == CanInit => Incoming
  BY CanAssumption DEF CanInit, Incoming, Fill, Sends

LEMMA IncomingStep ==
  ASSUME Flags, Outgoing, Incoming, [CanNext]_canvars PROVE Incoming'
<1> DEFINE Buffers == [parts : Seq(Parts), done : BOOLEAN]
           Stays == UNCHANGED <<frame, fifo, held, taken>>
<1> USE DEF code, line, history
<1>1. ASSUME Stays PROVE Incoming'
  BY <1>1 DEF Incoming, Fill
<1>2. CASE RxInterrupt
  <2>1. SubSeq(fifo.log, fifo.get, Len(fifo.log)) \in Seq(Parts)
    BY SubSeqProperties DEF Incoming
  <2>2. frame' \in Buffers
    BY <1>2, <2>1, ConcatProperties DEF RxInterrupt, Incoming
  <2>3. /\ fifo' \in [log : Seq(Parts), get : Nat]
        /\ fifo'.log = fifo.log /\ fifo'.get = Len(fifo.log) + 1
    <3>1. fifo \in [log : Seq(Parts), get : Nat] /\ Len(fifo.log) + 1 \in Nat
      BY LenProperties DEF Incoming
    <3> QED BY <1>2, <3>1 DEF RxInterrupt
  <2>4. held' = held /\ taken' = taken
    BY <1>2 DEF RxInterrupt
  <2> QED BY <2>2, <2>3, <2>4, CanAssumption DEF Incoming, Fill
<1>3. CASE LostInterrupt
  BY <1>3 DEF LostInterrupt, Incoming, Fill, Emptied
<1>4. CASE DrainRead
  BY <1>4, CanAssumption DEF DrainRead, Incoming, Fill
<1>5. CASE DrainStore
  <2>1. fifo.log[held] \in Parts
    BY <1>5 DEF DrainStore, Incoming
  <2>2. frame' \in Buffers
    BY <1>5, <2>1 DEF DrainStore, Incoming, Into
  <2>3. /\ fifo' \in [log : Seq(Parts), get : Nat]
        /\ fifo'.log = fifo.log /\ fifo'.get = held + 1
    BY <1>5 DEF DrainStore, Incoming
  <2>4. held' = 0 /\ held # 0 /\ taken' = taken
    BY <1>5 DEF DrainStore
  <2> QED BY <2>2, <2>3, <2>4, CanAssumption DEF Incoming, Fill
<1>6. CASE Mark
  BY <1>6 DEF Mark, Incoming, Fill
<1>7. CASE HandOver
  <2>1. frame' \in Buffers /\ UNCHANGED <<fifo, held>>
    BY <1>7 DEF HandOver, Emptied
  <2>2. Whole(frame.parts) => frame.parts[1].of \in Sends
    <3>1. frame.parts \in Seq(Parts)
      BY DEF Incoming
    <3>2. \A ps \in Seq(Parts) : ps # <<>> => ps[1] \in Parts
      BY HeadTailProperties
    <3>3. \A p \in Parts : p.of \in Sends
      BY DEF Parts
    <3> QED BY <3>1, <3>2, <3>3 DEF Whole
  <2>3. taken' \in [Sends -> Nat]
    BY <1>7, <2>2 DEF HandOver, Incoming
  <2> QED BY <2>1, <2>3 DEF Incoming, Fill
<1>8. CASE RecoveryPoll
  <2>1. UNCHANGED <<held, taken>>
    BY <1>8 DEF RecoveryPoll
  <2>2. CASE UNCHANGED <<fifo, frame>>
    BY <1>1, <2>1, <2>2
  <2>3. CASE Restart
    <3>1. frame' \in Buffers
      BY <2>3 DEF Restart, Emptied
    <3>2. /\ fifo' \in [log : Seq(Parts), get : Nat]
          /\ fifo'.log = fifo.log /\ fifo'.get = Len(fifo.log) + 1
      BY <2>3 DEF Restart, Incoming
    <3> QED BY <2>1, <3>1, <3>2, CanAssumption DEF Incoming, Fill
  <2> QED BY <1>8, <2>2, <2>3 DEF RecoveryPoll, NoRequest, Withdraw, Wait, StopFails
<1>9. CASE \E c \in Sends : Arrive(c)
  <2>1. PICK c \in Sends : Arrive(c)
    BY <1>9
  <2>2. air[c] \in Parts
    BY <2>1 DEF Arrive, Outgoing
  <2>3. CASE UNCHANGED fifo
    BY <1>1, <2>1, <2>3 DEF Arrive
  <2>4. CASE Fill < RxSize /\ fifo' = [fifo EXCEPT !.log = Append(@, air[c])]
    <3>1. /\ fifo' \in [log : Seq(Parts), get : Nat] /\ fifo'.get = fifo.get
          /\ Len(fifo'.log) = Len(fifo.log) + 1
      <4>1. fifo \in [log : Seq(Parts), get : Nat]
        BY DEF Incoming
      <4>2. /\ Append(fifo.log, air[c]) \in Seq(Parts)
            /\ Len(Append(fifo.log, air[c])) = Len(fifo.log) + 1
        BY <2>2, <4>1, AppendProperties
      <4>3. fifo' = [log |-> Append(fifo.log, air[c]), get |-> fifo.get]
        BY <2>4, <4>1
      <4> QED BY <4>1, <4>2, <4>3
    <3>2. UNCHANGED <<frame, held, taken>> /\ (held # 0 => Len(fifo.log) < held + RxSize)
      BY <2>1 DEF Arrive
    <3> QED BY <2>4, <3>1, <3>2, CanAssumption, SMTT(30) DEF Incoming, Fill
  <2> QED BY <2>1, <2>3, <2>4 DEF Arrive
<1>10. CASE ShellSends \/ LoopSends \/ ShellPart \/ LoopPart
  BY <1>1, <1>10 DEF ShellSends, LoopSends, ShellPart, LoopPart, Begin, SendPart
<1>11. CASE BusOffInterrupt \/ RamInterrupt \/ LoopPass \/ DrainEnds \/ ReadStatus
  BY <1>1, <1>11 DEF BusOffInterrupt, RamInterrupt, LoopPass, DrainEnds, ReadStatus
<1>12. CASE Withdrawal \/ Restarted \/ Look \/ Transmit \/ Fault \/ Eases
  BY <1>1, <1>12 DEF Withdrawal, Restarted, Look, Transmit, Fault, Eases
<1>13. CASE UNCHANGED canvars
  BY <1>1, <1>13 DEF canvars
<1> QED
  BY <1>2, <1>3, <1>4, <1>5, <1>6, <1>7, <1>8, <1>9, <1>10, <1>11, <1>12, <1>13 DEF CanNext

LEMMA TypeInvariant == CanSpec => []TypeInv
<1>1. CanInit => TypeInv
  BY FlagsInit, OutgoingInit, IncomingInit DEF TypeInv
<1>2. TypeInv /\ [CanNext]_canvars => TypeInv'
  BY FlagsStep, OutgoingStep, IncomingStep DEF TypeInv
<1> QED BY <1>1, <1>2, PTL DEF CanSpec

\* The variables stay within their types, and neither FIFO is ever over-full: the loop
\* releases an element by its number (can_read_fifo0_message), and the interrupt has not
\* emptied and refilled the FIFO in between.
THEOREM CanTypeCorrect == CanSpec => []CanTypeOK
<1>1. TypeInv => CanTypeOK
  BY DEF TypeInv, Flags, Outgoing, Incoming, CanTypeOK
<1> QED BY <1>1, TypeInvariant, PTL

----------------------------------------------------------------------------
(* The parts of commands.                                                   *)

LEMMA ChainInit == CanInit => Chained /\ Behind
  BY DEF CanInit, Chained, Behind, Nothing, Before

LEMMA ChainStep ==
  ASSUME Outgoing, Chained, Behind, [CanNext]_canvars PROVE Chained' /\ Behind'
<1> USE DEF code, line, history
<1>1. ASSUME UNCHANGED <<tx, last, sending, at>> PROVE Chained' /\ Behind'
  BY <1>1 DEF Chained, Behind, Before
\* What is sent stays, the loop moves, and nothing is being sent or the FIFO stays.
<1>2. ASSUME UNCHANGED <<last, sending>>, ~Masked, tx' = tx \/ tx' = <<>>
      PROVE Chained' /\ Behind'
  BY <1>2 DEF Chained, Behind, Before, Masked, Nothing
<1>3. ASSUME UNCHANGED <<last, sending>>, tx' = tx \/ tx' = <<>>,
             at \notin {"rest", "emergency", "polls"}
      PROVE Chained' /\ Behind'
  BY <1>2, <1>3 DEF Behind, Masked
<1>4. CASE ShellSends \/ LoopSends
  <2>1. PICK who \in {"shell", "loop"}, n \in {1, 2} :
          /\ Begin(who, n)
          /\ who = "shell" => at = "rest"
          /\ who = "loop" => at \in {"emergency", "polls"}
    BY <1>4 DEF ShellSends, LoopSends
  <2>2. UNCHANGED <<tx, last, at>> /\ sending.shell = Nothing /\ sending.loop = Nothing
    BY <2>1 DEF Begin, Masked
  <2>3. \A w \in {"shell", "loop"} : sending'[w] = Nothing \/ (w = who /\ sending'[w].k = 1)
    BY <2>1, <2>2 DEF Begin, Outgoing
  <2>4. Behind'
    BY <2>1, <2>2, <2>3 DEF Behind, Nothing
  <2>5. Chained'
    BY <2>2 DEF Chained, Before
  <2> QED BY <2>4, <2>5
<1>5. CASE ShellPart \/ LoopPart
  <2>1. PICK who \in {"shell", "loop"} : SendPart(who)
    BY <1>5 DEF ShellPart, LoopPart
  <2> DEFINE p == sending[who]
  <2>2. UNCHANGED <<last, at>> /\ p # Nothing /\ p \in Parts
    BY <2>1 DEF SendPart, Outgoing
  <2>3. \A w \in {"shell", "loop"} \ {who} : sending[w] = Nothing /\ sending'[w] = Nothing
    BY <2>1, <2>2 DEF SendPart, Behind, Outgoing
  <2>4. CASE tx' = tx /\ sending'[who] = Nothing
    BY <2>2, <2>3, <2>4 DEF Chained, Behind, Before, Nothing
  <2>5. CASE tx' = Append(tx, p) /\ sending'[who] = Next1(p)
    <3>1. Len(tx') = Len(tx) + 1 /\ tx'[Len(tx) + 1] = p /\ \A i \in 1 .. Len(tx) : tx'[i] = tx[i]
      BY <2>2, <2>5 DEF Outgoing
    <3>0. Len(tx) \in Nat
      BY LenProperties DEF Outgoing
    <3>2. \A i \in 1 .. Len(tx) + 1 : (IF i = 1 THEN last' ELSE tx'[i - 1]) = Before(i)
      <4>1. \A i \in 1 .. Len(tx) + 1 : i # 1 => i - 1 \in 1 .. Len(tx)
        BY <3>0
      <4> QED BY <2>2, <3>1, <4>1 DEF Before
    <3>3. Chained'
      <4>1. SUFFICES ASSUME NEW i \in 1 .. Len(tx'), tx'[i].k > 1
                     PROVE (IF i = 1 THEN last' ELSE tx'[i - 1]) = [tx'[i] EXCEPT !.k = @ - 1]
        BY DEF Chained, Before
      <4>2. i \in 1 .. Len(tx) + 1 /\ (i \in 1 .. Len(tx) \/ i = Len(tx) + 1)
        BY <3>0, <3>1
      <4>3. CASE i \in 1 .. Len(tx)
        BY <3>1, <3>2, <4>1, <4>2, <4>3 DEF Chained
      <4>4. CASE i = Len(tx) + 1
        BY <3>1, <3>2, <4>1, <4>2, <4>4 DEF Behind
      <4> QED BY <4>2, <4>3, <4>4
    <3>4. (IF Len(tx') + 1 = 1 THEN last' ELSE tx'[(Len(tx') + 1) - 1]) = p
      BY <3>0, <3>1
    <3>5. Next1(p).k > 1 => p = [Next1(p) EXCEPT !.k = @ - 1]
      BY <2>2 DEF Next1, Parts, Nothing
    <3>6. Behind'
      <4>1. \A w \in {"shell", "loop"} : sending'[w].k > 1 =>
              (IF Len(tx') + 1 = 1 THEN last' ELSE tx'[(Len(tx') + 1) - 1]) = [sending'[w] EXCEPT !.k = @ - 1]
        BY <2>3, <2>5, <3>4, <3>5 DEF Nothing
      <4>2. /\ sending'.shell # Nothing => sending'.loop = Nothing /\ at' = "rest"
            /\ sending'.loop # Nothing => at' \in {"emergency", "polls"}
        BY <2>2, <2>3 DEF Behind
      <4> QED BY <4>1, <4>2 DEF Behind, Before
    <3> QED BY <3>3, <3>6
  <2> QED BY <2>1, <2>4, <2>5 DEF SendPart, Outgoing
<1>6. CASE Transmit
  <2>1. tx # <<>> /\ tx' = Tail(tx) /\ last' = tx[1] /\ UNCHANGED <<sending, at>>
    BY <1>6 DEF Transmit, Outgoing
  <2>2. Len(tx') = Len(tx) - 1 /\ \A i \in 1 .. Len(tx') : tx'[i] = tx[i + 1]
    BY <2>1 DEF Outgoing
  <2>3. \A i \in 1 .. Len(tx) : Before(i)' = Before(i + 1)
    BY <2>1, <2>2 DEF Before, Outgoing
  <2>4. Chained'
    BY <2>2, <2>3, SMTT(30) DEF Chained, Outgoing
  <2>5. Behind'
    <3>1. Len(tx) \in Nat /\ Len(tx) >= 1 /\ Len(tx') + 1 = Len(tx)
      BY <2>1, <2>2, EmptySeq, LenProperties DEF Outgoing
    <3>2. (IF Len(tx') + 1 = 1 THEN last' ELSE tx'[(Len(tx') + 1) - 1]) = Before(Len(tx) + 1)
      BY <2>1, <2>2, <3>1 DEF Before
    <3> QED BY <2>1, <3>2 DEF Behind, Before
  <2> QED BY <2>4, <2>5
<1>7. CASE RecoveryPoll
  <2>1. at = "decide" /\ (tx' = tx \/ tx' = <<>>) /\ UNCHANGED <<last, sending>>
    BY <1>7 DEF RecoveryPoll, NoRequest, Withdraw, Wait, StopFails, Restart, Grace, Abort
  <2> QED BY <1>3, <2>1
<1>8. CASE LoopPass
  BY <1>2, <1>8 DEF LoopPass
<1>9. CASE DrainEnds \/ Mark \/ ReadStatus \/ Withdrawal \/ Restarted \/ Look \/ HandOver
  BY <1>3, <1>9 DEF DrainEnds, Mark, ReadStatus, Withdrawal, Restarted, Look, HandOver
<1>10. CASE RxInterrupt \/ LostInterrupt \/ BusOffInterrupt \/ RamInterrupt
  BY <1>1, <1>10 DEF RxInterrupt, LostInterrupt, BusOffInterrupt, RamInterrupt
<1>11. CASE DrainRead \/ DrainStore \/ (\E c \in Sends : Arrive(c)) \/ Fault \/ Eases
  BY <1>1, <1>11 DEF DrainRead, DrainStore, Arrive, Fault, Eases
<1>12. CASE UNCHANGED canvars
  BY <1>1, <1>12 DEF canvars
<1> QED
  BY <1>4, <1>5, <1>6, <1>7, <1>8, <1>9, <1>10, <1>11, <1>12 DEF CanNext

LEMMA ChainInvariant == CanSpec => [](Chained /\ Behind)
<1>1. TypeInv /\ Chained /\ Behind /\ [CanNext]_canvars => (Chained /\ Behind)'
  BY ChainStep DEF TypeInv
<1> QED BY <1>1, ChainInit, TypeInvariant, PTL DEF CanSpec

\* The parts of a command stand one behind the other on the line, whoever sends: while
\* can_send_long_msg is under way no other command is, the loop is where it does not
\* touch the FIFO, and a refusal ends the command.
THEOREM CommandsStayWhole == CanSpec => []CommandsUnbroken
<1>1. Outgoing /\ Chained => CommandsUnbroken
  <2> SUFFICES ASSUME Outgoing, Chained PROVE CommandsUnbroken
    OBVIOUS
  <2> DEFINE order == <<last>> \o tx
  <2>1. order \in Seq(Parts \cup {Nothing}) /\ Len(order) = Len(tx) + 1 /\ order[1] = last
    BY DEF Outgoing
  <2>2. \A i \in 1 .. Len(tx) : order[i + 1] = tx[i]
    BY DEF Outgoing
  <2>3. \A i \in 1 .. Len(tx) : order[i] = Before(i)
    BY <2>1, <2>2 DEF Before, Outgoing
  <2>4. SUFFICES ASSUME NEW i \in DOMAIN order, order[i].k > 1, i # 1
                 PROVE order[i - 1] = [order[i] EXCEPT !.k = @ - 1]
    BY DEF CommandsUnbroken
  <2>5. i - 1 \in 1 .. Len(tx) /\ order[i] = tx[i - 1] /\ order[i - 1] = Before(i - 1)
    <3> HIDE DEF order
    <3>1. i \in 2 .. Len(tx) + 1
      BY <2>1, <2>4 DEF Outgoing
    <3>2. (i - 1) + 1 = i
      BY <3>1
    <3> QED BY <2>2, <2>3, <3>1, <3>2 DEF Outgoing
  <2> QED BY <2>4, <2>5 DEF Chained
<1>2. TypeInv => Outgoing
  BY DEF TypeInv
<1> QED BY <1>1, <1>2, TypeInvariant, ChainInvariant, PTL

----------------------------------------------------------------------------
(* A bus that is off.                                                       *)

LEMMA KnownInit == CanInit => KnownIsOff
  BY DEF CanInit, KnownIsOff

LEMMA KnownStep == ASSUME Flags, KnownIsOff, [CanNext]_canvars PROVE KnownIsOff'
<1> USE DEF code, line, history
<1>1. ASSUME UNCHANGED <<known, at, seen>>, bus'.state = bus.state \/ IsOff', can'.off = can.off \/ can'.off
      PROVE KnownIsOff'
  BY <1>1 DEF KnownIsOff, IsOff
<1>2. CASE ShellSends \/ LoopSends
  BY <1>1, <1>2 DEF ShellSends, LoopSends, Begin
<1>3. CASE ShellPart \/ LoopPart
  BY <1>1, <1>3 DEF ShellPart, LoopPart, SendPart, Flags
<1>4. CASE RxInterrupt \/ LostInterrupt \/ BusOffInterrupt \/ RamInterrupt
  BY <1>1, <1>4 DEF RxInterrupt, LostInterrupt, BusOffInterrupt, RamInterrupt, ErrorCallback, Flags
<1>5. CASE DrainRead \/ DrainStore \/ Transmit
  BY <1>1, <1>5 DEF DrainRead, DrainStore, Transmit
<1>6. CASE \E c \in Sends : Arrive(c)
  BY <1>1, <1>6 DEF Arrive, Flags
<1>7. CASE Fault
  BY <1>7 DEF Fault, KnownIsOff, IsOff, Flags
<1>8. CASE Eases
  BY <1>8 DEF Eases, KnownIsOff
<1>9. CASE LoopPass \/ DrainEnds \/ Mark \/ Look \/ HandOver
  BY <1>9 DEF LoopPass, DrainEnds, Mark, Look, HandOver, KnownIsOff, IsOff
<1>10. CASE ReadStatus
  BY <1>10 DEF ReadStatus, KnownIsOff, IsOff
<1>11. CASE Withdrawal
  BY <1>11 DEF Withdrawal, KnownIsOff, IsOff, Flags
<1>12. CASE Restarted
  BY <1>12 DEF Restarted, KnownIsOff
<1>13. CASE RecoveryPoll
  <2> SUFFICES ASSUME known' PROVE KnownIsOff'
    BY DEF KnownIsOff
  <2>1. at' \in {"look", "withdraw"} /\ seen = "off" /\ IsOff /\ can' = Noted(can)
    BY <1>13 DEF RecoveryPoll, NoRequest, Withdraw, Wait, StopFails, Due, KnownIsOff
  <2>2. can'.off
    BY <2>1 DEF Noted, Flags
  <2>3. bus'.state = bus.state
    BY <1>13, <2>1 DEF RecoveryPoll, NoRequest, Withdraw, Wait, StopFails, Flags
  <2> QED BY <2>1, <2>2, <2>3 DEF KnownIsOff, IsOff
<1>14. CASE UNCHANGED canvars
  BY <1>1, <1>14 DEF canvars
<1> QED
  BY <1>2, <1>3, <1>4, <1>5, <1>6, <1>7, <1>8, <1>9, <1>10, <1>11, <1>12, <1>13, <1>14
  DEF CanNext

\* When a pass of the loop has found the bus off, and it still is, no command goes into the
\* FIFO before a restart: the pass has set g_can_bus_off_active, and no interrupt, no
\* withdrawn request and no failed HAL_FDCAN_Stop clears it.
THEOREM NothingQueuedWhenOff == CanSpec => NothingIntoOff
<1>1. TypeInv /\ KnownIsOff /\ [CanNext]_canvars => [known => Len(tx') <= Len(tx)]_canvars
  <2> SUFFICES ASSUME Outgoing, KnownIsOff, CanNext, known PROVE Len(tx') <= Len(tx)
    BY DEF TypeInv
  <2> USE DEF code, line, history
  <2>1. CASE UNCHANGED tx
    BY <2>1 DEF Outgoing
  <2>2. CASE ShellPart \/ LoopPart
    BY <2>1, <2>2 DEF ShellPart, LoopPart, SendPart, Closed, KnownIsOff
  <2>3. CASE RecoveryPoll
    <3>1. tx' = tx \/ tx' = <<>>
      BY <2>3 DEF RecoveryPoll, NoRequest, Withdraw, Wait, StopFails, Restart, Grace, Abort
    <3> QED BY <3>1 DEF Outgoing
  <2>4. CASE Transmit
    BY <2>4 DEF Transmit, Outgoing
  <2>5. CASE ShellSends \/ LoopSends \/ (\E c \in Sends : Arrive(c)) \/ Fault \/ Eases
    BY <2>1, <2>5 DEF ShellSends, LoopSends, Begin, Arrive, Fault, Eases
  <2>6. CASE RxInterrupt \/ LostInterrupt \/ BusOffInterrupt \/ RamInterrupt
    BY <2>1, <2>6 DEF RxInterrupt, LostInterrupt, BusOffInterrupt, RamInterrupt
  <2>7. CASE LoopPass \/ DrainRead \/ DrainStore \/ DrainEnds \/ Mark \/ ReadStatus
    BY <2>1, <2>7 DEF LoopPass, DrainRead, DrainStore, DrainEnds, Mark, ReadStatus
  <2>8. CASE Withdrawal \/ Restarted \/ Look \/ HandOver
    BY <2>1, <2>8 DEF Withdrawal, Restarted, Look, HandOver
  <2> QED BY <2>2, <2>3, <2>4, <2>5, <2>6, <2>7, <2>8 DEF CanNext
<1>2. TypeInv => Flags
  BY DEF TypeInv
<1>3. Flags /\ KnownIsOff /\ [CanNext]_canvars => KnownIsOff'
  BY KnownStep
<1> QED BY <1>1, <1>2, <1>3, KnownInit, TypeInvariant, PTL DEF CanSpec, NothingIntoOff

----------------------------------------------------------------------------
(* Each reply is processed once, for FIFOs of any size.                     *)

\* There is, or has been, a part of a reply to the command.
Replied(c) == air[c] # Nothing \/ \E i \in 1 .. Len(fifo.log) : fifo.log[i].of = c

\* The last part of the command is not waiting to be sent.
NoLast(c) == \A j \in 1 .. Len(tx) : tx[j].of = c => tx[j].k < tx[j].n

\* What waits to be sent: every part once, the parts of a command agreeing in its length.
Queued ==
  /\ \A i \in 1 .. Len(tx) : tx[i].of <= sent /\ tx[i].k <= tx[i].n
  /\ \A i, j \in 1 .. Len(tx) :
       tx[i].of = tx[j].of => tx[i].n = tx[j].n /\ (tx[i].k = tx[j].k => i = j)

\* A command that is being sent is neither refused nor replied to, and its next part
\* comes after all that wait to be sent.
Fresh(who) ==
  LET p == sending[who]
  IN p # Nothing =>
       /\ p.of <= sent /\ p.k <= p.n /\ p.of \notin refused /\ ~Replied(p.of)
       /\ \A j \in 1 .. Len(tx) : tx[j].of = p.of => tx[j].n = p.n /\ tx[j].k < p.k

\* The driver hears the last part of a refused command never, and of one that it has
\* replied to never again.
Heard ==
  /\ \A c \in refused : c <= sent /\ ~Replied(c) /\ NoLast(c)
  /\ \A c \in Sends : Replied(c) => c <= sent /\ NoLast(c)

OutOnce == Queued /\ (\A who \in {"shell", "loop"} : Fresh(who)) /\ Heard

\* Every part of a reply is received once, and in order.
InOnce ==
  /\ \A c \in Sends : air[c] # Nothing => air[c].of = c
  /\ \A i \in 1 .. Len(fifo.log) :
       air[fifo.log[i].of] = Nothing \/ fifo.log[i].k < air[fifo.log[i].of].k
  /\ \A i, j \in 1 .. Len(fifo.log) :
       fifo.log[i].of = fifo.log[j].of /\ fifo.log[i].k = fifo.log[j].k => i = j

\* The element that the loop holds is one that the interrupt has not put back.
HeldOnce == held # 0 => at = "drain" /\ bus.run = "BUSY" /\ held <= fifo.get

\* The buffer holds parts that have been released; while the loop drains the FIFO, and only
\* then, the release of its element may have put back what the interrupt has read.
Buffered ==
  \A j \in 1 .. Len(frame.parts) : \E i \in 1 .. Len(fifo.log) :
    fifo.log[i] = frame.parts[j] /\ (i < fifo.get \/ (at = "drain" /\ bus.run = "BUSY"))

\* The first part of a reply that has been processed is released for good: it is neither in
\* the buffer nor held.
Released(c) ==
  /\ \E i \in 1 .. Len(fifo.log) :
       fifo.log[i].of = c /\ fifo.log[i].k = 1 /\ i < fifo.get /\ (held # 0 => i < held)
  /\ \A j \in 1 .. Len(frame.parts) : ~(frame.parts[j].of = c /\ frame.parts[j].k = 1)

Processed == \A c \in Sends : taken[c] <= 1 /\ (taken[c] = 1 => Released(c))

\* The inductive invariant.
Once == OutOnce /\ InOnce /\ HeldOnce /\ Buffered /\ Processed

LEMMA OnceInit == CanInit => Once
<1> SUFFICES ASSUME CanInit PROVE Once
  OBVIOUS
<1>1. /\ Len(tx) = 0 /\ Len(fifo.log) = 0 /\ Len(frame.parts) = 0 /\ held = 0 /\ refused = {}
      /\ \A c \in Sends : air[c] = Nothing /\ taken[c] = 0
      /\ \A who \in {"shell", "loop"} : sending[who] = Nothing
  BY DEF CanInit
<1>2. \A c \in Sends : ~Replied(c)
  BY <1>1 DEF Replied
<1>3. OutOnce
  BY <1>1, <1>2 DEF OutOnce, Queued, Fresh, Heard
<1>4. InOnce /\ HeldOnce /\ Buffered /\ Processed
  BY <1>1 DEF InOnce, HeldOnce, Buffered, Processed
<1> QED BY <1>3, <1>4 DEF Once

\* What is not touched by most steps.
LEMMA OutStays ==
  ASSUME OutOnce, UNCHANGED <<sending, refused, sent, air>>, fifo'.log = fifo.log,
         tx' = tx \/ tx' = <<>>
  PROVE  OutOnce'
<1>1. \A c : Replied(c)' = Replied(c)
  BY DEF Replied
<1>2. CASE tx' = tx
  BY <1>1, <1>2 DEF OutOnce, Queued, Fresh, Heard, NoLast
<1>3. CASE tx' = <<>>
  <2>1. Len(tx') = 0
    BY <1>3
  <2> QED BY <1>1, <2>1 DEF OutOnce, Queued, Fresh, Heard, NoLast
<1> QED BY <1>2, <1>3

\* A command begins with a number that nothing has had.
LEMMA BeginOnce ==
  ASSUME TypeInv, OutOnce, NEW who \in {"shell", "loop"}, NEW n \in {1, 2}, Begin(who, n)
  PROVE  OutOnce'
<1> DEFINE p == [of |-> sent + 1, k |-> 1, n |-> n]
<1>1. /\ UNCHANGED <<tx, refused, air>> /\ fifo'.log = fifo.log /\ sent' = sent + 1
      /\ sent \in Nat /\ sent + 1 \in Sends
      /\ tx \in Seq(Parts) /\ refused \subseteq Sends /\ Sends \subseteq Nat
  BY CanAssumption DEF TypeInv, Outgoing, Begin, line, history, Sends
<1>2. \A w \in {"shell", "loop"} : sending'[w] = IF w = who THEN p ELSE Nothing
  BY DEF TypeInv, Outgoing, Begin, Masked
<1>3. \A c : Replied(c)' = Replied(c)
  BY <1>1 DEF Replied
<1>4. ~Replied(sent + 1) /\ sent + 1 \notin refused
  BY <1>1 DEF OutOnce, Heard
<1>5. \A i \in 1 .. Len(tx) : tx[i].of # sent + 1 /\ tx[i].of \in Nat
  <2>1. \A i \in 1 .. Len(tx) : tx[i] \in Parts
    BY <1>1
  <2>2. \A q \in Parts : q.of \in Nat
    BY DEF Parts, Sends
  <2> QED BY <1>1, <2>1, <2>2 DEF OutOnce, Queued
<1>6. Queued'
  BY <1>1, <1>5 DEF OutOnce, Queued
<1>7. \A w \in {"shell", "loop"} : Fresh(w)'
  BY <1>1, <1>2, <1>3, <1>4, <1>5 DEF Fresh
<1>8. Heard'
  BY <1>1, <1>3 DEF OutOnce, Heard, NoLast
<1> QED BY <1>6, <1>7, <1>8 DEF OutOnce

\* A part goes into the FIFO, or is refused and its command with it.
LEMMA SendOnce ==
  ASSUME TypeInv, Behind, OutOnce, NEW who \in {"shell", "loop"}, SendPart(who)
  PROVE  OutOnce'
<1>0. PICK p \in Parts : p = sending[who] /\ p # Nothing
  BY DEF TypeInv, Outgoing, SendPart
<1>1. /\ UNCHANGED <<sent, air>> /\ fifo'.log = fifo.log
      /\ tx \in Seq(Parts) /\ Len(tx) \in Nat
  BY LenProperties DEF TypeInv, Outgoing, SendPart, line, history
<1>2. \A c : Replied(c)' = Replied(c)
  BY <1>1 DEF Replied
<1>3. /\ p.of <= sent /\ p.k <= p.n /\ p.of \notin refused /\ ~Replied(p.of)
      /\ \A j \in 1 .. Len(tx) : tx[j].of = p.of => tx[j].n = p.n /\ tx[j].k < p.k
  BY <1>0 DEF OutOnce, Fresh
<1>4. p.of \in Sends /\ p.k \in {1, 2} /\ p.n \in {1, 2} /\ Sends \subseteq Nat /\ sent \in Nat
  BY <1>0, CanAssumption DEF Parts, Sends, TypeInv, Outgoing
<1>5. \A w \in {"shell", "loop"} : w # who => sending[w] = Nothing /\ sending'[w] = Nothing
  BY <1>0 DEF TypeInv, Outgoing, SendPart, Behind
<1>6. \A i \in 1 .. Len(tx) : /\ tx[i] \in Parts /\ tx[i].k \in {1, 2} /\ tx[i].n \in {1, 2}
                              /\ tx[i].of \in Nat
  <2>1. \A i \in 1 .. Len(tx) : tx[i] \in Parts
    BY <1>1
  <2>2. \A q \in Parts : q.k \in {1, 2} /\ q.n \in {1, 2} /\ q.of \in Nat
    BY CanAssumption DEF Parts, Sends
  <2> QED BY <2>1, <2>2
<1>7. CASE tx' = tx /\ sending'[who] = Nothing /\ refused' = refused \cup {p.of}
  <2>1. \A w \in {"shell", "loop"} : Fresh(w)'
    BY <1>5, <1>7 DEF Fresh
  <2>2. NoLast(p.of)
    BY <1>3, <1>4, <1>6 DEF NoLast
  <2>3. \A c : NoLast(c)' = NoLast(c)
    BY <1>7 DEF NoLast
  <2>4. Heard'
    BY <1>1, <1>2, <1>3, <1>7, <2>2, <2>3 DEF OutOnce, Heard
  <2>5. Queued'
    BY <1>1, <1>7 DEF OutOnce, Queued
  <2> QED BY <2>1, <2>4, <2>5 DEF OutOnce
<1>8. CASE tx' = Append(tx, p) /\ sending'[who] = Next1(p) /\ refused' = refused
  <2>1. Len(tx') = Len(tx) + 1 /\ tx'[Len(tx) + 1] = p /\ \A i \in 1 .. Len(tx) : tx'[i] = tx[i]
    BY <1>1, <1>8, AppendProperties
  <2>2. \A i \in 1 .. Len(tx') : i \in 1 .. Len(tx) \/ (i = Len(tx) + 1 /\ i \notin 1 .. Len(tx))
    BY <1>1, <2>1
  <2>3. \A i \in 1 .. Len(tx') :
          \/ i \in 1 .. Len(tx) /\ tx'[i] = tx[i]
          \/ i = Len(tx) + 1 /\ i \notin 1 .. Len(tx) /\ tx'[i] = p
    BY <2>1, <2>2
  <2>4. Queued'
    <3>1. \A i \in 1 .. Len(tx') : tx'[i].of <= sent' /\ tx'[i].k <= tx'[i].n
      BY <1>1, <1>3, <2>3 DEF OutOnce, Queued
    <3>2. \A i, j \in 1 .. Len(tx') : tx'[i].of = tx'[j].of =>
             tx'[i].n = tx'[j].n /\ (tx'[i].k = tx'[j].k => i = j)
      <4>1. SUFFICES ASSUME NEW i \in 1 .. Len(tx'), NEW j \in 1 .. Len(tx'),
                            tx'[i].of = tx'[j].of
                     PROVE  tx'[i].n = tx'[j].n /\ (tx'[i].k = tx'[j].k => i = j)
        OBVIOUS
      <4>2. CASE i \in 1 .. Len(tx) /\ j \in 1 .. Len(tx)
        BY <2>1, <4>1, <4>2 DEF OutOnce, Queued
      <4>3. CASE i \in 1 .. Len(tx) /\ j \notin 1 .. Len(tx)
        <5>1. tx'[i] = tx[i] /\ tx'[j] = p
          BY <2>3, <4>3
        <5>2. tx[i].n = p.n /\ tx[i].k < p.k
          BY <1>3, <4>1, <4>3, <5>1
        <5> QED BY <1>4, <1>6, <4>3, <5>1, <5>2
      <4>4. CASE i \notin 1 .. Len(tx) /\ j \in 1 .. Len(tx)
        <5>1. tx'[j] = tx[j] /\ tx'[i] = p
          BY <2>3, <4>4
        <5>2. tx[j].n = p.n /\ tx[j].k < p.k
          BY <1>3, <4>1, <4>4, <5>1
        <5> QED BY <1>4, <1>6, <4>4, <5>1, <5>2
      <4>5. CASE i \notin 1 .. Len(tx) /\ j \notin 1 .. Len(tx)
        BY <2>3, <4>5
      <4> QED BY <4>2, <4>3, <4>4, <4>5
    <3> QED BY <3>1, <3>2 DEF Queued
  <2>5. \A w \in {"shell", "loop"} : Fresh(w)'
    <3>0. PICK q \in Parts \cup {Nothing} : q = Next1(p)
      BY NextPart
    <3>1. q # Nothing => q.of = p.of /\ q.n = p.n /\ q.k = p.k + 1 /\ q.k <= q.n
      BY <1>4, <3>0 DEF Next1, Parts
    <3>2. q # Nothing =>
            \A j \in 1 .. Len(tx') : tx'[j].of = q.of => tx'[j].n = q.n /\ tx'[j].k < q.k
      BY <1>3, <1>4, <1>6, <2>3, <3>1, SMTT(30)
    <3>3. q # Nothing => q.of <= sent' /\ q.of \notin refused' /\ ~Replied(q.of)'
      BY <1>1, <1>2, <1>3, <1>8, <3>1
    <3>4. sending'[who] = q
      BY <1>8, <3>0
    <3>5. Fresh(who)'
      BY <3>1, <3>2, <3>3, <3>4 DEF Fresh
    <3> QED BY <1>5, <3>5 DEF Fresh
  <2>6. \A c : c # p.of /\ NoLast(c) => NoLast(c)'
    BY <2>3 DEF NoLast
  <2>7. Heard'
    BY <1>1, <1>2, <1>3, <1>8, <2>6 DEF OutOnce, Heard
  <2> QED BY <2>4, <2>5, <2>7 DEF OutOnce
<1> QED BY <1>0, <1>7, <1>8 DEF SendPart, TypeInv, Outgoing

\* A driver that has heard a whole command has just heard its last part; that part is gone
\* then, so that the command is not answered again.
LEMMA TransmitOnce ==
  ASSUME TypeInv, OutOnce, InOnce, Transmit
  PROVE  OutOnce' /\ InOnce'
<1>0. PICK p \in Parts : p = Head(tx) /\ p = tx[1]
  BY HeadTailProperties DEF Transmit, TypeInv, Outgoing
<1>1. /\ UNCHANGED <<sending, refused, sent>> /\ fifo' = fifo
      /\ tx \in Seq(Parts) /\ Len(tx) \in Nat /\ Len(tx) > 0 /\ 1 \in 1 .. Len(tx)
      /\ fifo.log \in Seq(Parts)
  <2>1. tx \in Seq(Parts) /\ tx # <<>> /\ UNCHANGED <<sending, refused, sent, fifo>>
        /\ fifo.log \in Seq(Parts)
    BY DEF Transmit, TypeInv, Outgoing, Incoming, code, history
  <2>2. Len(tx) \in Nat /\ Len(tx) > 0
    BY <2>1, LenProperties, EmptySeq
  <2> QED BY <2>1, <2>2
<1>2. Len(tx') = Len(tx) - 1 /\ \A i \in 1 .. Len(tx') : tx'[i] = tx[i + 1] /\ i + 1 \in 1 .. Len(tx)
  <2>1. tx # <<>> /\ tx' = Tail(tx)
    BY DEF Transmit
  <2>2. Len(tx') = Len(tx) - 1 /\ \A i \in 1 .. Len(tx') : tx'[i] = tx[i + 1]
    BY <1>1, <2>1, HeadTailProperties
  <2> QED BY <1>1, <2>2
<1>3. \A c : NoLast(c) => NoLast(c)'
  BY <1>2 DEF NoLast
<1>4. Queued'
  <2>1. \A i \in 1 .. Len(tx') : tx'[i].of <= sent' /\ tx'[i].k <= tx'[i].n
    BY <1>1, <1>2 DEF OutOnce, Queued
  <2>2. \A i, j \in 1 .. Len(tx') : tx'[i].of = tx'[j].of =>
           tx'[i].n = tx'[j].n /\ (tx'[i].k = tx'[j].k => i = j)
    <3>1. SUFFICES ASSUME NEW i \in 1 .. Len(tx'), NEW j \in 1 .. Len(tx'),
                          tx'[i].of = tx'[j].of
                   PROVE  tx'[i].n = tx'[j].n /\ (tx'[i].k = tx'[j].k => i = j)
      OBVIOUS
    <3>2. /\ tx'[i] = tx[i + 1] /\ i + 1 \in 1 .. Len(tx)
          /\ tx'[j] = tx[j + 1] /\ j + 1 \in 1 .. Len(tx)
      BY <1>2
    <3>3. tx[i + 1].n = tx[j + 1].n /\ (tx[i + 1].k = tx[j + 1].k => i + 1 = j + 1)
      BY <3>1, <3>2 DEF OutOnce, Queued
    <3>4. i + 1 = j + 1 => i = j
      OBVIOUS
    <3> QED BY <3>2, <3>3, <3>4
  <2> QED BY <2>1, <2>2 DEF Queued
<1>5. p.of \in Sends /\ p.k \in Nat /\ p.n \in Nat /\ Sends \subseteq Nat
  BY <1>0, CanAssumption DEF Parts, Sends
<1>6. CASE air' = air
  <2>1. \A c : Replied(c)' = Replied(c)
    BY <1>1, <1>6 DEF Replied
  <2>2. OutOnce'
    BY <1>1, <1>2, <1>3, <1>4, <2>1, SMTT(30) DEF OutOnce, Fresh, Heard
  <2>3. InOnce'
    BY <1>1, <1>6 DEF InOnce
  <2> QED BY <2>2, <2>3
<1>7. ASSUME p.k = p.n, NEW n \in {1, 2},
             air' = [air EXCEPT ![p.of] = [of |-> p.of, k |-> 1, n |-> n]]
      PROVE  OutOnce' /\ InOnce'
  <2>1. ~NoLast(p.of)
    BY <1>0, <1>1, <1>5, <1>7 DEF NoLast
  <2>2. ~Replied(p.of) /\ p.of \notin refused /\ p.of <= sent
    BY <1>0, <1>1, <1>5, <2>1 DEF OutOnce, Heard, Queued
  <2>3. \A i \in 1 .. Len(fifo.log) : fifo.log[i].of # p.of /\ fifo.log[i].of \in Sends
    <3>1. \A i \in 1 .. Len(fifo.log) : fifo.log[i] \in Parts
      BY <1>1
    <3>2. \A q \in Parts : q.of \in Sends
      BY DEF Parts
    <3> QED BY <2>2, <3>1, <3>2 DEF Replied
  <2>4. \A c \in Sends : c # p.of => air'[c] = air[c]
    BY <1>7 DEF TypeInv, Outgoing
  <2>5. air'[p.of] = [of |-> p.of, k |-> 1, n |-> n]
    BY <1>5, <1>7 DEF TypeInv, Outgoing
  <2>6. \A c \in Sends : c # p.of => Replied(c)' = Replied(c)
    BY <1>1, <2>4 DEF Replied
  <2>7. NoLast(p.of)'
    <3>1. SUFFICES ASSUME NEW j \in 1 .. Len(tx'), tx'[j].of = p.of PROVE tx'[j].k < tx'[j].n
      BY DEF NoLast
    <3>2. tx'[j] = tx[j + 1] /\ j + 1 \in 1 .. Len(tx) /\ j + 1 # 1
      BY <1>1, <1>2
    <3>3. tx[j + 1].n = p.n /\ tx[j + 1].k # p.k /\ tx[j + 1].k <= tx[j + 1].n
      BY <1>0, <1>1, <3>1, <3>2 DEF OutOnce, Queued
    <3>4. tx[j + 1].k \in Nat
      <4>1. tx[j + 1] \in Parts
        BY <1>1, <3>2
      <4> QED BY <4>1 DEF Parts
    <3> QED BY <1>5, <1>7, <3>2, <3>3, <3>4
  <2>8. \A who \in {"shell", "loop"} : Fresh(who)'
    <3>1. SUFFICES ASSUME NEW who \in {"shell", "loop"}, sending'[who] # Nothing PROVE Fresh(who)'
      BY DEF Fresh
    <3>2. PICK q \in Parts : q = sending[who]
      BY <1>1, <3>1 DEF TypeInv, Outgoing
    <3>3. /\ q.of <= sent /\ q.k <= q.n /\ q.of \notin refused /\ ~Replied(q.of)
          /\ \A j \in 1 .. Len(tx) : tx[j].of = q.of => tx[j].n = q.n /\ tx[j].k < q.k
      BY <1>1, <3>1, <3>2 DEF OutOnce, Fresh
    <3>4. q.of # p.of /\ q.of \in Sends
      <4>1. q.of = p.of => p.n = q.n /\ p.k < q.k
        BY <1>0, <1>1, <3>3
      <4>2. q.k \in Nat /\ q.n \in Nat /\ q.of \in Sends
        BY <3>2 DEF Parts
      <4> QED BY <1>5, <1>7, <3>3, <4>1, <4>2
    <3>5. ~Replied(q.of)'
      BY <2>6, <3>3, <3>4
    <3>6. \A j \in 1 .. Len(tx') : tx'[j].of = q.of => tx'[j].n = q.n /\ tx'[j].k < q.k
      BY <1>2, <3>3
    <3> QED BY <1>1, <3>2, <3>3, <3>5, <3>6 DEF Fresh
  <2>9. Heard'
    <3>1. \A c \in refused : c \in Sends
      BY DEF TypeInv, Outgoing
    <3> QED BY <1>1, <1>3, <2>2, <2>6, <2>7, <3>1 DEF OutOnce, Heard
  <2>10. InOnce'
    <3>1. \A c \in Sends : air'[c] # Nothing => air'[c].of = c
      BY <2>4, <2>5 DEF InOnce
    <3>2. \A i \in 1 .. Len(fifo'.log) :
            air'[fifo'.log[i].of] = Nothing \/ fifo'.log[i].k < air'[fifo'.log[i].of].k
      BY <1>1, <2>3, <2>4 DEF InOnce
    <3> QED BY <1>1, <3>1, <3>2 DEF InOnce
  <2> QED BY <1>4, <2>8, <2>9, <2>10 DEF OutOnce
<1>8. air' # air => p.k = p.n /\ \E n \in {1, 2} :
        air' = [air EXCEPT ![p.of] = [of |-> p.of, k |-> 1, n |-> n]]
  <2>1. SUFFICES ASSUME air' # air
                 PROVE  p.k = p.n /\ \E n \in {1, 2} :
                          air' = [air EXCEPT ![p.of] = [of |-> p.of, k |-> 1, n |-> n]]
    OBVIOUS
  <2>2. PICK before \in {heard, <<>>} :
          /\ Whole(Append(before, p))
          /\ \E n \in {1, 2} : air' = [air EXCEPT ![p.of] = [of |-> p.of, k |-> 1, n |-> n]]
    BY <1>0, <2>1 DEF Transmit
  <2>3. PICK h \in Seq(Parts) : /\ h = Append(before, p) /\ Len(h) \in Nat /\ Len(h) > 0
                                /\ h[Len(h)] = p
    <3>1. heard \in Seq(Parts) /\ <<>> \in Seq(Parts)
      BY DEF TypeInv, Outgoing
    <3>2. before \in Seq(Parts)
      BY <3>1
    <3>3. Len(before) \in Nat
      BY <3>2, LenProperties
    <3> DEFINE all == Append(before, p)
    <3>4. all \in Seq(Parts) /\ Len(all) = Len(before) + 1 /\ all[Len(before) + 1] = p
      BY <3>2, AppendProperties
    <3> HIDE DEF all
    <3>5. Len(all) \in Nat /\ Len(all) > 0 /\ all[Len(all)] = p
      BY <3>3, <3>4
    <3> QED BY <3>4, <3>5 DEF all
  <2>4. Len(h) = h[1].n /\ p = [h[1] EXCEPT !.k = Len(h)]
    <3>1. Len(h) \in DOMAIN h
      BY <2>3
    <3> QED BY <2>2, <2>3, <3>1 DEF Whole
  <2>5. h[1] \in Parts
    BY <2>3
  <2>6. p.k = Len(h) /\ p.n = h[1].n
    BY <2>4, <2>5 DEF Parts
  <2> QED BY <2>2, <2>4, <2>6
<1> QED BY <1>6, <1>7, <1>8

\* A part of a reply comes in behind those before it.
LEMMA ArriveOnce ==
  ASSUME TypeInv, OutOnce, InOnce, NEW c \in Sends, Arrive(c)
  PROVE  OutOnce' /\ InOnce'
<1>0. PICK p \in Parts : p = air[c] /\ p # Nothing /\ p.of = c
  BY DEF Arrive, TypeInv, Outgoing, InOnce
<1>1. /\ UNCHANGED <<sending, refused, sent, tx>> /\ air' = [air EXCEPT ![c] = Next1(p)]
      /\ fifo.log \in Seq(Parts) /\ Len(fifo.log) \in Nat
      /\ air \in [Sends -> Parts \cup {Nothing}]
  BY <1>0, LenProperties DEF Arrive, TypeInv, Outgoing, Incoming, code, history
<1>2. \A i \in 1 .. Len(fifo.log) : /\ fifo.log[i] \in Parts /\ fifo.log[i].of \in Sends
                                    /\ fifo.log[i].k \in Nat
  <2>1. \A i \in 1 .. Len(fifo.log) : fifo.log[i] \in Parts
    BY <1>1
  <2>2. \A q \in Parts : q.of \in Sends /\ q.k \in Nat
    BY DEF Parts
  <2> QED BY <2>1, <2>2
<1>3. PICK q \in Parts \cup {Nothing} : q = Next1(p)
  BY NextPart
<1>4. q # Nothing => q.of = c /\ q.k = p.k + 1
  BY <1>0, <1>3 DEF Next1, Parts
<1>5. \A d \in Sends : air'[d] = IF d = c THEN q ELSE air[d]
  BY <1>1, <1>3
<1>6. p.k \in Nat /\ Replied(c)
  BY <1>0 DEF Parts, Replied
<1>7. \A i \in 1 .. Len(fifo.log) : fifo.log[i].of = c => fifo.log[i].k < p.k
  BY <1>0 DEF InOnce
<1>8. fifo' = fifo \/ fifo'.log = Append(fifo.log, p)
  BY <1>0 DEF Arrive, TypeInv, Incoming
<1>9. \/ Len(fifo'.log) = Len(fifo.log) /\ \A i \in 1 .. Len(fifo.log) : fifo'.log[i] = fifo.log[i]
      \/ /\ Len(fifo'.log) = Len(fifo.log) + 1 /\ fifo'.log[Len(fifo.log) + 1] = p
         /\ \A i \in 1 .. Len(fifo.log) : fifo'.log[i] = fifo.log[i]
  BY <1>1, <1>8, AppendProperties, SMTT(30)
<1>10. \A i \in 1 .. Len(fifo'.log) :
         \/ i \in 1 .. Len(fifo.log) /\ fifo'.log[i] = fifo.log[i]
         \/ i = Len(fifo.log) + 1 /\ i \notin 1 .. Len(fifo.log) /\ fifo'.log[i] = p
  BY <1>1, <1>9
<1>11. \A d \in Sends : Replied(d)' => Replied(d)
  <2>1. SUFFICES ASSUME NEW d \in Sends, Replied(d)', d # c PROVE Replied(d)
    BY <1>6
  <2>2. air'[d] = air[d]
    BY <1>5, <2>1
  <2> QED BY <1>0, <1>10, <2>1, <2>2 DEF Replied
<1>12. OutOnce'
  <2>1. Queued'
    BY <1>1 DEF OutOnce, Queued
  <2>2. \A who \in {"shell", "loop"} : Fresh(who)'
    <3>1. SUFFICES ASSUME NEW who \in {"shell", "loop"}, sending'[who] # Nothing PROVE Fresh(who)'
      BY DEF Fresh
    <3>2. PICK r \in Parts : r = sending[who] /\ r # Nothing /\ r.of \in Sends
      BY <1>1, <3>1 DEF TypeInv, Outgoing, Parts
    <3>3. ~Replied(r.of)'
      BY <1>11, <3>2 DEF OutOnce, Fresh
    <3> QED BY <1>1, <3>2, <3>3 DEF OutOnce, Fresh
  <2>3. Heard'
    <3>1. \A d \in refused : d \in Sends
      BY DEF TypeInv, Outgoing
    <3>2. \A d : NoLast(d)' = NoLast(d)
      BY <1>1 DEF NoLast
    <3> QED BY <1>1, <1>11, <3>1, <3>2 DEF OutOnce, Heard
  <2> QED BY <2>1, <2>2, <2>3 DEF OutOnce
<1>13. InOnce'
  <2>1. \A d \in Sends : air'[d] # Nothing => air'[d].of = d
    BY <1>4, <1>5 DEF InOnce
  <2>2. \A i \in 1 .. Len(fifo'.log) :
          air'[fifo'.log[i].of] = Nothing \/ fifo'.log[i].k < air'[fifo'.log[i].of].k
    <3>1. SUFFICES ASSUME NEW i \in 1 .. Len(fifo'.log), air'[fifo'.log[i].of] # Nothing
                   PROVE  fifo'.log[i].k < air'[fifo'.log[i].of].k
      OBVIOUS
    <3>2. CASE i \in 1 .. Len(fifo.log) /\ fifo'.log[i] = fifo.log[i] /\ fifo.log[i].of = c
      BY <1>2, <1>4, <1>5, <1>6, <1>7, <3>1, <3>2
    <3>3. CASE i \in 1 .. Len(fifo.log) /\ fifo'.log[i] = fifo.log[i] /\ fifo.log[i].of # c
      BY <1>2, <1>5, <3>1, <3>3 DEF InOnce
    <3>4. CASE fifo'.log[i] = p
      BY <1>0, <1>4, <1>5, <1>6, <3>1, <3>4
    <3> QED BY <1>10, <3>2, <3>3, <3>4
  <2>3. \A i, j \in 1 .. Len(fifo'.log) :
          fifo'.log[i].of = fifo'.log[j].of /\ fifo'.log[i].k = fifo'.log[j].k => i = j
    <3>1. SUFFICES ASSUME NEW i \in 1 .. Len(fifo'.log), NEW j \in 1 .. Len(fifo'.log),
                          fifo'.log[i].of = fifo'.log[j].of, fifo'.log[i].k = fifo'.log[j].k
                   PROVE  i = j
      OBVIOUS
    <3>2. CASE i \in 1 .. Len(fifo.log) /\ j \in 1 .. Len(fifo.log)
      <4>1. fifo'.log[i] = fifo.log[i] /\ fifo'.log[j] = fifo.log[j]
        BY <1>9, <3>2
      <4> QED BY <3>1, <3>2, <4>1 DEF InOnce
    <3>3. CASE i \in 1 .. Len(fifo.log) /\ j \notin 1 .. Len(fifo.log)
      <4>1. fifo'.log[i] = fifo.log[i] /\ fifo'.log[j] = p
        BY <1>10, <3>3
      <4>2. fifo.log[i].k < p.k
        BY <1>0, <1>7, <3>1, <3>3, <4>1
      <4> QED BY <1>2, <1>6, <3>1, <3>3, <4>1, <4>2
    <3>4. CASE i \notin 1 .. Len(fifo.log) /\ j \in 1 .. Len(fifo.log)
      <4>1. fifo'.log[j] = fifo.log[j] /\ fifo'.log[i] = p
        BY <1>10, <3>4
      <4>2. fifo.log[j].k < p.k
        BY <1>0, <1>7, <3>1, <3>4, <4>1
      <4> QED BY <1>2, <1>6, <3>1, <3>4, <4>1, <4>2
    <3>5. CASE i \notin 1 .. Len(fifo.log) /\ j \notin 1 .. Len(fifo.log)
      BY <1>10, <3>5
    <3> QED BY <3>2, <3>3, <3>4, <3>5
  <2> QED BY <2>1, <2>2, <2>3 DEF InOnce
<1> QED BY <1>12, <1>13

\* What has come in stays.
Grows == \A i \in 1 .. Len(fifo.log) : i \in 1 .. Len(fifo'.log) /\ fifo'.log[i] = fifo.log[i]

\* The loop moves on or parts come in, and nothing is read.
LEMMA ReadStays ==
  ASSUME HeldOnce, Buffered, Processed, Grows, fifo'.get = fifo.get,
         UNCHANGED <<held, taken>>, frame'.parts = frame.parts,
         at # "drain" \/ (at' = at /\ bus'.run = bus.run)
  PROVE  HeldOnce' /\ Buffered' /\ Processed'
<1>1. HeldOnce'
  BY DEF HeldOnce
<1>2. Buffered'
  BY DEF Buffered, Grows
<1>3. Processed'
  BY DEF Processed, Released, Grows
<1> QED BY <1>1, <1>2, <1>3

\* Elements from m on are read, or the buffer is emptied: what has been released for good
\* is before them, and stays released.
LEMMA ReadOn ==
  ASSUME InOnce, Processed, NEW m \in Int, fifo'.log = fifo.log, taken' = taken,
         \A j \in 1 .. Len(frame'.parts) :
           \/ \E i \in 1 .. Len(frame.parts) : frame'.parts[j] = frame.parts[i]
           \/ \E i \in 1 .. Len(fifo.log) : m <= i /\ frame'.parts[j] = fifo.log[i],
         \A i \in 1 .. Len(fifo.log) : i < fifo.get /\ (held # 0 => i < held) =>
           i < m /\ i < fifo'.get /\ (held' # 0 => i < held')
  PROVE  Processed'
<1>1. SUFFICES ASSUME NEW c \in Sends, Released(c) PROVE Released(c)'
  BY DEF Processed
<1>2. PICK i \in 1 .. Len(fifo.log) :
        fifo.log[i].of = c /\ fifo.log[i].k = 1 /\ i < fifo.get /\ (held # 0 => i < held)
  BY <1>1 DEF Released
<1>3. i < m /\ i < fifo'.get /\ (held' # 0 => i < held')
  BY <1>2
<1>4. ASSUME NEW j \in 1 .. Len(frame'.parts), frame'.parts[j].of = c, frame'.parts[j].k = 1
      PROVE  FALSE
  <2>1. CASE \E e \in 1 .. Len(frame.parts) : frame'.parts[j] = frame.parts[e]
    BY <1>1, <1>4, <2>1 DEF Released
  <2>2. CASE \E e \in 1 .. Len(fifo.log) : m <= e /\ frame'.parts[j] = fifo.log[e]
    <3>1. PICK e \in 1 .. Len(fifo.log) : m <= e /\ frame'.parts[j] = fifo.log[e]
      BY <2>2
    <3>2. e = i
      BY <1>2, <1>4, <3>1 DEF InOnce
    <3> QED BY <1>3, <3>1, <3>2
  <2> QED BY <1>4, <2>1, <2>2
<1> QED BY <1>2, <1>3, <1>4 DEF Released

\* What was in the buffer has come in.
LEMMA BufferIsIn ==
  ASSUME Buffered, fifo'.log = fifo.log,
         \A j \in 1 .. Len(frame'.parts) :
           \/ \E i \in 1 .. Len(frame.parts) : frame'.parts[j] = frame.parts[i]
           \/ \E i \in 1 .. Len(fifo.log) : frame'.parts[j] = fifo.log[i],
         \/ at' = "drain" /\ bus'.run = "BUSY"
         \/ \A i \in 1 .. Len(fifo.log) : i < fifo'.get
  PROVE  Buffered'
<1>1. SUFFICES ASSUME NEW j \in 1 .. Len(frame'.parts)
               PROVE  \E i \in 1 .. Len(fifo.log) : fifo.log[i] = frame'.parts[j]
  BY DEF Buffered
<1>2. CASE \E e \in 1 .. Len(frame.parts) : frame'.parts[j] = frame.parts[e]
  BY <1>2 DEF Buffered
<1>3. CASE \E e \in 1 .. Len(fifo.log) : frame'.parts[j] = fifo.log[e]
  BY <1>3
<1> QED BY <1>1, <1>2, <1>3

LEMMA InterruptOnce ==
  ASSUME TypeInv, InOnce, HeldOnce, Buffered, Processed, RxInterrupt
  PROVE  HeldOnce' /\ Buffered' /\ Processed'
<1> DEFINE old == IF frame.done THEN <<>> ELSE frame.parts
           new == SubSeq(fifo.log, fifo.get, Len(fifo.log))
<1>1. /\ fifo.log \in Seq(Parts) /\ Len(fifo.log) \in Nat /\ fifo.get \in 1 .. Len(fifo.log) + 1
      /\ frame.parts \in Seq(Parts) /\ held \in 0 .. Len(fifo.log)
  BY LenProperties DEF TypeInv, Incoming
<1>2. /\ UNCHANGED <<held, taken, at, bus>> /\ fifo'.log = fifo.log
      /\ fifo'.get = Len(fifo.log) + 1 /\ frame'.parts = old \o new
  BY DEF RxInterrupt, TypeInv, Incoming, history
<1>3. /\ old \in Seq(Parts) /\ Len(old) \in Nat
      /\ \A j \in 1 .. Len(old) : j \in 1 .. Len(frame.parts) /\ old[j] = frame.parts[j]
  <2>1. old \in Seq(Parts)
    BY <1>1
  <2>2. \A j \in 1 .. Len(old) : j \in 1 .. Len(frame.parts) /\ old[j] = frame.parts[j]
    OBVIOUS
  <2> QED BY <2>1, <2>2, LenProperties
<1>4. /\ new \in Seq(Parts) /\ Len(new) = Len(fifo.log) + 1 - fifo.get
      /\ \A j \in 1 .. Len(new) : new[j] = fifo.log[fifo.get + j - 1]
  BY <1>1, SubSeqProperties, SMTT(30)
<1> HIDE DEF old, new
<1>5. \A j \in 1 .. Len(new) : \E i \in 1 .. Len(fifo.log) : fifo.get <= i /\ new[j] = fifo.log[i]
  <2> SUFFICES ASSUME NEW j \in 1 .. Len(new)
               PROVE  \E i \in 1 .. Len(fifo.log) : fifo.get <= i /\ new[j] = fifo.log[i]
    OBVIOUS
  <2>1. fifo.get + j - 1 \in 1 .. Len(fifo.log) /\ fifo.get <= fifo.get + j - 1
    BY <1>1, <1>4
  <2> QED BY <1>4, <2>1
<1>6. Len(frame'.parts) = Len(old) + Len(new) /\ \A j \in 1 .. Len(frame'.parts) :
        frame'.parts[j] = IF j <= Len(old) THEN old[j] ELSE new[j - Len(old)]
  <2>1. Len(old \o new) = Len(old) + Len(new) /\ \A j \in 1 .. Len(old) + Len(new) :
          (old \o new)[j] = IF j <= Len(old) THEN old[j] ELSE new[j - Len(old)]
    BY <1>3, <1>4, ConcatProperties
  <2> QED BY <1>2, <2>1
<1>7. \A j \in 1 .. Len(frame'.parts) :
        \/ \E i \in 1 .. Len(frame.parts) : frame'.parts[j] = frame.parts[i]
        \/ \E i \in 1 .. Len(fifo.log) : fifo.get <= i /\ frame'.parts[j] = fifo.log[i]
  <2> SUFFICES ASSUME NEW j \in 1 .. Len(frame'.parts)
               PROVE  \/ \E i \in 1 .. Len(frame.parts) : frame'.parts[j] = frame.parts[i]
                      \/ \E i \in 1 .. Len(fifo.log) :
                           fifo.get <= i /\ frame'.parts[j] = fifo.log[i]
    OBVIOUS
  <2>1. CASE j <= Len(old)
    <3>1. j \in 1 .. Len(old) /\ frame'.parts[j] = old[j]
      BY <1>3, <1>6, <2>1
    <3> QED BY <1>3, <3>1
  <2>2. CASE ~(j <= Len(old))
    <3>1. Len(new) \in Nat
      BY <1>4, LenProperties
    <3>2. j - Len(old) \in 1 .. Len(new) /\ frame'.parts[j] = new[j - Len(old)]
      BY <1>3, <1>6, <2>2, <3>1
    <3> QED BY <1>5, <3>2
  <2> QED BY <2>1, <2>2
<1>8. \A i \in 1 .. Len(fifo.log) : i < fifo'.get
  BY <1>1, <1>2
<1>9. HeldOnce'
  BY <1>1, <1>2 DEF HeldOnce
<1>10. Buffered'
  BY <1>2, <1>7, <1>8, BufferIsIn
<1>11. Processed'
  <2>1. fifo.get \in Int /\ \A i \in 1 .. Len(fifo.log) : i < fifo.get /\ (held # 0 => i < held) =>
           i < fifo.get /\ i < fifo'.get /\ (held' # 0 => i < held')
    BY <1>1, <1>2, <1>8
  <2> QED BY <1>2, <1>7, <2>1, ReadOn
<1> QED BY <1>9, <1>10, <1>11

LEMMA DrainOnce ==
  ASSUME TypeInv, InOnce, HeldOnce, Buffered, Processed, DrainRead \/ DrainStore
  PROVE  HeldOnce' /\ Buffered' /\ Processed'
<1>1. /\ fifo.log \in Seq(Parts) /\ Len(fifo.log) \in Nat /\ fifo.get \in 1 .. Len(fifo.log) + 1
      /\ frame.parts \in Seq(Parts) /\ Len(frame.parts) \in Nat /\ held \in 0 .. Len(fifo.log)
  BY LenProperties DEF TypeInv, Incoming
<1>2. CASE DrainRead
  <2>1. /\ UNCHANGED <<taken, at, bus, frame, fifo>> /\ held' = fifo.get /\ held = 0
        /\ at = "drain" /\ bus.run = "BUSY"
    BY <1>2 DEF DrainRead, history
  <2>2. HeldOnce' /\ Buffered'
    BY <1>1, <2>1 DEF HeldOnce, Buffered
  <2>3. Processed'
    BY <2>1 DEF Processed, Released
  <2> QED BY <2>2, <2>3
<1>3. CASE DrainStore
  <2>1. /\ UNCHANGED <<taken, at, bus>> /\ held' = 0 /\ held # 0 /\ at = "drain"
        /\ fifo'.log = fifo.log /\ fifo'.get = held + 1
        /\ frame'.parts = IF frame.done THEN <<fifo.log[held]>>
                                        ELSE Append(frame.parts, fifo.log[held])
    BY <1>3 DEF DrainStore, TypeInv, Incoming, history, Into
  <2>2. bus.run = "BUSY" /\ held \in 1 .. Len(fifo.log) /\ held <= fifo.get
    BY <1>1, <2>1 DEF HeldOnce
  <2>3. \A j \in 1 .. Len(frame'.parts) :
          \/ \E i \in 1 .. Len(frame.parts) : frame'.parts[j] = frame.parts[i]
          \/ \E i \in 1 .. Len(fifo.log) : held <= i /\ frame'.parts[j] = fifo.log[i]
    <3>1. CASE frame.done
      <4>1. Len(frame'.parts) = 1 /\ frame'.parts[1] = fifo.log[held]
        BY <2>1, <3>1
      <4> QED BY <2>2, <4>1
    <3>2. CASE ~frame.done
      <4>1. fifo.log[held] \in Parts
        BY <1>1, <2>2
      <4>2. /\ Len(frame'.parts) = Len(frame.parts) + 1
            /\ frame'.parts[Len(frame.parts) + 1] = fifo.log[held]
            /\ \A j \in 1 .. Len(frame.parts) : frame'.parts[j] = frame.parts[j]
        BY <1>1, <2>1, <3>2, <4>1, AppendProperties
      <4>3. \A j \in 1 .. Len(frame'.parts) : j \in 1 .. Len(frame.parts) \/ j = Len(frame.parts) + 1
        BY <1>1, <4>2
      <4> QED BY <2>2, <4>2, <4>3
    <3> QED BY <3>1, <3>2
  <2>4. HeldOnce'
    BY <2>1 DEF HeldOnce
  <2>5. Buffered'
    BY <2>1, <2>2, <2>3, BufferIsIn
  <2>6. Processed'
    <3>1. held \in Int /\ \A i \in 1 .. Len(fifo.log) : i < fifo.get /\ (held # 0 => i < held) =>
             i < held /\ i < fifo'.get /\ (held' # 0 => i < held')
      BY <2>1, <2>2
    <3> QED BY <2>1, <2>3, <3>1, ReadOn
  <2> QED BY <2>4, <2>5, <2>6
<1> QED BY <1>2, <1>3

\* The buffer is emptied, and the FIFO with it or not.
LEMMA EmptyOnce ==
  ASSUME TypeInv, HeldOnce, Processed, fifo'.log = fifo.log, UNCHANGED <<held, taken>>,
         frame'.parts = <<>>, fifo'.get = fifo.get \/ fifo'.get = Len(fifo.log) + 1,
         at # "drain" \/ (at' = at /\ bus'.run = bus.run)
  PROVE  HeldOnce' /\ Buffered' /\ Processed'
<1>1. /\ Len(fifo.log) \in Nat /\ fifo.get \in 1 .. Len(fifo.log) + 1
      /\ held \in 0 .. Len(fifo.log) /\ Len(frame'.parts) = 0
  BY LenProperties DEF TypeInv, Incoming
<1>2. HeldOnce'
  BY <1>1 DEF HeldOnce
<1>3. Buffered'
  BY <1>1 DEF Buffered
<1>4. Processed'
  BY <1>1 DEF Processed, Released
<1> QED BY <1>2, <1>3, <1>4

\* The end of the draining: all has been released, or the controller has been stopped and the
\* buffer holds what has.
LEMMA DrainedOnce ==
  ASSUME TypeInv, HeldOnce, Buffered, Processed, DrainEnds
  PROVE  HeldOnce' /\ Buffered' /\ Processed'
<1>1. /\ Len(fifo.log) \in Nat /\ fifo.get \in 1 .. Len(fifo.log) + 1
  BY LenProperties DEF TypeInv, Incoming
<1>2. UNCHANGED <<frame, fifo, held, taken, bus>> /\ held = 0 /\ (Fill = 0 \/ bus.run # "BUSY")
  BY DEF DrainEnds, history
<1>3. HeldOnce' /\ Processed'
  BY <1>2 DEF HeldOnce, Processed, Released
<1>4. CASE Fill = 0
  <2>1. \A i \in 1 .. Len(fifo.log) : i < fifo.get
    BY <1>1, <1>4 DEF Fill
  <2> QED BY <1>2, <1>3, <2>1 DEF Buffered
<1>5. CASE bus.run # "BUSY"
  BY <1>2, <1>3, <1>5 DEF Buffered
<1> QED BY <1>2, <1>4, <1>5

\* A reply that is processed has its first part in the buffer, so that it is for the first time.
LEMMA HandedOnce ==
  ASSUME TypeInv, HeldOnce, Buffered, Processed, HandOver
  PROVE  HeldOnce' /\ Buffered' /\ Processed'
<1>1. /\ at = "hand" /\ held = 0 /\ held' = 0 /\ fifo' = fifo /\ Len(frame'.parts) = 0
      /\ frame.parts \in Seq(Parts) /\ taken \in [Sends -> Nat]
  BY DEF HandOver, HeldOnce, Emptied, TypeInv, Incoming
<1>2. HeldOnce' /\ Buffered'
  BY <1>1 DEF HeldOnce, Buffered
<1>3. \A c \in Sends : Released(c) => Released(c)'
  BY <1>1 DEF Released
<1>4. CASE taken' = taken
  BY <1>2, <1>3, <1>4 DEF Processed
<1>5. CASE Whole(frame.parts)
  <2>1. PICK p \in Parts : p = frame.parts[1] /\ p.k = 1 /\ 1 \in 1 .. Len(frame.parts)
    <3>1. frame.parts # <<>> /\ Len(frame.parts) \in Nat
      BY <1>1, <1>5, LenProperties DEF Whole
    <3>2. Len(frame.parts) > 0
      BY <1>1, <3>1, EmptySeq
    <3>3. 1 \in 1 .. Len(frame.parts) /\ 1 \in DOMAIN frame.parts /\ frame.parts[1] \in Parts
      BY <1>1, <3>1, <3>2
    <3>4. frame.parts[1] = [frame.parts[1] EXCEPT !.k = 1]
      BY <1>5, <3>3 DEF Whole
    <3>5. frame.parts[1].k = 1
      BY <3>3, <3>4 DEF Parts
    <3> QED BY <3>3, <3>5
  <2>2. p.of \in Sends /\ taken' = [taken EXCEPT ![p.of] = @ + 1]
    BY <1>5, <2>1 DEF HandOver, Parts
  <2>3. PICK i \in 1 .. Len(fifo.log) : fifo.log[i] = p /\ i < fifo.get
    BY <1>1, <2>1 DEF Buffered
  <2>4. taken[p.of] = 0
    <3>1. ~Released(p.of)
      BY <2>1 DEF Released
    <3>2. taken[p.of] \in Nat /\ taken[p.of] <= 1 /\ taken[p.of] # 1
      BY <1>1, <2>2, <3>1 DEF Processed
    <3> QED BY <3>2
  <2>5. \A c \in Sends : taken'[c] = IF c = p.of THEN 1 ELSE taken[c]
    BY <1>1, <2>2, <2>4
  <2>6. Released(p.of)'
    BY <1>1, <2>1, <2>3 DEF Released
  <2>7. Processed'
    BY <1>3, <2>5, <2>6 DEF Processed
  <2> QED BY <1>2, <2>7
<1> QED BY <1>4, <1>5 DEF HandOver

LEMMA OnceStep ==
  ASSUME TypeInv, Behind, Once, [CanNext]_canvars PROVE Once'
<1> USE DEF Once, code, line, history
<1>1. ASSUME UNCHANGED <<air, fifo>> PROVE InOnce'
  BY <1>1 DEF InOnce
<1>2. ASSUME UNCHANGED air, fifo'.log = fifo.log PROVE InOnce'
  BY <1>2 DEF InOnce
<1>3. ASSUME UNCHANGED <<fifo, held, taken>>, frame'.parts = frame.parts,
             at # "drain" \/ (at' = at /\ bus'.run = bus.run)
      PROVE  HeldOnce' /\ Buffered' /\ Processed'
  <2>1. Grows
    BY <1>3 DEF Grows
  <2> QED BY <1>3, <2>1, ReadStays
<1>4. CASE ShellSends \/ LoopSends
  <2>1. PICK who \in {"shell", "loop"}, n \in {1, 2} : Begin(who, n)
    BY <1>4 DEF ShellSends, LoopSends
  <2>2. UNCHANGED <<air, fifo, held, taken, frame, at, bus>>
    BY <2>1 DEF Begin
  <2> QED BY <1>1, <1>3, <2>1, <2>2, BeginOnce
<1>5. CASE ShellPart \/ LoopPart
  <2>1. PICK who \in {"shell", "loop"} : SendPart(who)
    BY <1>5 DEF ShellPart, LoopPart
  <2>2. UNCHANGED <<air, fifo, held, taken, frame, at, bus>>
    BY <2>1 DEF SendPart
  <2> QED BY <1>1, <1>3, <2>1, <2>2, SendOnce
<1>6. CASE RxInterrupt
  <2>1. UNCHANGED <<sending, refused, sent, air, tx>> /\ fifo'.log = fifo.log
    BY <1>6 DEF RxInterrupt, TypeInv, Incoming
  <2> QED BY <1>2, <1>6, <2>1, OutStays, InterruptOnce
<1>7. CASE LostInterrupt
  <2>1. UNCHANGED <<sending, refused, sent, air, tx, fifo, held, taken, at>> /\ frame'.parts = <<>>
        /\ bus'.run = bus.run
    BY <1>7 DEF LostInterrupt, Emptied, TypeInv, Flags
  <2> QED BY <1>1, <2>1, OutStays, EmptyOnce
<1>8. CASE BusOffInterrupt \/ RamInterrupt \/ Fault \/ Eases
  <2>1. UNCHANGED <<sending, refused, sent, air, tx, fifo, held, taken, at, frame>>
        /\ bus'.run = bus.run
    BY <1>8 DEF BusOffInterrupt, RamInterrupt, Fault, Eases, TypeInv, Flags
  <2> QED BY <1>1, <1>3, <2>1, OutStays
<1>9. CASE LoopPass \/ ReadStatus \/ Withdrawal \/ Restarted \/ Look
  <2>1. UNCHANGED <<sending, refused, sent, air, tx, fifo, held, taken, frame, bus>>
        /\ at # "drain"
    BY <1>9 DEF LoopPass, ReadStatus, Withdrawal, Restarted, Look
  <2> QED BY <1>1, <1>3, <2>1, OutStays
<1>10. CASE DrainRead \/ DrainStore
  <2>1. UNCHANGED <<sending, refused, sent, air, tx>> /\ fifo'.log = fifo.log
    BY <1>10 DEF DrainRead, DrainStore, TypeInv, Incoming
  <2> QED BY <1>2, <1>10, <2>1, OutStays, DrainOnce
<1>11. CASE DrainEnds
  <2>1. UNCHANGED <<sending, refused, sent, air, tx, fifo>>
    BY <1>11 DEF DrainEnds
  <2> QED BY <1>1, <1>11, <2>1, OutStays, DrainedOnce
<1>12. CASE Mark
  <2>1. UNCHANGED <<sending, refused, sent, air, tx, fifo, held, taken, bus>>
        /\ at = "mark" /\ frame'.parts = frame.parts
    BY <1>12 DEF Mark, TypeInv, Incoming
  <2> QED BY <1>1, <1>3, <2>1, OutStays
<1>13. CASE HandOver
  <2>1. UNCHANGED <<sending, refused, sent, air, tx, fifo>>
    BY <1>13 DEF HandOver
  <2> QED BY <1>1, <1>13, <2>1, OutStays, HandedOnce
<1>14. CASE RecoveryPoll
  <2>1. UNCHANGED <<sending, refused, sent, air, held, taken>> /\ (tx' = tx \/ tx' = <<>>)
        /\ at = "decide"
    BY <1>14 DEF RecoveryPoll, NoRequest, Withdraw, Wait, StopFails, Restart, Grace, Abort
  <2>2. CASE UNCHANGED <<fifo, frame>>
    BY <1>1, <1>3, <2>1, <2>2, OutStays
  <2>3. CASE Restart
    <3>1. fifo'.log = fifo.log /\ fifo'.get = Len(fifo.log) + 1 /\ frame'.parts = <<>>
      BY <2>3 DEF Restart, Emptied, TypeInv, Incoming
    <3> QED BY <1>2, <2>1, <3>1, OutStays, EmptyOnce
  <2> QED BY <1>14, <2>2, <2>3 DEF RecoveryPoll, NoRequest, Withdraw, Wait, StopFails
<1>15. CASE Transmit
  <2>1. UNCHANGED <<fifo, held, taken, frame, at, bus>>
    BY <1>15 DEF Transmit
  <2> QED BY <1>3, <1>15, <2>1, TransmitOnce
<1>16. CASE \E c \in Sends : Arrive(c)
  <2>1. PICK c \in Sends : Arrive(c)
    BY <1>16
  <2>2. OutOnce' /\ InOnce'
    BY <2>1, ArriveOnce
  <2>3. UNCHANGED <<held, taken, frame, at>> /\ fifo'.get = fifo.get /\ bus'.run = bus.run
    BY <2>1 DEF Arrive, TypeInv, Incoming, Flags
  <2>4. Grows
    <3>1. fifo.log \in Seq(Parts) /\ Len(fifo.log) \in Nat /\ air[c] \in Parts
      BY <2>1, LenProperties DEF TypeInv, Incoming, Outgoing, Arrive
    <3>2. fifo' = fifo \/ fifo'.log = Append(fifo.log, air[c])
      BY <2>1 DEF Arrive, TypeInv, Incoming
    <3> QED BY <3>1, <3>2, AppendProperties DEF Grows
  <2> QED BY <2>2, <2>3, <2>4, ReadStays
<1>17. CASE UNCHANGED canvars
  <2>1. UNCHANGED <<sending, refused, sent, air, tx, fifo, held, taken, frame, at, bus>>
    BY <1>17 DEF canvars
  <2> QED BY <1>1, <1>3, <2>1, OutStays
<1> QED
  BY <1>4, <1>5, <1>6, <1>7, <1>8, <1>9, <1>10, <1>11, <1>12, <1>13, <1>14, <1>15, <1>16,
     <1>17 DEF CanNext

\* A reply is processed once at most, and never for a command that was reported as not sent:
\* an element of the FIFO that has been released by its number comes back only while the loop
\* still drains, where its part is before the one that is held, so that its first part is not
\* read again; and a driver never hears the last part of a command that has been refused.
THEOREM RepliesTakenOnce == CanSpec => []RepliesOnce
<1>1. Once => RepliesOnce
  <2> SUFFICES ASSUME Once, NEW c \in Sends, taken[c] = 1 PROVE c \notin refused
    BY DEF Once, Processed, RepliesOnce
  <2>1. Replied(c)
    BY DEF Once, Processed, Released, Replied
  <2> QED BY <2>1 DEF Once, OutOnce, Heard
<1>2. TypeInv /\ Chained /\ Behind /\ Once /\ [CanNext]_canvars => Once'
  BY OnceStep
<1> QED BY <1>1, <1>2, OnceInit, TypeInvariant, ChainInvariant, PTL DEF CanSpec
=============================================================================
