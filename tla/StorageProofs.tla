----------------------------- MODULE StorageProofs -----------------------------
(* Proofs about Storage, for any blocks and values and any number of chunks: what a   *)
(* loss of power or a failed transfer leaves of the missions' parameters.             *)
EXTENDS Storage, TLAPS

\* A chunk as the save that is going on writes it.
Fresh == [whole |-> TRUE, of |-> ram, version |-> 2]

\* A save that is going on: the magic word is gone, the chunks before the next one are
\* written, the parameters are an attempt, and there is something to go back to.
Progress ==
  Saving =>
    /\ Powered
    /\ save.at > 0 => ~rom.magic
    /\ \A i \in 1 .. Chunks : i < save.at => rom.body[i] = Fresh
    /\ ram \in attempted
    /\ save.old = confirmed \/ save.old = Defaults

\* What could be loaded is what was confirmed or has been attempted since.
Known == Readable(rom) => rom.body[1].of \in {confirmed} \cup attempted

StoreInv == StoreTypeOK /\ Progress /\ Known /\ OnlyConfirmedInUse /\ SurvivesRestart

-----------------------------------------------------------------------------
(* The type invariant.                                                     *)

LEMMA DefaultsTyped == Defaults \in Configs
BY StoreAssumption DEF Defaults, Configs

LEMMA NoSaveTyped == NoSave \in [at : 0 .. LastWrite + 1, old : Configs]
BY StoreAssumption, DefaultsTyped DEF NoSave, LastWrite

LEMMA NotSaving == StoreTypeOK => (~Saving <=> save.at = LastWrite + 1)
BY StoreAssumption DEF StoreTypeOK, Saving, Writes, LastWrite

\* The initial states have the right types, and nothing is being saved.
LEMMA InitTyped == StoreInit => StoreTypeOK /\ save = NoSave /\ ~Powered
BY StoreAssumption, DefaultsTyped, NoSaveTyped
   DEF StoreInit, StoreTypeOK, RecordType, StorageStates, Powered

\* The record after a write, or after a part of one.
LEMMA TornTyped ==
  ASSUME StoreTypeOK, save.at \in 1 .. Chunks, NEW c \in Configs
  PROVE  Torn(c) \in RecordType
<1>1. [whole |-> FALSE, of |-> c, version |-> 2]
        \in [whole : BOOLEAN, of : Configs, version : {1, 2}]
  OBVIOUS
<1> QED BY <1>1 DEF Torn, StoreTypeOK, RecordType

LEMMA WrittenTyped ==
  ASSUME StoreTypeOK, Saving
  PROVE  Written \in RecordType
<1>1. CASE save.at = 0
  BY <1>1 DEF Written, StoreTypeOK, RecordType
<1>2. CASE save.at = LastWrite
  BY <1>2, StoreAssumption DEF Written, StoreTypeOK, RecordType, LastWrite
<1>3. CASE save.at # 0 /\ save.at # LastWrite
  <2>1. save.at \in 1 .. Chunks
    BY <1>3, StoreAssumption DEF Saving, Writes, LastWrite
  <2>2. [whole |-> TRUE, of |-> ram, version |-> 2]
          \in [whole : BOOLEAN, of : Configs, version : {1, 2}]
    BY DEF StoreTypeOK
  <2> QED BY <1>3, <2>1, <2>2 DEF Written, StoreTypeOK, RecordType
<1> QED BY <1>1, <1>2, <1>3

\* Every step keeps the types.
LEMMA StepTyped == StoreTypeOK /\ [StoreNext]_storevars => StoreTypeOK'
<1> SUFFICES ASSUME StoreTypeOK, [StoreNext]_storevars PROVE StoreTypeOK'
  OBVIOUS
<1> USE DEF StoreTypeOK
<1>1. CASE Load
  <2>1. CASE Readable(rom)
    <3>1. rom.body[1].of \in Configs /\ rom.body[1] \in [whole : BOOLEAN, of : Configs, version : {1, 2}]
      BY StoreAssumption DEF RecordType
    <3>2. ram' = rom.body[1].of /\ confirmed' = ram' /\ storage' = "VALID" /\ rom' = rom
      BY <1>1, <2>1 DEF Load
    <3>3. save' \in [at : 0 .. LastWrite + 1, old : Configs] /\ attempted' \subseteq Configs
      BY <1>1, <2>1, <3>1, <3>2, StoreAssumption DEF Load, SaveFrom, LastWrite
    <3> QED BY <3>1, <3>2, <3>3 DEF StorageStates
  <2>2. CASE ~Readable(rom)
    BY <1>1, <2>2, DefaultsTyped DEF Load, StorageStates
  <2> QED BY <2>1, <2>2
<1>2. CASE LoadFails
  BY <1>2, DefaultsTyped DEF LoadFails, StorageStates
<1>3. CASE WriteDone
  <2>1. rom' \in RecordType
    BY <1>3, WrittenTyped DEF WriteDone
  <2>2. save' \in [at : 0 .. LastWrite + 1, old : Configs]
    <3>1. CASE SaveEnds
      BY <1>3, <3>1, NoSaveTyped DEF WriteDone
    <3>2. CASE ~SaveEnds
      BY <1>3, <3>2, StoreAssumption DEF WriteDone, Saving, Writes, LastWrite
    <3> QED BY <3>1, <3>2
  <2> QED BY <1>3, <2>1, <2>2 DEF WriteDone, StorageStates
<1>4. CASE WriteRefused
  BY <1>4, NoSaveTyped DEF WriteRefused, StorageStates
<1>5. CASE PowerFails
  <2>1. rom' \in RecordType
    BY <1>5, WrittenTyped, TornTyped DEF PowerFails
  <2> QED BY <1>5, <2>1, NoSaveTyped DEF PowerFails, StorageStates
<1>6. ASSUME NEW b \in Blocks, NEW v \in Values, SetParameter(b, v) PROVE StoreTypeOK'
  <2>1. ram' \in Configs
    BY <1>6 DEF SetParameter, Configs
  <2>2. save' \in [at : 0 .. LastWrite + 1, old : Configs]
    BY <1>6, StoreAssumption DEF SetParameter, SaveFrom, LastWrite
  <2> QED BY <1>6, <2>1, <2>2 DEF SetParameter, SaveFrom
<1>7. CASE UNCHANGED storevars
  BY <1>7 DEF storevars
<1> QED BY <1>1, <1>2, <1>3, <1>4, <1>5, <1>6, <1>7 DEF StoreNext

-----------------------------------------------------------------------------
(* The invariant.                                                          *)

LEMMA InitHolds == StoreInit => StoreInv
<1> SUFFICES ASSUME StoreInit PROVE StoreInv
  OBVIOUS
<1>1. StoreTypeOK /\ ~Saving /\ ~Powered
  BY InitTyped, StoreAssumption DEF NoSave, Saving, Writes, LastWrite
<1>2. Known
  BY StoreAssumption DEF StoreInit, Known, Readable
<1> QED BY <1>1, <1>2 DEF StoreInv, Progress, OnlyConfirmedInUse, SurvivesRestart

\* Loading takes what is Known, and a record of version 1 is saved anew.
LEMMA LoadHolds == StoreInv /\ StoreTypeOK' /\ (Load \/ LoadFails) => StoreInv'
<1> SUFFICES ASSUME StoreInv, StoreTypeOK', Load \/ LoadFails PROVE StoreInv'
  OBVIOUS
<1>1. ~Powered /\ ~Saving /\ rom' = rom
  BY DEF Load, LoadFails, StoreInv, Progress
<1>2. CASE Load /\ Readable(rom)
  <2>1. ram' = rom.body[1].of /\ confirmed' = ram' /\ storage' = "VALID"
    BY <1>2 DEF Load
  <2>2. Known' /\ SurvivesRestart' /\ OnlyConfirmedInUse'
    BY <1>1, <1>2, <2>1 DEF Known, SurvivesRestart, OnlyConfirmedInUse, Readable
  <2>3. Progress'
    <3>1. CASE save' = save
      BY <1>1, <3>1 DEF Progress, Saving
    <3>2. CASE SaveFrom(ram', ram')
      BY <1>1, <2>1, <3>2, StoreAssumption DEF SaveFrom, Progress, Saving, Powered
    <3> QED BY <1>2, <3>1, <3>2 DEF Load
  <2> QED BY <2>2, <2>3 DEF StoreInv
<1>3. CASE LoadFails \/ ~Readable(rom)
  <2>1. ram' = Defaults /\ storage' # "VALID" /\ UNCHANGED <<rom, save, confirmed, attempted>>
    BY <1>3 DEF Load, LoadFails
  <2> QED BY <1>1, <2>1
          DEF StoreInv, Progress, Saving, Known, SurvivesRestart, OnlyConfirmedInUse, Readable
<1> QED BY <1>2, <1>3

\* A setter begins a save, from parameters that are confirmed or the defaults.
LEMMA SetHolds ==
  ASSUME StoreInv, StoreTypeOK', NEW b \in Blocks, NEW v \in Values, SetParameter(b, v)
  PROVE  StoreInv'
<1>1. /\ save'.at = 0 /\ save'.old = ram /\ attempted' = attempted \cup {ram'}
      /\ UNCHANGED <<rom, storage, confirmed>> /\ Powered /\ ~Saving
  BY DEF SetParameter, SaveFrom
<1>2. Saving'
  BY <1>1, StoreAssumption DEF Saving, Writes, LastWrite
<1>3. ram = confirmed \/ ram = Defaults
  BY <1>1 DEF StoreInv, OnlyConfirmedInUse
<1>4. Progress'
  BY <1>1, <1>3, StoreAssumption DEF Progress, Powered
<1>5. Known'
  BY <1>1 DEF StoreInv, Known, Readable
<1> QED BY <1>2, <1>4, <1>5 DEF StoreInv, OnlyConfirmedInUse, SurvivesRestart

\* A record whose chunks are all fresh, magic word or not.
LEMMA FreshIsReadable ==
  ASSUME NEW r, r.magic, \A i \in 1 .. Chunks : r.body[i] = Fresh
  PROVE  Readable(r) /\ r.body[1].of = ram
BY StoreAssumption DEF Readable, Fresh

\* A write of the body, complete or not, leaves the record unreadable.
LEMMA BodyUnreadable ==
  ASSUME StoreInv, Saving, save.at \in 1 .. Chunks, NEW r,
         r = Written \/ \E c \in Configs : r = Torn(c)
  PROVE  ~Readable(r)
<1>1. ~rom.magic
  BY StoreAssumption DEF StoreInv, Progress
<1>2. PICK chunk : r = [rom EXCEPT !.body[save.at] = chunk]
  <2>1. save.at # 0 /\ save.at # LastWrite
    BY StoreAssumption DEF LastWrite
  <2> QED BY <2>1 DEF Written, Torn
<1>3. r.magic = rom.magic
  BY <1>2 DEF StoreInv, StoreTypeOK, RecordType
<1> QED BY <1>1, <1>3 DEF Readable

\* The last write makes the record readable, with the parameters in use.
LEMMA LastWriteReadable ==
  ASSUME StoreInv, Saving, save.at = LastWrite
  PROVE  Readable(Written) /\ Written.body[1].of = ram
<1>1. \A i \in 1 .. Chunks : rom.body[i] = Fresh
  BY StoreAssumption DEF StoreInv, Progress, LastWrite
<1>2. Written.magic /\ Written.body = rom.body
  BY StoreAssumption DEF Written, LastWrite, StoreInv, StoreTypeOK, RecordType
<1> QED BY <1>1, <1>2, FreshIsReadable

\* A write that succeeds.
LEMMA WriteHolds == StoreInv /\ StoreTypeOK' /\ WriteDone => StoreInv'
<1> SUFFICES ASSUME StoreInv, StoreTypeOK', WriteDone PROVE StoreInv'
  OBVIOUS
<1>1. Saving /\ Powered /\ rom' = Written /\ ram' = ram
  BY DEF WriteDone, StoreInv, Progress
<1>2. CASE SaveEnds
  <2>1. save' = NoSave /\ storage' = "VALID" /\ confirmed' = ram
    BY <1>2 DEF WriteDone
  <2>2. ~Saving'
    BY <2>1, StoreAssumption DEF NoSave, Saving, Writes, LastWrite
  <2>3. Readable(rom') /\ rom'.body[1].of = ram
    BY <1>1, <1>2, LastWriteReadable DEF SaveEnds
  <2> QED BY <1>1, <2>1, <2>2, <2>3
          DEF StoreInv, Progress, Known, OnlyConfirmedInUse, SurvivesRestart, Readable
<1>3. CASE ~SaveEnds
  <2>1. save' = [save EXCEPT !.at = @ + 1] /\ UNCHANGED <<storage, confirmed, attempted>>
    BY <1>3 DEF WriteDone
  <2>2. save.at \in 0 .. Chunks /\ save'.at = save.at + 1 /\ save'.old = save.old
    BY <1>1, <1>3, <2>1, StoreAssumption DEF Saving, Writes, LastWrite, SaveEnds, StoreInv, StoreTypeOK
  <2>3. Saving' /\ Powered'
    BY <1>1, <2>1, <2>2, StoreAssumption DEF Saving, Writes, LastWrite, Powered
  <2>4. ~rom'.magic
    <3>1. CASE save.at = 0
      BY <1>1, <3>1 DEF Written, StoreInv, StoreTypeOK, RecordType
    <3>2. CASE save.at \in 1 .. Chunks
      BY <1>1, <3>2, StoreAssumption DEF Written, LastWrite, StoreInv, StoreTypeOK, RecordType, Progress
    <3> QED BY <2>2, <3>1, <3>2, StoreAssumption
  <2>5. \A i \in 1 .. Chunks : i < save'.at => rom'.body[i] = Fresh
    <3> SUFFICES ASSUME NEW i \in 1 .. Chunks, i < save'.at PROVE rom'.body[i] = Fresh
      OBVIOUS
    <3>1. CASE save.at = 0
      BY <2>2, <3>1, StoreAssumption
    <3>2. CASE save.at \in 1 .. Chunks
      <4>1. rom' = [rom EXCEPT !.body[save.at] = Fresh]
        BY <1>1, <3>2, StoreAssumption DEF Written, LastWrite, Fresh
      <4>2. CASE i = save.at
        BY <4>1, <4>2 DEF StoreInv, StoreTypeOK, RecordType
      <4>3. CASE i # save.at
        <5>1. i < save.at
          BY <2>2, <3>2, <4>3, StoreAssumption
        <5>2. rom.body[i] = Fresh
          BY <1>1, <5>1 DEF StoreInv, Progress
        <5> QED BY <4>1, <4>3, <5>2 DEF StoreInv, StoreTypeOK, RecordType
      <4> QED BY <4>2, <4>3
    <3> QED BY <2>2, <3>1, <3>2, StoreAssumption
  <2>6. Progress'
    <3>1. Fresh' = Fresh
      BY <1>1 DEF Fresh
    <3> QED BY <1>1, <2>1, <2>2, <2>3, <2>4, <2>5, <3>1 DEF StoreInv, Progress
  <2> QED BY <2>3, <2>4, <2>6 DEF StoreInv, Known, Readable, OnlyConfirmedInUse, SurvivesRestart
<1> QED BY <1>2, <1>3

\* A write that is refused: the parameter is taken back.
LEMMA RefusedHolds == StoreInv /\ StoreTypeOK' /\ WriteRefused => StoreInv'
<1> SUFFICES ASSUME StoreInv, StoreTypeOK', WriteRefused PROVE StoreInv'
  OBVIOUS
<1>1. /\ Saving /\ storage' = "IO_ERROR" /\ save' = NoSave /\ ram' = save.old
      /\ UNCHANGED <<rom, confirmed, attempted>>
  BY DEF WriteRefused
<1>2. ~Saving'
  BY <1>1, StoreAssumption DEF NoSave, Saving, Writes, LastWrite
<1>3. OnlyConfirmedInUse'
  BY <1>1 DEF StoreInv, Progress, OnlyConfirmedInUse, Defaults
<1> QED BY <1>1, <1>2, <1>3 DEF StoreInv, Progress, Known, Readable, SurvivesRestart

\* Power fails in the middle of a write.
LEMMA PowerHolds == StoreInv /\ StoreTypeOK' /\ PowerFails => StoreInv'
<1> SUFFICES ASSUME StoreInv, StoreTypeOK', PowerFails PROVE StoreInv'
  OBVIOUS
<1>1. /\ storage' = "OFF" /\ save' = NoSave /\ UNCHANGED <<ram, confirmed, attempted>>
  BY DEF PowerFails
<1>2. ~Saving' /\ ~Powered'
  BY <1>1, StoreAssumption DEF NoSave, Saving, Writes, LastWrite, Powered
<1>3. Known'
  <2>1. CASE rom' = rom
    BY <1>1, <2>1 DEF StoreInv, Known, Readable
  <2>2. CASE Saving /\ save.at \in 1 .. Chunks /\ rom' # rom
    <3>1. rom' = Written \/ \E c \in Configs : rom' = Torn(c)
      BY <2>2 DEF PowerFails
    <3> QED BY <2>2, <3>1, BodyUnreadable DEF Known, Readable
  <2>3. CASE Saving /\ save.at \notin 1 .. Chunks /\ rom' # rom
    <3>1. rom' = Written /\ (save.at = 0 \/ save.at = LastWrite)
      <4>1. rom' = Written
        BY <2>3 DEF PowerFails
      <4>2. save.at \in 0 .. LastWrite /\ save.at \notin 1 .. Chunks
        BY <2>3 DEF Saving, Writes
      <4> QED BY <4>1, <4>2, StoreAssumption DEF LastWrite
    <3>2. CASE save.at = 0
      BY <3>1, <3>2 DEF Written, StoreInv, StoreTypeOK, RecordType, Known, Readable
    <3>3. CASE save.at = LastWrite
      <4>1. rom'.body[1].of = ram /\ ram \in attempted
        BY <2>3, <3>1, <3>3, LastWriteReadable DEF StoreInv, Progress
      <4> QED BY <1>1, <4>1 DEF Known
    <3> QED BY <3>1, <3>2, <3>3
  <2> QED BY <2>1, <2>2, <2>3 DEF PowerFails
<1> QED BY <1>2, <1>3 DEF StoreInv, Progress, OnlyConfirmedInUse, SurvivesRestart

LEMMA StepHolds == StoreInv /\ [StoreNext]_storevars => StoreInv'
<1> SUFFICES ASSUME StoreInv, [StoreNext]_storevars PROVE StoreInv'
  OBVIOUS
<1>1. StoreTypeOK'
  BY StepTyped DEF StoreInv
<1>2. CASE UNCHANGED storevars
  BY <1>2 DEF storevars, StoreInv, StoreTypeOK, Progress, Saving, Powered, Fresh, Known,
              Readable, OnlyConfirmedInUse, SurvivesRestart
<1> QED BY <1>1, <1>2, LoadHolds, SetHolds, WriteHolds, RefusedHolds, PowerHolds DEF StoreNext

LEMMA StoreCorrect == StoreSpec => []StoreInv
BY InitHolds, StepHolds, PTL DEF StoreSpec

-----------------------------------------------------------------------------
(* The theorems.                                                           *)

\* Parameters in use are confirmed ones, or the defaults of a start that reports it: a
\* set command that fails, at whatever write, leaves nothing behind (mission_task.c:925).
THEOREM ConfirmedInUse == StoreSpec => []OnlyConfirmedInUse
BY StoreCorrect, PTL DEF StoreInv

\* When VALID is shown and nothing is being saved, a restart loads the parameters in use.
THEOREM RestartSafe == StoreSpec => []SurvivesRestart
BY StoreCorrect, PTL DEF StoreInv

\* After a loss of power at any write, what load_configuration takes is the confirmed
\* configuration or one whose save has begun since, whole.
THEOREM WholeAfterPowerLoss == StoreSpec => LoadsWhole
<1>1. StoreInv /\ [StoreNext]_storevars =>
        [~Powered /\ storage' = "VALID" => ram' \in {confirmed} \cup attempted]_storevars
  <2> SUFFICES ASSUME StoreInv, StoreNext, ~Powered, storage' = "VALID"
               PROVE  ram' \in {confirmed} \cup attempted
    OBVIOUS
  <2>1. ~Saving
    BY DEF StoreInv, Progress
  <2>2. Load
    BY <2>1 DEF StoreNext, LoadFails, WriteDone, WriteRefused, PowerFails, SetParameter
  <2>3. Readable(rom) /\ ram' = rom.body[1].of
    BY <2>2 DEF Load
  <2> QED BY <2>3 DEF StoreInv, Known
<1> QED BY <1>1, StoreCorrect, PTL DEF StoreSpec, LoadsWhole
=============================================================================
