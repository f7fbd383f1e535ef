-------------------------------- MODULE Storage --------------------------------
(***************************************************************************)
(* The record of the missions' parameters in the EEPROM: load_configuration, *)
(* MissionTask_SaveConfiguration and the setters of mission_task.c over      *)
(* EEPROM_Write. A record is written in chunks, the pages of the EEPROM; the *)
(* magic word is erased first and written last. Power may fail at any time,  *)
(* the chunk being written is then old, new or torn; a transfer may fail.    *)
(*                                                                         *)
(* A configuration is one value per block of parameters. The chunks of a     *)
(* record hold the configuration they were built from; the CRC holds when    *)
(* all stem from the same one. The generation is left out: nothing reads it. *)
(***************************************************************************)
EXTENDS Naturals

CONSTANTS
  Blocks,   \* the parameters that one setter changes
  Values,   \* what they may be
  Default,  \* what they are without a record
  Chunks,   \* page writes of a record's body
  Legacy    \* the record found at first may be one of version 1

ASSUME StoreAssumption ==
  /\ Default \in Values
  /\ Chunks \in Nat \ {0}
  /\ Legacy \in BOOLEAN

Configs == [Blocks -> Values]
Defaults == [b \in Blocks |-> Default]

VARIABLES
  rom,        \* the record: magic word and chunks
  ram,        \* g_task.configs
  storage,    \* g_task.status.storage_state; "OFF" without power
  save,       \* the save in progress: its next write, the value of ram to go back to
  confirmed,  \* history: the configuration last loaded or reported as persisted
  attempted   \* history: the configurations whose save has begun since

storevars == <<rom, ram, storage, save, confirmed, attempted>>

StorageStates == {"OFF", "EMPTY", "VALID", "INVALID", "IO_ERROR"}

\* The writes of a save, in order: the magic word is erased, the body, the magic word.
LastWrite == Chunks + 1
Writes == 0 .. LastWrite
NoSave == [at |-> LastWrite + 1, old |-> Defaults]
Saving == save.at \in Writes

Powered == storage # "OFF"

StoreInit ==
  /\ \E c \in Configs, version \in {1, 2} :
       /\ version = 1 => Legacy
       /\ \E magic \in BOOLEAN :
            rom = [magic |-> magic,
                   body |-> [i \in 1 .. Chunks |->
                               [whole |-> magic, of |-> c, version |-> version]]]
       /\ confirmed = c /\ attempted = {}
  /\ ram = Defaults /\ storage = "OFF" /\ save = NoSave

-----------------------------------------------------------------------------
(* Loading.                                                                *)

\* Mutant: neither the magic word nor the CRC is looked at.
ReadableAnyhow(r) == TRUE

\* What load_configuration asks of a record: magic word and CRC.
Readable(r) ==
  r.magic /\ \A i \in 1 .. Chunks : r.body[i].whole /\ r.body[i] = r.body[1]

\* MissionTask_SaveConfiguration begins.
SaveFrom(old, new) ==
  /\ save' = [at |-> 0, old |-> old]
  /\ attempted' = attempted \cup {new}

\* MissionTask_Init and load_configuration: a record of version 1 is saved as one of
\* version 2 at once.
Load ==
  /\ ~Powered
  /\ IF Readable(rom)
     THEN /\ ram' = rom.body[1].of /\ confirmed' = ram' /\ storage' = "VALID"
          /\ IF rom.body[1].version = 1 THEN SaveFrom(ram', ram')
             ELSE save' = save /\ attempted' = {}
     ELSE /\ ram' = Defaults /\ storage' = IF rom.magic THEN "INVALID" ELSE "EMPTY"
          /\ UNCHANGED <<confirmed, save, attempted>>
  /\ UNCHANGED rom

\* The record cannot be read.
LoadFails ==
  /\ ~Powered
  /\ ram' = Defaults /\ storage' = "IO_ERROR"
  /\ UNCHANGED <<rom, save, confirmed, attempted>>

-----------------------------------------------------------------------------
(* Saving.                                                                 *)

\* MissionTask_SetAlign, ..BlindY, ..ZDrop, ..PresetPose, ..SafePose.
SetParameter(b, v) ==
  /\ Powered /\ ~Saving
  /\ ram' = [ram EXCEPT ![b] = v]
  /\ SaveFrom(ram, ram')
  /\ UNCHANGED <<rom, storage, confirmed>>

\* The record when one more write has been done ...
Written ==
  IF save.at = 0 THEN [rom EXCEPT !.magic = FALSE]
  ELSE IF save.at = LastWrite THEN [rom EXCEPT !.magic = TRUE]
  ELSE [rom EXCEPT !.body[save.at] = [whole |-> TRUE, of |-> ram, version |-> 2]]

\* ... or has been cut off: the chunk then reads as any configuration.
Torn(c) == [rom EXCEPT !.body[save.at] = [whole |-> FALSE, of |-> c, version |-> 2]]

\* Mutant: the record counts as saved when its body is written.
SaveEndsEarly == save.at = Chunks

\* The save is complete with the magic word.
SaveEnds == save.at = LastWrite

\* A write of EEPROM_Write succeeds.
WriteDone ==
  /\ Saving /\ rom' = Written
  /\ IF SaveEnds
     THEN save' = NoSave /\ storage' = "VALID" /\ confirmed' = ram /\ attempted' = {}
     ELSE save' = [save EXCEPT !.at = @ + 1] /\ UNCHANGED <<storage, confirmed, attempted>>
  /\ UNCHANGED ram

\* Mutant: the parameter stays as it was set.
WriteRefusedKeeping ==
  /\ Saving
  /\ storage' = "IO_ERROR" /\ save' = NoSave
  /\ UNCHANGED <<rom, ram, confirmed, attempted>>

\* A transfer fails: the save ends, and the setter takes the parameter back.
WriteRefused ==
  /\ Saving
  /\ storage' = "IO_ERROR" /\ save' = NoSave /\ ram' = save.old
  /\ UNCHANGED <<rom, confirmed, attempted>>

\* Power fails. A magic word that is cut off is no magic word, or has been written.
PowerFails ==
  /\ Powered
  /\ storage' = "OFF" /\ save' = NoSave
  /\ rom' \in IF ~Saving THEN {rom}
              ELSE IF save.at \in 1 .. Chunks THEN {rom, Written} \cup {Torn(c) : c \in Configs}
              ELSE {rom, Written}
  /\ UNCHANGED <<ram, confirmed, attempted>>

StoreNext ==
  \/ Load \/ LoadFails \/ WriteDone \/ WriteRefused \/ PowerFails
  \/ \E b \in Blocks, v \in Values : SetParameter(b, v)

StoreSpec == StoreInit /\ [][StoreNext]_storevars

-----------------------------------------------------------------------------
RecordType ==
  [magic : BOOLEAN,
   body : [1 .. Chunks -> [whole : BOOLEAN, of : Configs, version : {1, 2}]]]

\* The variables stay within their types.
StoreTypeOK ==
  /\ rom \in RecordType
  /\ ram \in Configs
  /\ storage \in StorageStates
  /\ save \in [at : 0 .. LastWrite + 1, old : Configs]
  /\ confirmed \in Configs /\ attempted \subseteq Configs

\* When the state is shown as VALID and nothing is being saved, the parameters in use are
\* the ones that a restart would load.
SurvivesRestart ==
  Powered /\ ~Saving /\ storage = "VALID" => Readable(rom) /\ rom.body[1].of = ram

\* After a loss of power at any moment, what is loaded is the configuration that was last
\* confirmed or one whose save has begun since: never a mixture of two, never older ones.
LoadsWhole ==
  [][~Powered /\ storage' = "VALID" => ram' \in {confirmed} \cup attempted]_storevars

\* Parameters that are in use have been confirmed as persisted, or are the defaults of a
\* start that is reported: a set command that fails leaves nothing behind.
OnlyConfirmedInUse ==
  Powered /\ ~Saving => ram = confirmed \/ (ram = Defaults /\ storage # "VALID")
=============================================================================
