------------------------ MODULE InSystemProgramming ------------------------
(***************************************************************************)
(* In-system programming of the EEPROMs behind a PMBus: the record engine  *)
(* (main_record_processor.cpp), its NVM buffer (nvm_data_helpers.cpp), the *)
(* NVM front end (LT_Nvm.cpp) and the commands of the application that     *)
(* drive them (LT_PMBusApp.cpp).                                           *)
(*                                                                         *)
(* A recipe (an ISP hex file) is a sequence of records.  The engine        *)
(* fetches them one by one and issues bus transfers; the chips answer,     *)
(* take time, may store a word badly and may fail a transfer, which ends   *)
(* the process.  All of the engine's state is static: it outlives a run,   *)
(* and only a new process resets it.                                       *)
(***************************************************************************)
EXTENDS Integers, Sequences

CONSTANTS Chips,     \* the devices a recipe programs
          Word,      \* what an EEPROM word can hold
          Blank,     \* an erased word
          NWords,    \* words in the EEPROM of a chip
          Worn,      \* the cells <<chip, word>> that may stay erased when written
          Recipes,   \* the recipes the user may choose
          None       \* no recipe chosen yet

(* Record types, as the processing of them tells them apart. WRITE_BYTE is *)
(* record 0x01; WRITE_OTHER stands for 0x02, 0x0E, 0x0F, 0x10, 0x17, 0x1C, *)
(* 0x1D, 0x20 and 0x21, which no pass rewrites; SKIPPED for 0x07, 0x08,    *)
(* 0x0D and 0x1B; UNSUPPORTED for 0x03, 0x06, 0x11, 0x14 and unknown ones. *)
RecordType == {"WRITE_BYTE", "WRITE_OTHER", "READ_EXPECT", "READ_LOOP", "POLL_ACK",
               "NVM_DATA", "WRITE_EE_DATA", "VERIFY_EE_DATA", "EVENT", "SKIPPED",
               "UNSUPPORTED", "END_OF_RECORDS"}

(* Commands of a chip: MFR_EE_UNLOCK, MFR_EE_ERASE, MFR_EE_DATA, the others. *)
Command == {"EE_UNLOCK", "EE_ERASE", "EE_DATA", "OTHER"}

(* Bytes the recipes write to them: 0x00, 0x2B, 0xD4.                      *)
Data == {"lock", "key1", "key2"}

EventId == {"BEFORE_BEGIN", "BEFORE_INSYSTEM_PROGRAMMING_BEGIN", "SYSTEM_BEFORE_PROGRAM",
            "INSYSTEM_CHIP_BEFORE_PROGRAM", "INSYSTEM_CHIP_AFTER_PROGRAM",
            "SYSTEM_BEFORE_VERIFY", "INSYSTEM_CHIP_BEFORE_VERIFY",
            "INSYSTEM_CHIP_AFTER_VERIFY", "SYSTEM_AFTER_VERIFY", "AFTER_DONE", "UNKNOWN"}

Image == [1..NWords -> Word]

Record == [type : RecordType, chip : Chips, cmd : Command, data : Data,
           words : Image, event : EventId]

-----------------------------------------------------------------------------
(* What a recipe must be for the engine to be safe with it (WellFormed),   *)
(* for its transfers to find the chips ready (Polled), and for its verify  *)
(* runs to mean something (Governed).  The recipe compiled into the        *)
(* program, data.h, is all three.                                          *)

(* The last record of type t before record i of r, if there is one, is j.  *)
LastBefore(r, t, i, j) == /\ j \in 1..(i - 1)
                          /\ r[j].type = t
                          /\ \A k \in (j + 1)..(i - 1) : r[k].type # t

(* Each write and verify of EEPROM data has a buffered block for its chip, *)
(* and no verify before it has released that block.                        *)
Buffered(r, i) == \E j \in 1..(i - 1) :
                     /\ LastBefore(r, "NVM_DATA", i, j)
                     /\ r[j].chip = r[i].chip
                     /\ \A k \in (j + 1)..(i - 1) : r[k].type # "VERIFY_EE_DATA"

ImageOf(r, i) == r[CHOOSE j \in 1..(i - 1) : LastBefore(r, "NVM_DATA", i, j)].words

(* A record that changes EEPROM data: a block write, or an erase.          *)
Alters(rec) == \/ rec.type = "WRITE_EE_DATA"
               \/ rec.type \in {"WRITE_BYTE", "WRITE_OTHER"} /\ rec.cmd = "EE_ERASE"

VerifiesOf(r) == {i \in DOMAIN r : r[i].type = "VERIFY_EE_DATA"}

(* Records that write a key to chip c, and those that move its data pointer. *)
Keys(rec, c) == rec.type = "WRITE_BYTE" /\ rec.cmd = "EE_UNLOCK" /\ rec.chip = c

Moves(rec, c) == /\ rec.chip = c
                 /\ \/ rec.type \in {"WRITE_EE_DATA", "VERIFY_EE_DATA"}
                    \/ rec.type = "WRITE_BYTE" /\ rec.cmd = "EE_ERASE"

ExpectsOpen(rec, c) == /\ rec.type = "READ_EXPECT"
                       /\ rec.cmd = "EE_UNLOCK" /\ rec.data = "key2" /\ rec.chip = c

(* Before record i its chip was given a key and then found open.           *)
Opened(r, i) ==
  \E j \in 1..(i - 1) : \E k \in (j + 1)..(i - 1) :
    /\ Keys(r[j], r[i].chip)
    /\ ExpectsOpen(r[k], r[i].chip)
    /\ \A m \in (j + 1)..(i - 1) : r[m].type # "EVENT" /\ ~Moves(r[m], r[i].chip)
    /\ \A m \in (k + 1)..(i - 1) : ~Keys(r[m], r[i].chip)

(* Each verify stands in a section that an explicit event opened, and reads *)
(* a chip that the recipe opened.                                          *)
Governed(r) ==
  \A i \in VerifiesOf(r) :
    /\ Opened(r, i)
    /\ \E j \in 1..(i - 1) : /\ LastBefore(r, "EVENT", i, j)
                              /\ r[j].event = "INSYSTEM_CHIP_BEFORE_VERIFY"

(* Records that keep their chip busy, and those of them whose handler does  *)
(* not poll the chip first: a block write polls only after each word.      *)
Unpolled(rec) == \/ rec.type = "WRITE_BYTE" /\ rec.cmd \in {"EE_UNLOCK", "EE_ERASE"}
                 \/ rec.type = "READ_EXPECT" /\ rec.cmd = "EE_DATA"
                 \/ rec.type = "WRITE_EE_DATA"

Occupies(rec, c) == rec.chip = c /\ (Unpolled(rec) \/ rec.type = "VERIFY_EE_DATA")

(* A poll of chip c that record j made still holds before record i: nothing *)
(* occupied the chip since, and no event began or ended a section.         *)
Ready(r, i, c, j) ==
  /\ r[j].type = "READ_LOOP" /\ r[j].chip = c
  /\ \A k \in (j + 1)..(i - 1) : r[k].type # "EVENT" /\ ~Occupies(r[k], c)

Polled(r) == \A i \in DOMAIN r :
               Unpolled(r[i]) => \E j \in 1..(i - 1) : Ready(r, i, r[i].chip, j)

WellFormed(r) ==
  /\ r \in Seq(Record)
  /\ Len(r) > 0
  /\ \A i \in DOMAIN r :
       /\ (r[i].type = "END_OF_RECORDS") <=> (i = Len(r))
       /\ r[i].type \in {"WRITE_EE_DATA", "VERIFY_EE_DATA"} => Buffered(r, i)
       /\ r[i].type = "WRITE_OTHER" => r[i].cmd = "OTHER"
       /\ r[i].type = "WRITE_BYTE" => r[i].cmd # "EE_DATA"
       /\ r[i].type = "VERIFY_EE_DATA" =>
            \A k \in (i + 1)..Len(r) : Alters(r[k]) => r[k].chip # r[i].chip

ASSUME ConstantsAssumption == /\ NWords \in Nat \ {0}
                              /\ Blank \in Word
                              /\ None \notin Recipes

ASSUME RecipesAssumption == \A r \in Recipes : WellFormed(r)

-----------------------------------------------------------------------------
VARIABLES
  run,         \* the loop that runs ("program", "verify"), the one that just ended
               \* ("program_done", "verify_done"), "idle" in the menu, "dead" after an exit
  recipe,      \* icpData: the recipe of the current or last run
  pos,         \* flashLocation: the record the next get_record() returns
  status,      \* successful_parse_of_record_type
  result,      \* what the last finished run returned: "none", "SUCCESS", "FAILURE"
  verification_in_progress, ignore_records,
  step,        \* inside a handler that loops: "none", "write", "poll", "read"
  index,       \* i, the word such a handler is at
  nvram_somethingToVerify,
  buffer,      \* record_pointer: "none", "live" or "freed"
  words        \* words/nWords: what the live record holds

VARIABLES
  eeprom,      \* chip -> its words
  unlock,      \* chip -> MFR_EE_UNLOCK: "locked", "half", "open"
  pointer,     \* chip -> the word the next MFR_EE_DATA transfer addresses, 1 while it is not open
  busy,        \* chip -> bit 6 of MFR_COMMON is clear
  overrun      \* some MFR_EE_* transfer met a busy chip

engine == <<verification_in_progress, ignore_records, step, index,
            nvram_somethingToVerify, buffer, words>>
session == <<run, recipe, pos, status, result>>
chips == <<eeprom, unlock, pointer, busy, overrun>>
vars == <<session, engine, chips>>

SUCCESS == "SUCCESS"
FAILURE == "FAILURE"

(* Type correctness, of the run, of the engine's statics and of the chips:  *)
(* no loop of a handler leaves its words, no run its recipe, no transfer a  *)
(* pointer outside the EEPROM.                                             *)
SessionType ==
  /\ run \in {"idle", "program", "verify", "program_done", "verify_done", "dead"}
  /\ recipe \in Recipes \cup {None}
  /\ pos \in Nat \ {0}
  /\ run \in {"program", "verify"} => recipe \in Recipes /\ pos \in DOMAIN recipe
  /\ run \in {"program_done", "verify_done"} => recipe \in Recipes
  /\ status \in {SUCCESS, FAILURE}
  /\ result \in {"none", SUCCESS, FAILURE}

EngineType ==
  /\ verification_in_progress \in BOOLEAN
  /\ ignore_records \in BOOLEAN
  /\ step \in {"none", "write", "poll", "read"}
  /\ index \in 1..NWords
  /\ nvram_somethingToVerify \in BOOLEAN
  /\ buffer \in {"none", "live", "freed"}
  /\ words \in Image

ChipsType ==
  /\ eeprom \in [Chips -> Image]
  /\ unlock \in [Chips -> {"locked", "half", "open"}]
  /\ pointer \in [Chips -> 1..NWords]
  /\ busy \in [Chips -> BOOLEAN]
  /\ overrun \in BOOLEAN

TypeOK == SessionType /\ EngineType /\ ChipsType

NoWords == [i \in 1..NWords |-> Blank]

(* The statics of a new process; words has no meaning without a live record. *)
StaticsInit ==
  /\ verification_in_progress = FALSE
  /\ ignore_records = FALSE
  /\ nvram_somethingToVerify = FALSE
  /\ buffer = "none"
  /\ words = NoWords
  /\ step = "none"
  /\ index = 1

Init ==
  /\ run = "idle" /\ recipe = None /\ pos = 1
  /\ status = SUCCESS /\ result = "none"
  /\ StaticsInit
  /\ eeprom = [c \in Chips |-> NoWords]
  /\ unlock = [c \in Chips |-> "locked"]
  /\ pointer = [c \in Chips |-> 1]
  /\ busy = [c \in Chips |-> FALSE]
  /\ overrun = FALSE

-----------------------------------------------------------------------------
(* The chips, as the recipes and the NVM commands of LT_PMBus use them.    *)

(* A write of MFR_EE_UNLOCK or MFR_EE_ERASE, and a transfer of MFR_EE_DATA, *)
(* keep chip c busy for a while.                                           *)
Occupy(c) == /\ busy' = [busy EXCEPT ![c] = TRUE]
             /\ overrun' = (overrun \/ busy[c])

(* MFR_EE_UNLOCK: 0x2B then 0xD4 opens the EEPROM at its first word and     *)
(* anything else locks it.                                                 *)
UnlockWrite(c, d) ==
  LET opens == d = "key2" /\ unlock[c] = "half"
  IN  /\ unlock' = [unlock EXCEPT ![c] = IF opens THEN "open"
                                         ELSE IF d = "key1" THEN "half" ELSE "locked"]
      /\ pointer' = [pointer EXCEPT ![c] = 1]
      /\ Occupy(c)
      /\ UNCHANGED eeprom

(* MFR_EE_ERASE: erases an open EEPROM and locks it.                       *)
EraseWrite(c) ==
  /\ eeprom' = [eeprom EXCEPT ![c] = IF unlock[c] = "open"
                                     THEN NoWords ELSE @]
  /\ unlock' = [unlock EXCEPT ![c] = "locked"]
  /\ pointer' = [pointer EXCEPT ![c] = 1]
  /\ Occupy(c)

(* After a word the EEPROM addresses the next one; after the last it locks. *)
StepPointer(c) ==
  IF unlock[c] = "open"
    THEN /\ pointer' = [pointer EXCEPT ![c] = IF @ = NWords THEN 1 ELSE @ + 1]
         /\ unlock' = [unlock EXCEPT ![c] = IF pointer[c] = NWords THEN "locked" ELSE @]
    ELSE UNCHANGED <<pointer, unlock>>

(* MFR_EE_DATA written: the cell holds the word, unless it is worn and stays *)
(* erased.                                                                 *)
StoreWord(c, w) ==
  /\ \E v \in {w} \cup (IF <<c, pointer[c]>> \in Worn THEN {Blank} ELSE {}) :
       eeprom' = IF unlock[c] = "open"
                   THEN [eeprom EXCEPT ![c] = [@ EXCEPT ![pointer[c]] = v]] ELSE eeprom
  /\ StepPointer(c)
  /\ Occupy(c)

(* MFR_EE_DATA read: an EEPROM that is not open answers anything.          *)
FetchedWord(c) == IF unlock[c] = "open" THEN {eeprom[c][pointer[c]]} ELSE Word

FetchWord(c) == StepPointer(c) /\ Occupy(c) /\ UNCHANGED eeprom

(* The chip finishes what it does and sets bit 6 of MFR_COMMON.            *)
Settle(c) == /\ busy[c]
             /\ busy' = [busy EXCEPT ![c] = FALSE]
             /\ UNCHANGED <<session, engine, eeprom, unlock, pointer, overrun>>

-----------------------------------------------------------------------------
(* Fetching and dispatching a record.                                      *)

Active == run \in {"program", "verify"}

Fetched(types) == /\ Active
                  /\ status = SUCCESS
                  /\ step = "none"
                  /\ recipe[pos].type \in types

(* The switch over the record type: a verify run enters it only outside    *)
(* the sections it ignores.                                                *)
Dispatched(types) == Fetched(types) /\ ~(run = "verify" /\ ignore_records)

NextRecord == pos' = pos + 1 /\ UNCHANGED <<run, recipe, status, result>>

FailRecord == status' = FAILURE /\ UNCHANGED <<run, recipe, pos, result>>

Return(r) == /\ run' = IF run = "program" THEN "program_done" ELSE "verify_done"
             /\ result' = r
             /\ UNCHANGED <<recipe, pos, status>>

(* A record in an ignored section is released unseen.                      *)
SkipRecord == /\ run = "verify" /\ ignore_records
              /\ Fetched(RecordType \ {"NVM_DATA", "EVENT", "END_OF_RECORDS"})
              /\ NextRecord
              /\ UNCHANGED <<engine, chips>>

(* Mutant of WriteByte: a verify run erases as a program run does.         *)
WriteByteErases ==
  LET rec == recipe[pos]
  IN  /\ Dispatched({"WRITE_BYTE"})
      /\ CASE rec.cmd = "EE_UNLOCK" -> UnlockWrite(rec.chip, rec.data)
           [] rec.cmd = "EE_ERASE" -> EraseWrite(rec.chip)
           [] rec.cmd \in {"EE_DATA", "OTHER"} -> UNCHANGED chips
      /\ NextRecord
      /\ UNCHANGED engine

(* Record 0x01. A verify run sends a lock (0x00 to MFR_EE_UNLOCK) in the    *)
(* place of an erase.                                                      *)
WriteByte ==
  LET rec == recipe[pos]
  IN  /\ Dispatched({"WRITE_BYTE"})
      /\ CASE rec.cmd = "EE_UNLOCK" -> UnlockWrite(rec.chip, rec.data)
           [] rec.cmd = "EE_ERASE" /\ run = "verify" -> UnlockWrite(rec.chip, "lock")
           [] rec.cmd = "EE_ERASE" /\ run # "verify" -> EraseWrite(rec.chip)
           [] rec.cmd \in {"EE_DATA", "OTHER"} -> UNCHANGED chips
      /\ NextRecord
      /\ UNCHANGED engine

(* The other writes, which reach no MFR_EE_* command in a well-formed recipe. *)
WriteOther == /\ Dispatched({"WRITE_OTHER"})
              /\ NextRecord
              /\ UNCHANGED <<engine, chips>>

(* Obsolete records, delays and the META records that only name things.    *)
PassOver == /\ Dispatched({"SKIPPED"})
            /\ NextRecord
            /\ UNCHANGED <<engine, chips>>

Unsupported == /\ Dispatched({"UNSUPPORTED"})
               /\ FailRecord
               /\ UNCHANGED <<engine, chips>>

(* Records 0x04, 0x05, 0x12, 0x13, 0x19, 0x1A: the register must hold the  *)
(* expected value. What registers but MFR_EE_UNLOCK hold is left open; of   *)
(* MFR_EE_DATA recipes read so the header, which precedes the data words.   *)
ReadsAs(c, cmd, d) ==
  IF cmd = "EE_UNLOCK" THEN {unlock[c] = CASE d = "lock" -> "locked"
                                           [] d = "key1" -> "half"
                                           [] d = "key2" -> "open"}
  ELSE BOOLEAN

ReadExpect == /\ Dispatched({"READ_EXPECT"})
              /\ \E ok \in ReadsAs(recipe[pos].chip, recipe[pos].cmd, recipe[pos].data) :
                    IF ok THEN NextRecord ELSE FailRecord
              /\ IF recipe[pos].cmd = "EE_DATA"
                   THEN Occupy(recipe[pos].chip) /\ UNCHANGED <<eeprom, unlock, pointer>>
                   ELSE UNCHANGED chips
              /\ UNCHANGED engine

(* Mutant of WaitChip: the poll of bit 6 has the wrong polarity.           *)
WaitChipBusy == /\ Dispatched({"READ_LOOP", "POLL_ACK"})
                /\ busy[recipe[pos].chip]
                /\ NextRecord
                /\ UNCHANGED <<engine, chips>>

(* Records 0x0A, 0x0B, 0x15, 0x16: poll MFR_COMMON until its bit 6 is set;  *)
(* record 0x0C: poll until the chip acknowledges.  Neither gives up.       *)
WaitChip == /\ Dispatched({"READ_LOOP", "POLL_ACK"})
            /\ ~busy[recipe[pos].chip]
            /\ NextRecord
            /\ UNCHANGED <<engine, chips>>

(* Mutant of BufferNvmData: a block that no verify released is kept.        *)
BufferNvmDataOnce ==
  /\ Fetched({"NVM_DATA"})
  /\ nvram_somethingToVerify' = TRUE
  /\ IF buffer = "live" THEN UNCHANGED <<buffer, words>>
     ELSE buffer' = "live" /\ words' = recipe[pos].words
  /\ NextRecord
  /\ UNCHANGED <<verification_in_progress, ignore_records, step, index, chips>>

(* Record 0x09, in every section: the record itself becomes the buffer, and *)
(* what an earlier one held is lost to the heap.                           *)
BufferNvmData ==
  /\ Fetched({"NVM_DATA"})
  /\ nvram_somethingToVerify' = TRUE
  /\ buffer' = "live"
  /\ words' = recipe[pos].words
  /\ NextRecord
  /\ UNCHANGED <<verification_in_progress, ignore_records, step, index, chips>>

(* What words[i] reads: once the record is released, whatever the heap     *)
(* holds there now.                                                        *)
BufferedWord(i) == IF buffer = "live" THEN {words[i]} ELSE Word

(* Record 0x1E: the words go out one by one, each followed by a poll of    *)
(* MFR_COMMON. A verify run sends a lock instead.                          *)
WriteNvmData ==
  /\ Dispatched({"WRITE_EE_DATA"})
  /\ run = "program"
  /\ nvram_somethingToVerify' = TRUE
  /\ step' = "write"
  /\ index' = 1
  /\ UNCHANGED <<session, chips, verification_in_progress, ignore_records, buffer, words>>

LockForNvmData ==
  /\ Dispatched({"WRITE_EE_DATA"})
  /\ run = "verify"
  /\ UnlockWrite(recipe[pos].chip, "lock")
  /\ NextRecord
  /\ UNCHANGED engine

WriteWord ==
  /\ Active /\ step = "write"
  /\ \E w \in BufferedWord(index) : StoreWord(recipe[pos].chip, w)
  /\ step' = "poll"
  /\ UNCHANGED <<session, verification_in_progress, ignore_records, index,
                 nvram_somethingToVerify, buffer, words>>

(* Mutant of PollWord: the loop runs one word too far.                     *)
PollWordTooFar ==
  /\ Active /\ step = "poll"
  /\ ~busy[recipe[pos].chip]
  /\ IF index <= NWords
       THEN step' = "write" /\ index' = index + 1 /\ UNCHANGED session
       ELSE step' = "none" /\ index' = 1 /\ NextRecord
  /\ UNCHANGED <<chips, verification_in_progress, ignore_records,
                 nvram_somethingToVerify, buffer, words>>

PollWord ==
  /\ Active /\ step = "poll"
  /\ ~busy[recipe[pos].chip]
  /\ IF index < NWords
       THEN step' = "write" /\ index' = index + 1 /\ UNCHANGED session
       ELSE step' = "none" /\ index' = 1 /\ NextRecord
  /\ UNCHANGED <<chips, verification_in_progress, ignore_records,
                 nvram_somethingToVerify, buffer, words>>

(* Record 0x1F: read each word back and compare; a mismatch ends the loop.  *)
(* Either way the buffered record is released.                             *)
ReadThenVerify ==
  /\ Dispatched({"VERIFY_EE_DATA"})
  /\ IF nvram_somethingToVerify
       THEN /\ nvram_somethingToVerify' = FALSE
            /\ step' = "read"
            /\ index' = 1
            /\ UNCHANGED session
       ELSE FailRecord /\ UNCHANGED <<step, index, nvram_somethingToVerify>>
  /\ UNCHANGED <<chips, verification_in_progress, ignore_records, buffer, words>>

(* Mutants of ReadWord: no poll before the word; a mismatch goes unnoticed. *)
ReadWordUnpolled ==
  LET c == recipe[pos].chip
  IN  /\ Active /\ step = "read"
      /\ FetchWord(c)
      /\ \E expected \in BufferedWord(index), actual \in FetchedWord(c) :
           IF actual = expected /\ index < NWords
             THEN index' = index + 1 /\ UNCHANGED <<session, step, buffer, words>>
             ELSE /\ step' = "none" /\ index' = 1
                  /\ buffer' = "freed" /\ words' = NoWords
                  /\ IF actual = expected THEN NextRecord ELSE FailRecord
      /\ UNCHANGED <<verification_in_progress, ignore_records, nvram_somethingToVerify>>

ReadWordTrusting ==
  LET c == recipe[pos].chip
  IN  /\ Active /\ step = "read"
      /\ ~busy[c]
      /\ FetchWord(c)
      /\ IF index < NWords
           THEN index' = index + 1 /\ UNCHANGED <<session, step, buffer, words>>
           ELSE /\ step' = "none" /\ index' = 1
                /\ buffer' = "freed" /\ words' = NoWords
                /\ NextRecord
      /\ UNCHANGED <<verification_in_progress, ignore_records, nvram_somethingToVerify>>

ReadWord ==
  LET c == recipe[pos].chip
  IN  /\ Active /\ step = "read"
      /\ ~busy[c]
      /\ FetchWord(c)
      /\ \E expected \in BufferedWord(index), actual \in FetchedWord(c) :
           IF actual = expected /\ index < NWords
             THEN index' = index + 1 /\ UNCHANGED <<session, step, buffer, words>>
             ELSE /\ step' = "none" /\ index' = 1
                  /\ buffer' = "freed" /\ words' = NoWords
                  /\ IF actual = expected THEN NextRecord ELSE FailRecord
      /\ UNCHANGED <<verification_in_progress, ignore_records, nvram_somethingToVerify>>

(* Mutant of ProcessEvent: every event closes the section.                 *)
ProcessEventIgnoring ==
  LET e == recipe[pos].event
  IN  /\ Fetched({"EVENT"})
      /\ ignore_records' = IF ~verification_in_progress \/ e \in {"AFTER_DONE", "UNKNOWN"}
                             THEN ignore_records ELSE TRUE
      /\ IF e = "UNKNOWN" THEN FailRecord ELSE NextRecord
      /\ UNCHANGED <<chips, verification_in_progress, step, index,
                     nvram_somethingToVerify, buffer, words>>

(* Record 0x18, in every section: a verify run heeds the records that      *)
(* follow the event before a chip's verification, until another event.     *)
ProcessEvent ==
  LET e == recipe[pos].event
  IN  /\ Fetched({"EVENT"})
      /\ ignore_records' = IF ~verification_in_progress \/ e \in {"AFTER_DONE", "UNKNOWN"}
                             THEN ignore_records ELSE e # "INSYSTEM_CHIP_BEFORE_VERIFY"
      /\ IF e = "UNKNOWN" THEN FailRecord ELSE NextRecord
      /\ UNCHANGED <<chips, verification_in_progress, step, index,
                     nvram_somethingToVerify, buffer, words>>

(* Record 0x22 ends a run with success; only this end of a verify run      *)
(* resets verification_in_progress.                                        *)
EndOfRecords ==
  /\ Fetched({"END_OF_RECORDS"})
  /\ Return(SUCCESS)
  /\ verification_in_progress' = (verification_in_progress /\ run = "program")
  /\ UNCHANGED <<chips, ignore_records, step, index, nvram_somethingToVerify, buffer, words>>

(* After a failed record the loop condition ends the run.                  *)
GiveUp ==
  /\ Active /\ status = FAILURE
  /\ Return(FAILURE)
  /\ UNCHANGED <<engine, chips>>

EngineStep ==
  \/ SkipRecord \/ WriteByte \/ WriteOther \/ PassOver \/ Unsupported
  \/ ReadExpect \/ WaitChip \/ BufferNvmData \/ WriteNvmData \/ LockForNvmData
  \/ WriteWord \/ PollWord \/ ReadThenVerify \/ ReadWord \/ ProcessEvent
  \/ EndOfRecords \/ GiveUp

-----------------------------------------------------------------------------
(* The commands of the application.                                        *)

StartRun(m, r) == /\ run' = m /\ recipe' = r /\ pos' = 1
                  /\ status' = SUCCESS /\ result' = "none"

(* programWithData/programWithFileData.                                    *)
StartProgram(r) ==
  /\ StartRun("program", r)
  /\ UNCHANGED <<engine, chips>>

(* verifyWithData/verifyWithFileData.                                      *)
StartVerify(r) ==
  /\ StartRun("verify", r)
  /\ verification_in_progress' = TRUE
  /\ UNCHANGED <<chips, ignore_records, step, index, nvram_somethingToVerify, buffer, words>>

(* Menu 3, items 1 to 6, and option -p: a run is started.                   *)
MenuCommand(r) == run = "idle" /\ (StartProgram(r) \/ StartVerify(r))

(* wait_for_nvm: four seconds, long enough for every chip to settle.       *)
Settled == \A c \in Chips : ~busy[c]

(* program_nvm says "Complete" whatever the run returned; items 3 and 6 and *)
(* -p go on to verify the same recipe, the others return to the menu.      *)
AfterProgram ==
  /\ run = "program_done"
  /\ Settled
  /\ \/ StartVerify(recipe)
     \/ run' = "idle" /\ UNCHANGED <<recipe, pos, status, result, engine, chips>>

(* Item 2 locks every EEPROM through the global address, items 3 and 6 and  *)
(* -p reset every chip, which locks it too, whatever the verify returned;   *)
(* item 5 leaves the chips as they are.                                    *)
AfterVerify ==
  /\ run = "verify_done"
  /\ Settled
  /\ run' = "idle"
  /\ \/ /\ unlock' = [c \in Chips |-> "locked"]
        /\ pointer' = [c \in Chips |-> 1]
        /\ busy' = [c \in Chips |-> TRUE]
     \/ UNCHANGED <<unlock, pointer, busy>>
  /\ UNCHANGED <<recipe, pos, status, result, engine, eeprom, overrun>>

(* A transfer fails: LT_Exception reaches main, which exits.               *)
BusError ==
  /\ Active
  /\ run' = "dead"
  /\ UNCHANGED <<recipe, pos, status, result, engine, chips>>

(* The user starts the program again; the chips are as they were.          *)
Restart ==
  /\ run = "dead"
  /\ run' = "idle" /\ recipe' = None /\ pos' = 1
  /\ status' = SUCCESS /\ result' = "none"
  /\ verification_in_progress' = FALSE /\ ignore_records' = FALSE
  /\ nvram_somethingToVerify' = FALSE
  /\ buffer' = "none" /\ words' = NoWords
  /\ step' = "none" /\ index' = 1
  /\ UNCHANGED chips

Next == \/ EngineStep
        \/ \E r \in Recipes : MenuCommand(r)
        \/ AfterProgram
        \/ AfterVerify
        \/ BusError
        \/ Restart
        \/ \E c \in Chips : Settle(c)

Spec == Init /\ [][Next]_vars

(* The process runs on while it can, and a chip finishes what it does.     *)
Fairness == /\ WF_vars(EngineStep)
            /\ WF_vars(AfterProgram \/ AfterVerify)
            /\ \A c \in Chips : WF_vars(Settle(c))

FairSpec == Spec /\ Fairness

-----------------------------------------------------------------------------
(* The buffered record is never read or released after its release: every  *)
(* write and verify of EEPROM data finds the block of its own chip, in any *)
(* order of runs, failures and restarts (nvm_data_helpers.cpp keeps a bare *)
(* pointer into a record that readThenVerifyNvmData frees).                *)
BufferLive ==
  Active /\ step # "none" => buffer = "live" /\ words = ImageOf(recipe, pos)

(* No MFR_EE_* transfer reaches a chip that still works on the last one.   *)
NeverOverrun == ~overrun

(* When a run returns success, the EEPROM of every chip the recipe verifies *)
(* holds the words of the recipe, whatever earlier runs left behind.       *)
SuccessMeansProgrammed ==
  result = SUCCESS =>
    \A i \in VerifiesOf(recipe) : eeprom[recipe[i].chip] = ImageOf(recipe, i)

(* A verify run changes no EEPROM, though it executes writes of the recipe. *)
VerifyKeepsEeprom == [][run = "verify" => UNCHANGED eeprom]_vars

(* Every run ends: in a result, or with the process.                       *)
RunsEnd == Active ~> ~Active

(* The engine keeps the contract of the NVM class.                         *)
ChipsOf(r) == {r[i].chip : i \in VerifiesOf(r)}

RequiredBy(r) == [c \in ChipsOf(r) |->
                    ImageOf(r, CHOOSE i \in VerifiesOf(r) : r[i].chip = c)]

Contract == INSTANCE NvmContract WITH
              Contents <- Image,
              Jobs <- Recipes,
              Required <- [r \in Recipes |-> RequiredBy(r)],
              NoJob <- None,
              call <- IF Active THEN run ELSE "none",
              job <- IF Active THEN recipe ELSE None,
              outcome <- result

ImplementsContract == Contract!Spec
=============================================================================
