--------------------------- MODULE RecordHandlers ---------------------------
(***************************************************************************)
(* What each record of a recipe does to the registers of the chips          *)
(* (main_record_processor.cpp).  A word is the set of its bits.  A handler  *)
(* that modifies a register reads it in one transfer and writes it in the   *)
(* next; a transfer may fail between them, and the chips change the         *)
(* registers of their own meanwhile.  Events of the recipe tell a verify    *)
(* run which records to ignore.  The words of NVM data that are written to  *)
(* a data port and compared with it are those of InSystemProgramming; here  *)
(* the port is no register, and a comparison ends either way.              *)
(***************************************************************************)
EXTENDS Integers

CONSTANTS Registers,  \* the registers <<address, command>> that recipes name
          Initial,    \* what they hold before the first recipe
          Status,     \* those that only the chips change
          NeedPec     \* the addresses that ignore a write without a PEC

Bits == 0..15
Byte == 0..255
Word == 0..65535

(* Record types, by what their handlers do.                                *)
Writes == {1, 2, 15, 16}
Sends == {14, 23}
Expects == {4, 5, 18, 19}
MaskedExpects == {25, 26}
Loops == {10, 11, 21, 22}
Modifies == {28, 29, 32, 33}
NvmData == 9
PollAck == 12
Event == 24
MetaData == 27
WriteEeData == 30
VerifyEeData == 31
ModifyByte == 32
EndOfRecords == 34

(* Those that change nothing and do not fail: 0x07, 0x08, 0x0C, 0x0D, 0x0E  *)
(* and 0x17.                                                               *)
Passed == {7, 8, PollAck, 13} \cup Sends

(* The events: before a chip is verified, and when all is done; the others  *)
(* are 0x00, 0x10, 0x01, 0x11, 0x14, 0x02, 0x13 and 0x04.                   *)
ChipBeforeVerify == 18
AfterDone == 3
Sectioning == {0, 16, 1, 17, 20, 2, 19, 4}

(* The kinds of meta data: metaDataType.                                   *)
SetGlobalBase == 0
OemSerialNumber == 1

(* The address all chips answer at, and the registers that are written to   *)
(* there: WRITE_PROTECT and MFR_I2C_BASE_ADDRESS.                           *)
Global == 91
WriteProtect == <<Global, 16>>
BaseAddress == <<Global, 230>>

(* Of a chip, MFR_EE_ERASE, MFR_EE_UNLOCK and MFR_COMMON, with the bit that  *)
(* says that the chip is not busy.                                         *)
EeErase == 190
EeUnlock == 189
MfrCommon == 239
NotBusy == 6

(* A record, the fields that its type lacks being 0, FALSE or empty; a      *)
(* type that says NOPEC uses none.                                         *)
Record == [type : Word, address : Word, command : Byte, pec : BOOLEAN,
           mask : SUBSET Bits, value : SUBSET Bits]

NoRecord == [type |-> 0, address |-> 0, command |-> 0, pec |-> FALSE, mask |-> {}, value |-> {}]

ASSUME RegistersAssumption == /\ Initial \in [Registers -> SUBSET Bits]
                              /\ Status \subseteq Registers

VARIABLES
  run,     \* the loop that runs, "program" or "verify", or "idle"
  rec,     \* record_to_process
  step,    \* "none"; "start" of its handler; "write", its second transfer;
           \* "poll", its wait for a chip that is not busy
  old,     \* actualByteValue, actualWordValue: what the first transfer read
  status,  \* successful_parse_of_record_type, TRUE for SUCCESS
  reg,     \* the registers of the chips
  verification_in_progress,
  ignore_records,
  nWords,  \* the words buffered: a block of NVM data holds one
  nvram_somethingToVerify

handler == <<rec, step, old>>
statics == <<verification_in_progress, ignore_records, nWords, nvram_somethingToVerify>>
handlerVars == <<run, handler, status, reg, statics>>

HandlerType == /\ run \in {"idle", "program", "verify"}
               /\ rec \in Record
               /\ step \in {"none", "start", "write", "poll"}
               /\ old \in SUBSET Bits
               /\ status \in BOOLEAN
               /\ reg \in [Registers -> SUBSET Bits]
               /\ verification_in_progress \in BOOLEAN /\ ignore_records \in BOOLEAN
               /\ nWords \in {0, 1} /\ nvram_somethingToVerify \in BOOLEAN

HandlerInit == /\ run = "idle" /\ rec = NoRecord /\ step = "none" /\ old = {}
               /\ status = TRUE
               /\ reg = Initial
               /\ verification_in_progress = FALSE /\ ignore_records = FALSE
               /\ nWords = 0 /\ nvram_somethingToVerify = FALSE

-----------------------------------------------------------------------------
(* The chips: a write that lacks a PEC is ignored by those that need one.   *)
Stored(r, pec, bits) ==
  IF r \in Registers /\ (pec \/ r[1] \notin NeedPec) THEN [reg EXCEPT ![r] = bits] ELSE reg

Of(r) == <<r.address, r.command>>

(* A verify run looks at ignore_records, a program run does not.           *)
Heeded == run = "program" \/ ~ignore_records

At(kinds, s) == run # "idle" /\ Heeded /\ step = s /\ rec.type \in kinds

(* Blocks of NVM data and events are processed whatever is ignored.        *)
Always == {NvmData, Event}
AtAlways(kind) == run # "idle" /\ step = "start" /\ rec.type = kind

(* The handler returns.                                                    *)
Return(ok) == /\ status' = ok
              /\ step' = "none"
              /\ old' = {}
              /\ UNCHANGED <<run, rec>>

(* 0x01, 0x02, 0x0F, 0x10.  A verify run locks the EEPROM where the recipe  *)
(* would erase it.                                                         *)
WriteRecord == /\ At(Writes, "start")
               /\ IF run = "verify" /\ rec.type = 1 /\ rec.command = EeErase
                    THEN reg' = Stored(<<rec.address, EeUnlock>>, TRUE, {})
                    ELSE reg' = Stored(Of(rec), rec.pec, rec.value)
               /\ Return(TRUE)
               /\ UNCHANGED statics

(* 0x04, 0x05, 0x12, 0x13.                                                 *)
ReadExpect == /\ At(Expects, "start")
              /\ Return(reg[Of(rec)] = rec.value)
              /\ UNCHANGED <<reg, statics>>

(* Mutant of ReadExpectMask: bits that are expected to be 0 may be 1.       *)
ReadExpectOnes == /\ At(MaskedExpects, "start")
                  /\ Return(rec.value \cap rec.mask \subseteq reg[Of(rec)])
                  /\ UNCHANGED <<reg, statics>>

(* 0x19, 0x1A.                                                             *)
ReadExpectMask == /\ At(MaskedExpects, "start")
                  /\ Return(reg[Of(rec)] \cap rec.mask = rec.value \cap rec.mask)
                  /\ UNCHANGED <<reg, statics>>

(* 0x0A, 0x0B, 0x15, 0x16: they read until the masked value is the expected *)
(* one, without limit.                                                     *)
ReadLoopMask == /\ At(Loops, "start")
                /\ reg[Of(rec)] \cap rec.mask = rec.value \cap rec.mask
                /\ Return(TRUE)
                /\ UNCHANGED <<reg, statics>>

(* The record types that leave the registers alone.                        *)
PassRecord == /\ At(Passed, "start")
              /\ Return(TRUE)
              /\ UNCHANGED <<reg, statics>>

(* 0x1C, 0x1D, 0x20, 0x21: the read.                                       *)
ReadToModify == /\ At(Modifies, "start")
                /\ old' = reg[Of(rec)]
                /\ step' = "write"
                /\ UNCHANGED <<run, rec, status, reg, statics>>

(* Mutant of Modified: the bits outside of the mask are not kept.          *)
ModifiedAlone(r, bits) == r.value \cap r.mask

(* What is written: the bits outside of the mask as read, those inside as   *)
(* desired.  Record 0x20 without PEC masks with the former by mistake.      *)
Modified(r, bits) ==
  LET modifiedValue == bits \ r.mask
  IN  modifiedValue \cup (r.value \cap (IF r.type = ModifyByte /\ ~r.pec THEN modifiedValue
                                                                         ELSE r.mask))

(* Mutant of WriteModified: written without PEC.                           *)
WriteModifiedNoPec == /\ At(Modifies, "write")
                      /\ reg' = Stored(Of(rec), FALSE, Modified(rec, old))
                      /\ Return(TRUE)
                      /\ UNCHANGED statics

(* 0x1C, 0x1D, 0x20, 0x21: the write.                                      *)
WriteModified == /\ At(Modifies, "write")
                 /\ reg' = Stored(Of(rec), rec.pec, Modified(rec, old))
                 /\ Return(TRUE)
                 /\ UNCHANGED statics

(* 0x1B that sets the global base address: WRITE_PROTECT is cleared with a  *)
(* word write whose high byte is the PEC.                                  *)
ClearWriteProtect == /\ At({MetaData}, "start") /\ rec.command = SetGlobalBase
                     /\ reg' = Stored(WriteProtect, TRUE, {})
                     /\ step' = "write"
                     /\ UNCHANGED <<run, rec, old, status, statics>>

SetBaseAddress == /\ At({MetaData}, "write")
                  /\ reg' = Stored(BaseAddress, FALSE, rec.value)
                  /\ Return(TRUE)
                  /\ UNCHANGED statics

(* 0x1B otherwise: a serial number is passed over, others are not known.   *)
PassMetaData == /\ At({MetaData}, "start") /\ rec.command # SetGlobalBase
                /\ Return(rec.command = OemSerialNumber)
                /\ UNCHANGED <<reg, statics>>

(* Mutant of ProcessEvent: every event closes the section.                 *)
ProcessEventIgnoring ==
  /\ AtAlways(Event)
  /\ ignore_records' = (ignore_records \/ verification_in_progress)
  /\ Return(rec.command \in Sectioning \cup {ChipBeforeVerify, AfterDone})
  /\ UNCHANGED <<reg, verification_in_progress, nWords, nvram_somethingToVerify>>

(* 0x18: while a verification is in progress, and after one that failed,    *)
(* the records between the event before a chip is verified and the next     *)
(* event are heeded.                                                       *)
ProcessEvent ==
  /\ AtAlways(Event)
  /\ ignore_records' = IF verification_in_progress /\ rec.command \in Sectioning \cup {ChipBeforeVerify}
                         THEN rec.command # ChipBeforeVerify ELSE ignore_records
  /\ Return(rec.command \in Sectioning \cup {ChipBeforeVerify, AfterDone})
  /\ UNCHANGED <<reg, verification_in_progress, nWords, nvram_somethingToVerify>>

(* 0x09.                                                                   *)
BufferNvmData == /\ AtAlways(NvmData)
                 /\ nWords' = 1 /\ nvram_somethingToVerify' = TRUE
                 /\ Return(TRUE)
                 /\ UNCHANGED <<reg, verification_in_progress, ignore_records>>

(* 0x1E: a word is written to the data port.                               *)
WriteNvmData == /\ At({WriteEeData}, "start") /\ run = "program"
                /\ nvram_somethingToVerify' = TRUE
                /\ IF nWords = 0 THEN Return(TRUE)
                                 ELSE step' = "poll" /\ UNCHANGED <<run, rec, old, status>>
                /\ UNCHANGED <<reg, verification_in_progress, ignore_records, nWords>>

(* Instead of it, a verify run locks the EEPROM.                           *)
LockNvm == /\ At({WriteEeData}, "start") /\ run = "verify"
           /\ reg' = Stored(<<rec.address, EeUnlock>>, TRUE, {})
           /\ Return(TRUE)
           /\ UNCHANGED statics

(* 0x1F: fails where nothing was buffered or written; or waits for the chip *)
(* and reads a word.                                                       *)
ReadThenVerifyNvmData ==
  /\ At({VerifyEeData}, "start")
  /\ nvram_somethingToVerify' = FALSE
  /\ IF nvram_somethingToVerify /\ nWords > 0
       THEN step' = "poll" /\ UNCHANGED <<run, rec, old, status>>
       ELSE Return(nvram_somethingToVerify)
  /\ UNCHANGED <<reg, verification_in_progress, ignore_records, nWords>>

(* The chip says that it is not busy: the write is done; the word read is   *)
(* the one expected, or is not.                                            *)
PollNotBusy == /\ At({WriteEeData, VerifyEeData}, "poll")
               /\ NotBusy \in reg[<<rec.address, MfrCommon>>]
               /\ \E ok \in BOOLEAN : /\ rec.type = WriteEeData => ok
                                      /\ Return(ok)
               /\ UNCHANGED <<reg, statics>>

Handled == Writes \cup Expects \cup MaskedExpects \cup Loops \cup Modifies \cup Passed
             \cup Always \cup {MetaData, WriteEeData, VerifyEeData}

(* 0x03, 0x06, 0x11, 0x14 and every type that is not known.                *)
Unsupported == /\ run # "idle" /\ Heeded /\ step = "start" /\ rec.type \notin Handled
               /\ Return(FALSE)
               /\ UNCHANGED <<reg, statics>>

Handle == \/ WriteRecord \/ ReadExpect \/ ReadExpectMask \/ ReadLoopMask \/ PassRecord
          \/ ReadToModify \/ WriteModified
          \/ ClearWriteProtect \/ SetBaseAddress \/ PassMetaData
          \/ ProcessEvent \/ BufferNvmData \/ WriteNvmData \/ LockNvm \/ ReadThenVerifyNvmData
          \/ PollNotBusy \/ Unsupported

(* What a verify run does with a record that it ignores: nothing.          *)
Ignore == /\ run = "verify" /\ ignore_records
          /\ step = "start" /\ rec.type \notin Always
          /\ Return(TRUE)
          /\ UNCHANGED <<reg, statics>>

(* A chip changes one of its own registers.                                *)
Settle(r, bits) == /\ reg' = [reg EXCEPT ![r] = bits]
                   /\ UNCHANGED <<run, handler, status, statics>>
=============================================================================
