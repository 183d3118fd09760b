---------------------- MODULE InSystemProgrammingProofs ----------------------
(* Theorems about InSystemProgramming, for all chips, words and recipes     *)
(* that satisfy the assumptions of that module.                            *)
EXTENDS InSystemProgramming, TLAPS

(* A handler that loops stands at a record of its own type, in a run that   *)
(* has not failed; only a program run writes.                              *)
StepOK ==
  run # "dead" /\ step # "none" =>
    /\ Active
    /\ status = SUCCESS
    /\ step \in {"write", "poll"} => run = "program" /\ recipe[pos].type = "WRITE_EE_DATA"
    /\ step = "read" => recipe[pos].type = "VERIFY_EE_DATA"

IndInv == TypeOK /\ StepOK

LEMMA RecipeFacts ==
  ASSUME NEW r \in Recipes, NEW i \in DOMAIN r
  PROVE  /\ r \in Seq(Record) /\ Len(r) \in Nat \ {0} /\ DOMAIN r = 1..Len(r)
         /\ r[i] \in Record
         /\ r[i].type # "END_OF_RECORDS" => i + 1 \in DOMAIN r
         /\ r[i].type \in {"WRITE_EE_DATA", "VERIFY_EE_DATA"} => Buffered(r, i)
         /\ r[i].type = "WRITE_OTHER" => r[i].cmd = "OTHER"
  <1>1. WellFormed(r)
    BY RecipesAssumption
  <1>2. r \in Seq(Record) /\ Len(r) > 0 /\ DOMAIN r = 1..Len(r) /\ Len(r) \in Nat
    BY <1>1 DEF WellFormed
  <1>3. r[i] \in Record
    BY <1>2
  <1>4. r[i].type # "END_OF_RECORDS" => i # Len(r)
    BY <1>1 DEF WellFormed
  <1>5. QED
    BY <1>1, <1>2, <1>3, <1>4 DEF WellFormed

LEMMA NoWordsInImage == NoWords \in Image
  BY ConstantsAssumption DEF NoWords, Image

LEMMA InitInv == Init => IndInv
  <1> SUFFICES ASSUME Init PROVE IndInv
    OBVIOUS
  <1>1. SessionType
    BY DEF Init, SessionType, SUCCESS, FAILURE
  <1>2. EngineType
    <2>1. index \in 1..NWords
      BY ConstantsAssumption DEF Init, StaticsInit
    <2>2. words \in Image /\ step \in {"none", "write", "poll", "read"}
          /\ buffer \in {"none", "live", "freed"}
      BY NoWordsInImage DEF Init, StaticsInit
    <2>3. /\ verification_in_progress \in BOOLEAN
          /\ ignore_records \in BOOLEAN
          /\ nvram_somethingToVerify \in BOOLEAN
      BY Zenon DEF Init, StaticsInit
    <2>4. QED
      BY <2>1, <2>2, <2>3, Zenon DEF EngineType
  <1>3. ChipsType
    <2>1. pointer \in [Chips -> 1..NWords]
      BY ConstantsAssumption DEF Init
    <2>2. eeprom \in [Chips -> Image] /\ unlock \in [Chips -> {"locked", "half", "open"}]
      BY NoWordsInImage DEF Init
    <2>3. busy \in [Chips -> BOOLEAN] /\ overrun \in BOOLEAN
      BY Zenon DEF Init
    <2>4. QED
      BY <2>1, <2>2, <2>3, Zenon DEF ChipsType
  <1>4. StepOK
    BY DEF Init, StaticsInit, StepOK
  <1>5. QED
    BY <1>1, <1>2, <1>3, <1>4 DEF IndInv, TypeOK

(* The transfers to a chip keep the types of the chips.                     *)
LEMMA OccupyType ==
  ASSUME ChipsType, NEW c \in Chips, Occupy(c)
  PROVE  busy' \in [Chips -> BOOLEAN] /\ overrun' \in BOOLEAN
  <1>1. busy' \in [Chips -> BOOLEAN]
    BY DEF ChipsType, Occupy
  <1>2. overrun' \in BOOLEAN
    BY DEF ChipsType, Occupy
  <1>3. QED
    BY <1>1, <1>2

LEMMA UnlockWriteType ==
  ASSUME ChipsType, NEW c \in Chips, NEW d, UnlockWrite(c, d)
  PROVE  ChipsType'
  <1>1. busy' \in [Chips -> BOOLEAN] /\ overrun' \in BOOLEAN
    BY OccupyType DEF UnlockWrite
  <1>2. unlock' \in [Chips -> {"locked", "half", "open"}]
    BY DEF ChipsType, UnlockWrite
  <1>3. pointer' \in [Chips -> 1..NWords]
    BY ConstantsAssumption DEF ChipsType, UnlockWrite
  <1>4. QED
    BY <1>1, <1>2, <1>3 DEF ChipsType, UnlockWrite

LEMMA EraseWriteType ==
  ASSUME ChipsType, NEW c \in Chips, EraseWrite(c)
  PROVE  ChipsType'
  <1>1. busy' \in [Chips -> BOOLEAN] /\ overrun' \in BOOLEAN
    BY OccupyType DEF EraseWrite
  <1>2. unlock' \in [Chips -> {"locked", "half", "open"}]
    BY DEF ChipsType, EraseWrite
  <1>3. pointer' \in [Chips -> 1..NWords]
    BY ConstantsAssumption DEF ChipsType, EraseWrite
  <1>4. eeprom' \in [Chips -> Image]
    BY NoWordsInImage DEF ChipsType, EraseWrite
  <1>5. QED
    BY <1>1, <1>2, <1>3, <1>4 DEF ChipsType

LEMMA StepPointerType ==
  ASSUME ChipsType, NEW c \in Chips, StepPointer(c)
  PROVE  /\ unlock' \in [Chips -> {"locked", "half", "open"}]
         /\ pointer' \in [Chips -> 1..NWords]
  <1>1. CASE unlock[c] = "open"
    <2>1. unlock' \in [Chips -> {"locked", "half", "open"}]
      BY <1>1 DEF ChipsType, StepPointer
    <2>2. pointer[c] \in 1..NWords
      BY DEF ChipsType
    <2>3. (IF pointer[c] = NWords THEN 1 ELSE pointer[c] + 1) \in 1..NWords
      BY <2>2, ConstantsAssumption
    <2>4. pointer' \in [Chips -> 1..NWords]
      BY <1>1, <2>3 DEF ChipsType, StepPointer
    <2>5. QED
      BY <2>1, <2>4
  <1>2. CASE unlock[c] # "open"
    BY <1>2 DEF ChipsType, StepPointer
  <1>3. QED
    BY <1>1, <1>2

LEMMA StoreWordType ==
  ASSUME ChipsType, NEW c \in Chips, NEW w \in Word, StoreWord(c, w)
  PROVE  ChipsType'
  <1>1. busy' \in [Chips -> BOOLEAN] /\ overrun' \in BOOLEAN
    BY OccupyType DEF StoreWord
  <1>2. unlock' \in [Chips -> {"locked", "half", "open"}] /\ pointer' \in [Chips -> 1..NWords]
    BY StepPointerType DEF StoreWord
  <1>3. PICK v \in {w} \cup (IF <<c, pointer[c]>> \in Worn THEN {Blank} ELSE {}) :
          eeprom' = IF unlock[c] = "open"
                      THEN [eeprom EXCEPT ![c] = [@ EXCEPT ![pointer[c]] = v]] ELSE eeprom
    BY DEF StoreWord
  <1>4. v \in Word
    BY ConstantsAssumption
  <1>5. [eeprom[c] EXCEPT ![pointer[c]] = v] \in Image
    BY <1>4 DEF ChipsType, Image
  <1>6. eeprom' \in [Chips -> Image]
    BY <1>3, <1>5 DEF ChipsType
  <1>7. QED
    BY <1>1, <1>2, <1>6 DEF ChipsType

LEMMA FetchWordType ==
  ASSUME ChipsType, NEW c \in Chips, FetchWord(c)
  PROVE  ChipsType'
  <1>1. busy' \in [Chips -> BOOLEAN] /\ overrun' \in BOOLEAN
    BY OccupyType DEF FetchWord
  <1>2. unlock' \in [Chips -> {"locked", "half", "open"}] /\ pointer' \in [Chips -> 1..NWords]
    BY StepPointerType DEF FetchWord
  <1>3. eeprom' \in [Chips -> Image]
    BY DEF ChipsType, FetchWord
  <1>4. QED
    BY <1>1, <1>2, <1>3 DEF ChipsType

LEMMA ChipsUnchanged == ChipsType /\ UNCHANGED chips => ChipsType'
  BY DEF ChipsType, chips

LEMMA EngineUnchanged == EngineType /\ UNCHANGED engine => EngineType'
  BY DEF EngineType, engine

LEMMA SessionUnchanged == SessionType /\ UNCHANGED session => SessionType'
  BY DEF SessionType, session

(* The record a run stands at, while it runs.                              *)
LEMMA CurrentRecord ==
  ASSUME SessionType, Active
  PROVE  /\ recipe \in Recipes /\ pos \in DOMAIN recipe
         /\ recipe[pos] \in Record
         /\ recipe[pos].chip \in Chips /\ recipe[pos].words \in Image
         /\ recipe[pos].type # "END_OF_RECORDS" => pos + 1 \in DOMAIN recipe
  <1>1. recipe \in Recipes /\ pos \in DOMAIN recipe
    BY DEF SessionType, Active
  <1>2. recipe[pos] \in Record /\ (recipe[pos].type # "END_OF_RECORDS" => pos + 1 \in DOMAIN recipe)
    BY <1>1, RecipeFacts
  <1>3. QED
    BY <1>1, <1>2 DEF Record

LEMMA NextRecordType ==
  ASSUME SessionType, Active, recipe[pos].type # "END_OF_RECORDS", NextRecord
  PROVE  SessionType'
  <1>1. recipe \in Recipes /\ pos + 1 \in DOMAIN recipe /\ pos + 1 \in Nat \ {0}
    BY CurrentRecord DEF SessionType
  <1>2. QED
    BY <1>1 DEF SessionType, NextRecord

LEMMA FailRecordType == ASSUME SessionType, FailRecord PROVE SessionType'
  BY DEF SessionType, FailRecord

(* The handlers that finish their record in one step and keep the engine.  *)
LEMMA SimpleRecord ==
  ASSUME IndInv, Active, step = "none", recipe[pos].type # "END_OF_RECORDS",
         NextRecord \/ FailRecord, UNCHANGED engine
  PROVE  SessionType' /\ EngineType' /\ StepOK'
  <1>1. SessionType'
    BY NextRecordType, FailRecordType DEF IndInv, TypeOK
  <1>2. EngineType'
    BY EngineUnchanged DEF IndInv, TypeOK
  <1>3. StepOK'
    BY DEF StepOK, engine
  <1>4. QED
    BY <1>1, <1>2, <1>3

LEMMA EngineStepInv == IndInv /\ EngineStep => IndInv'
  <1> SUFFICES ASSUME IndInv, EngineStep PROVE IndInv'
    OBVIOUS
  <1> USE DEF IndInv, TypeOK
  <1>1. CASE SkipRecord
    <2>1. Active /\ step = "none" /\ recipe[pos].type # "END_OF_RECORDS" /\ NextRecord
          /\ UNCHANGED engine /\ UNCHANGED chips
      BY <1>1 DEF SkipRecord, Fetched
    <2>2. QED
      BY <2>1, SimpleRecord, ChipsUnchanged
  <1>2. CASE WriteByte
    <2>1. Active /\ step = "none" /\ recipe[pos].type # "END_OF_RECORDS" /\ NextRecord
          /\ UNCHANGED engine
      BY <1>2 DEF WriteByte, Dispatched, Fetched
    <2>2. recipe[pos].chip \in Chips /\ recipe[pos].cmd \in Command
      BY <2>1, CurrentRecord DEF Record
    <2>3. ChipsType'
      <3>1. CASE recipe[pos].cmd = "EE_UNLOCK"
        BY <1>2, <2>2, <3>1, UnlockWriteType DEF WriteByte
      <3>2. CASE recipe[pos].cmd = "EE_ERASE" /\ run = "verify"
        BY <1>2, <2>2, <3>2, UnlockWriteType DEF WriteByte
      <3>3. CASE recipe[pos].cmd = "EE_ERASE" /\ run # "verify"
        BY <1>2, <2>2, <3>3, EraseWriteType DEF WriteByte
      <3>4. CASE recipe[pos].cmd \in {"EE_DATA", "OTHER"}
        BY <1>2, <2>2, <3>4, ChipsUnchanged DEF WriteByte
      <3>5. QED
        BY <2>2, <3>1, <3>2, <3>3, <3>4 DEF Command
    <2>4. QED
      BY <2>1, <2>3, SimpleRecord
  <1>3. CASE WriteOther \/ PassOver \/ Unsupported \/ ReadExpect \/ WaitChip
    <2>1. Active /\ step = "none" /\ recipe[pos].type # "END_OF_RECORDS"
          /\ (NextRecord \/ FailRecord) /\ UNCHANGED engine
      BY <1>3 DEF WriteOther, PassOver, Unsupported, ReadExpect, WaitChip, Dispatched, Fetched
    <2>2. \/ UNCHANGED chips
          \/ Occupy(recipe[pos].chip) /\ UNCHANGED <<eeprom, unlock, pointer>>
      BY <1>3 DEF WriteOther, PassOver, Unsupported, ReadExpect, WaitChip
    <2>3. ChipsType'
      <3>1. CASE Occupy(recipe[pos].chip) /\ UNCHANGED <<eeprom, unlock, pointer>>
        <4>1. busy' \in [Chips -> BOOLEAN] /\ overrun' \in BOOLEAN
          BY <2>1, <3>1, CurrentRecord, OccupyType
        <4>2. QED
          BY <3>1, <4>1 DEF ChipsType
      <3>2. QED
        BY <2>2, <3>1, ChipsUnchanged
    <2>4. QED
      BY <2>1, <2>3, SimpleRecord
  <1>4. CASE BufferNvmData
    <2>1. Active /\ step = "none" /\ recipe[pos].type # "END_OF_RECORDS" /\ NextRecord
          /\ UNCHANGED chips
      BY <1>4 DEF BufferNvmData, Fetched
    <2>2. SessionType' /\ ChipsType'
      BY <2>1, NextRecordType, ChipsUnchanged
    <2>3. recipe[pos].words \in Image
      BY <2>1, CurrentRecord
    <2>4. EngineType' /\ step' = "none"
      BY <1>4, <2>1, <2>3 DEF BufferNvmData, EngineType
    <2>5. QED
      BY <2>2, <2>4 DEF StepOK
  <1>5. CASE WriteNvmData
    <2>1. Active /\ step = "none" /\ status = SUCCESS /\ run = "program"
          /\ recipe[pos].type = "WRITE_EE_DATA"
      BY <1>5 DEF WriteNvmData, Dispatched, Fetched
    <2>2. SessionType' /\ ChipsType'
      BY <1>5, SessionUnchanged, ChipsUnchanged DEF WriteNvmData
    <2>3. EngineType' /\ StepOK'
      BY <1>5, <2>1, ConstantsAssumption DEF WriteNvmData, EngineType, StepOK, session, Active
    <2>4. QED
      BY <2>2, <2>3
  <1>6. CASE LockForNvmData
    <2>1. Active /\ step = "none" /\ recipe[pos].type # "END_OF_RECORDS" /\ NextRecord
          /\ UNCHANGED engine
      BY <1>6 DEF LockForNvmData, Dispatched, Fetched
    <2>2. ChipsType'
      BY <1>6, <2>1, CurrentRecord, UnlockWriteType DEF LockForNvmData
    <2>3. QED
      BY <2>1, <2>2, SimpleRecord
  <1>7. CASE WriteWord
    <2>1. Active /\ step = "write" /\ UNCHANGED session
      BY <1>7 DEF WriteWord
    <2>2. index \in 1..NWords /\ BufferedWord(index) \subseteq Word
      BY DEF EngineType, BufferedWord, Image
    <2>3. ChipsType'
      BY <1>7, <2>1, <2>2, CurrentRecord, StoreWordType DEF WriteWord
    <2>4. SessionType'
      BY <2>1, SessionUnchanged
    <2>5. EngineType' /\ StepOK'
      BY <1>7, <2>1 DEF WriteWord, EngineType, StepOK, session, Active
    <2>6. QED
      BY <2>3, <2>4, <2>5
  <1>8. CASE PollWord
    <2>1. Active /\ step = "poll" /\ UNCHANGED chips
          /\ recipe[pos].type # "END_OF_RECORDS"
      BY <1>8 DEF PollWord, StepOK, Active
    <2>2. ChipsType'
      BY <2>1, ChipsUnchanged
    <2>3. CASE index < NWords
      <3>1. step' = "write" /\ index' = index + 1 /\ UNCHANGED session
        BY <1>8, <2>3 DEF PollWord
      <3>2. index' \in 1..NWords
        BY <2>3, <3>1, ConstantsAssumption DEF EngineType
      <3>3. EngineType' /\ StepOK'
        BY <1>8, <2>1, <3>1, <3>2 DEF PollWord, EngineType, StepOK, session, Active
      <3>4. QED
        BY <2>2, <3>1, <3>3, SessionUnchanged
    <2>4. CASE ~(index < NWords)
      <3>1. step' = "none" /\ index' = 1 /\ NextRecord
        BY <1>8, <2>4 DEF PollWord
      <3>2. EngineType' /\ StepOK'
        BY <1>8, <3>1, ConstantsAssumption DEF PollWord, EngineType, StepOK
      <3>3. QED
        BY <2>1, <2>2, <3>1, <3>2, NextRecordType
    <2>5. QED
      BY <2>3, <2>4
  <1>9. CASE ReadThenVerify
    <2>1. Active /\ step = "none" /\ status = SUCCESS /\ UNCHANGED chips
          /\ recipe[pos].type = "VERIFY_EE_DATA"
      BY <1>9 DEF ReadThenVerify, Dispatched, Fetched
    <2>2. CASE nvram_somethingToVerify
      <3>1. SessionType'
        BY <1>9, <2>2, SessionUnchanged DEF ReadThenVerify
      <3>2. /\ nvram_somethingToVerify' = FALSE /\ step' = "read" /\ index' = 1
            /\ UNCHANGED <<session, verification_in_progress, ignore_records, buffer, words>>
        BY <1>9, <2>2 DEF ReadThenVerify
      <3>3. index' \in 1..NWords
        BY <3>2, ConstantsAssumption
      <3>4. nvram_somethingToVerify' \in BOOLEAN
        BY <3>2, Zenon
      <3>5. EngineType'
        BY <3>2, <3>3, <3>4 DEF EngineType
      <3>6. StepOK'
        BY <2>1, <3>2 DEF StepOK, session, Active
      <3>7. QED
        BY <2>1, <3>1, <3>5, <3>6, ChipsUnchanged
    <2>3. CASE ~nvram_somethingToVerify
      <3>1. FailRecord /\ UNCHANGED engine
        BY <1>9, <2>3 DEF ReadThenVerify, engine
      <3>2. QED
        BY <2>1, <3>1, SimpleRecord, ChipsUnchanged
    <2>4. QED
      BY <2>2, <2>3
  <1>10. CASE ReadWord
    <2>1. Active /\ step = "read" /\ FetchWord(recipe[pos].chip)
          /\ recipe[pos].type # "END_OF_RECORDS"
      BY <1>10 DEF ReadWord, StepOK, Active
    <2>2. ChipsType'
      BY <2>1, CurrentRecord, FetchWordType
    <2>3. CASE index < NWords /\ index' = index + 1 /\ UNCHANGED <<session, step, buffer, words>>
      <3>1. index' \in 1..NWords
        BY <2>3, ConstantsAssumption DEF EngineType
      <3>2. EngineType' /\ StepOK'
        BY <1>10, <2>1, <2>3, <3>1 DEF ReadWord, EngineType, StepOK, session, Active
      <3>3. QED
        BY <2>2, <2>3, <3>2, SessionUnchanged DEF session
    <2>4. CASE /\ step' = "none" /\ index' = 1 /\ buffer' = "freed" /\ words' = NoWords
               /\ NextRecord \/ FailRecord
      <3>1. EngineType' /\ StepOK'
        BY <1>10, <2>4, ConstantsAssumption, NoWordsInImage DEF ReadWord, EngineType, StepOK
      <3>2. SessionType'
        BY <2>1, <2>4, NextRecordType, FailRecordType
      <3>3. QED
        BY <2>2, <3>1, <3>2
    <2>5. QED
      BY <1>10, <2>3, <2>4 DEF ReadWord
  <1>11. CASE ProcessEvent
    <2>1. Active /\ step = "none" /\ recipe[pos].type # "END_OF_RECORDS"
          /\ (NextRecord \/ FailRecord) /\ UNCHANGED chips
      BY <1>11 DEF ProcessEvent, Fetched
    <2>2. ignore_records' \in BOOLEAN
      BY <1>11 DEF ProcessEvent, EngineType
    <2>3. EngineType' /\ StepOK'
      BY <1>11, <2>1, <2>2 DEF ProcessEvent, EngineType, StepOK
    <2>4. QED
      BY <2>1, <2>3, NextRecordType, FailRecordType, ChipsUnchanged
  <1>12. CASE EndOfRecords
    <2>1. Active /\ step = "none" /\ Return(SUCCESS) /\ UNCHANGED chips
      BY <1>12 DEF EndOfRecords, Fetched
    <2>2. SessionType'
      BY <2>1 DEF Return, SessionType, Active
    <2>3. EngineType' /\ StepOK'
      BY <1>12, <2>1 DEF EndOfRecords, EngineType, StepOK
    <2>4. QED
      BY <2>1, <2>2, <2>3, ChipsUnchanged
  <1>13. CASE GiveUp
    <2>1. Active /\ status = FAILURE /\ Return(FAILURE) /\ UNCHANGED engine /\ UNCHANGED chips
      BY <1>13 DEF GiveUp
    <2>2. SessionType'
      BY <2>1 DEF Return, SessionType, Active
    <2>3. step = "none"
      BY <2>1 DEF StepOK, Active, SUCCESS, FAILURE
    <2>4. StepOK'
      BY <2>1, <2>3 DEF StepOK, engine
    <2>5. QED
      BY <2>1, <2>2, <2>4, EngineUnchanged, ChipsUnchanged
  <1>14. QED
    BY <1>1, <1>2, <1>3, <1>4, <1>5, <1>6, <1>7, <1>8, <1>9, <1>10, <1>11, <1>12, <1>13
    DEF EngineStep

(* The chips, the menu, the end of the process and its next start.         *)
LEMMA OtherStepInv ==
  ASSUME IndInv,
         \/ \E r \in Recipes : MenuCommand(r)
         \/ AfterProgram \/ AfterVerify \/ BusError \/ Restart
         \/ \E c \in Chips : Settle(c)
         \/ UNCHANGED vars
  PROVE  IndInv'
  <1> USE DEF IndInv, TypeOK
  <1>0. ASSUME NEW r \in Recipes, ~Active, run # "dead", StartProgram(r) \/ StartVerify(r)
        PROVE  IndInv'
    <2>1. step = "none" /\ UNCHANGED <<step, index, nvram_somethingToVerify, buffer, words>>
          /\ UNCHANGED chips
      BY <1>0 DEF StepOK, StartProgram, StartVerify, engine
    <2>2. 1 \in DOMAIN r
      BY RecipesAssumption DEF WellFormed
    <2>3. SessionType'
      BY <1>0, <2>2 DEF StartProgram, StartVerify, StartRun, SessionType
    <2>4. verification_in_progress' \in BOOLEAN /\ ignore_records' \in BOOLEAN
      <3>1. CASE StartProgram(r)
        BY <3>1 DEF StartProgram, engine, EngineType
      <3>2. CASE StartVerify(r)
        <4>1. verification_in_progress' = TRUE /\ ignore_records' = ignore_records
          BY <3>2 DEF StartVerify
        <4>2. verification_in_progress' \in BOOLEAN
          BY <4>1, Zenon
        <4>3. QED
          BY <4>1, <4>2 DEF EngineType
      <3>3. QED
        BY <1>0, <3>1, <3>2
    <2>5. EngineType'
      BY <2>1, <2>4 DEF EngineType
    <2>6. QED
      BY <2>1, <2>3, <2>5, ChipsUnchanged DEF StepOK
  <1>1. ASSUME NEW r \in Recipes, MenuCommand(r) PROVE IndInv'
    BY <1>0, <1>1 DEF MenuCommand, Active
  <1>2. CASE AfterProgram
    <2>1. recipe \in Recipes /\ ~Active /\ run # "dead"
      BY <1>2 DEF AfterProgram, SessionType, Active
    <2>2. CASE StartVerify(recipe)
      BY <1>0, <2>1, <2>2
    <2>3. CASE run' = "idle" /\ UNCHANGED <<recipe, pos, status, result, engine, chips>>
      <3>1. SessionType'
        BY <2>3 DEF SessionType
      <3>2. EngineType' /\ ChipsType'
        BY <2>3, EngineUnchanged, ChipsUnchanged
      <3>3. StepOK'
        BY <1>2, <2>3 DEF AfterProgram, StepOK, Active, engine
      <3>4. QED
        BY <3>1, <3>2, <3>3
    <2>4. QED
      BY <1>2, <2>2, <2>3 DEF AfterProgram
  <1>3. CASE AfterVerify
    <2>1. SessionType'
      BY <1>3 DEF AfterVerify, SessionType
    <2>2. EngineType'
      BY <1>3, EngineUnchanged DEF AfterVerify
    <2>3. StepOK'
      BY <1>3 DEF AfterVerify, StepOK, Active, engine
    <2>4. ChipsType'
      <3>1. CASE UNCHANGED <<unlock, pointer, busy>>
        BY <1>3, <3>1 DEF AfterVerify, ChipsType
      <3>2. CASE /\ unlock' = [c \in Chips |-> "locked"]
                 /\ pointer' = [c \in Chips |-> 1]
                 /\ busy' = [c \in Chips |-> TRUE]
        <4>1. pointer' \in [Chips -> 1..NWords] /\ unlock' \in [Chips -> {"locked", "half", "open"}]
          BY <3>2, ConstantsAssumption
        <4>2. busy' \in [Chips -> BOOLEAN]
          BY <3>2, Zenon
        <4>3. QED
          BY <1>3, <4>1, <4>2 DEF AfterVerify, ChipsType
      <3>3. QED
        BY <1>3, <3>1, <3>2 DEF AfterVerify
    <2>5. QED
      BY <2>1, <2>2, <2>3, <2>4
  <1>4. CASE BusError
    <2>1. SessionType'
      BY <1>4 DEF BusError, SessionType
    <2>2. QED
      BY <1>4, <2>1, EngineUnchanged, ChipsUnchanged DEF BusError, StepOK
  <1>5. CASE Restart
    <2>1. SessionType'
      BY <1>5 DEF Restart, SessionType, SUCCESS, FAILURE
    <2>2. /\ verification_in_progress' \in BOOLEAN /\ ignore_records' \in BOOLEAN
          /\ nvram_somethingToVerify' \in BOOLEAN
      BY <1>5, Zenon DEF Restart
    <2>3. index' \in 1..NWords /\ words' \in Image /\ step' = "none" /\ buffer' = "none"
      BY <1>5, ConstantsAssumption, NoWordsInImage DEF Restart
    <2>4. EngineType'
      BY <2>2, <2>3 DEF EngineType
    <2>5. QED
      BY <1>5, <2>1, <2>3, <2>4, ChipsUnchanged DEF Restart, StepOK
  <1>6. ASSUME NEW c \in Chips, Settle(c) PROVE IndInv'
    <2>1. busy' \in [Chips -> BOOLEAN]
      BY <1>6 DEF Settle, ChipsType
    <2>2. ChipsType'
      BY <1>6, <2>1 DEF Settle, ChipsType
    <2>3. QED
      BY <1>6, <2>2, SessionUnchanged, EngineUnchanged DEF Settle, StepOK, session, engine, Active
  <1>7. CASE UNCHANGED vars
    <2>1. UNCHANGED session /\ UNCHANGED engine /\ UNCHANGED chips
      BY <1>7 DEF vars
    <2>2. QED
      BY <2>1, SessionUnchanged, EngineUnchanged, ChipsUnchanged DEF StepOK, session, engine, Active
  <1>8. QED
    BY <1>1, <1>2, <1>3, <1>4, <1>5, <1>6, <1>7

LEMMA NextInv == IndInv /\ [Next]_vars => IndInv'
  BY EngineStepInv, OtherStepInv DEF Next

LEMMA Inductive == Spec => []IndInv
  BY InitInv, NextInv, PTL DEF Spec

(* Every variable keeps its type: in particular no handler leaves its loop  *)
(* index or its chip's pointer out of range, whatever the recipe.          *)
THEOREM TypeCorrect == Spec => []TypeOK
  <1>1. IndInv => TypeOK
    BY DEF IndInv
  <1>2. QED
    BY <1>1, Inductive, PTL
-----------------------------------------------------------------------------
(* The buffered record.  Between a block and the verify that releases it,   *)
(* the buffer holds that block.                                            *)
BufferInv ==
  Active /\ status = SUCCESS =>
    \A j \in 1..(pos - 1) :
      LastBefore(recipe, "NVM_DATA", pos, j)
      /\ (\A k \in (j + 1)..(pos - 1) : recipe[k].type # "VERIFY_EE_DATA")
        => buffer = "live" /\ words = recipe[j].words

(* A record has at most one last block before it.                          *)
LEMMA ImageOfLast ==
  ASSUME NEW r, NEW i \in Nat, NEW j, LastBefore(r, "NVM_DATA", i, j)
  PROVE  ImageOf(r, i) = r[j].words
  <1>1. ASSUME NEW k \in 1..(i - 1), LastBefore(r, "NVM_DATA", i, k) PROVE k = j
    BY <1>1 DEF LastBefore
  <1>2. j \in 1..(i - 1)
    BY DEF LastBefore
  <1>3. (CHOOSE k \in 1..(i - 1) : LastBefore(r, "NVM_DATA", i, k)) = j
    BY <1>1, <1>2
  <1>4. QED
    BY <1>3 DEF ImageOf

LEMMA BufferAdvance ==
  ASSUME IndInv, BufferInv, Active, status = SUCCESS, NextRecord,
         \/ recipe[pos].type = "VERIFY_EE_DATA"
         \/ recipe[pos].type # "NVM_DATA" /\ UNCHANGED <<buffer, words>>
         \/ recipe[pos].type = "NVM_DATA" /\ buffer' = "live" /\ words' = recipe[pos].words
  PROVE  BufferInv'
  <1>1. pos \in Nat /\ pos' = pos + 1 /\ recipe' = recipe
    BY DEF IndInv, TypeOK, SessionType, NextRecord
  <1>2. SUFFICES ASSUME NEW j \in 1..pos, LastBefore(recipe, "NVM_DATA", pos + 1, j),
                        \A k \in (j + 1)..pos : recipe[k].type # "VERIFY_EE_DATA"
                 PROVE  buffer' = "live" /\ words' = recipe[j].words
    BY <1>1 DEF BufferInv, LastBefore
  <1>3. CASE j = pos
    BY <1>2, <1>3 DEF LastBefore
  <1>4. CASE j # pos
    <2>1. pos \in (j + 1)..pos /\ j \in 1..(pos - 1)
      BY <1>1, <1>4
    <2>2. recipe[pos].type # "NVM_DATA" /\ recipe[pos].type # "VERIFY_EE_DATA"
      BY <1>1, <1>2, <2>1 DEF LastBefore
    <2>3. LastBefore(recipe, "NVM_DATA", pos, j)
          /\ \A k \in (j + 1)..(pos - 1) : recipe[k].type # "VERIFY_EE_DATA"
      BY <1>1, <1>2, <2>1 DEF LastBefore
    <2>4. QED
      BY <2>1, <2>2, <2>3 DEF BufferInv
  <1>5. QED
    BY <1>3, <1>4

LEMMA BufferStep == IndInv /\ BufferInv /\ [Next]_vars => BufferInv'
  <1> SUFFICES ASSUME IndInv, BufferInv, [Next]_vars PROVE BufferInv'
    OBVIOUS
  <1>0. ASSUME UNCHANGED <<session, buffer, words>> PROVE BufferInv'
    BY <1>0 DEF BufferInv, LastBefore, session, Active
  <1>1. ASSUME FailRecord \/ ~Active' PROVE BufferInv'
    BY <1>1 DEF BufferInv, FailRecord, SUCCESS, FAILURE
  <1>2. ASSUME NEW r \in Recipes, StartProgram(r) \/ StartVerify(r) PROVE BufferInv'
    BY <1>2 DEF BufferInv, StartProgram, StartVerify, StartRun
  <1>3. CASE EngineStep
    <2>1. CASE SkipRecord \/ WriteByte \/ WriteOther \/ PassOver \/ Unsupported \/ ReadExpect
               \/ WaitChip \/ BufferNvmData \/ LockForNvmData \/ ProcessEvent
      <3>1. Active /\ status = SUCCESS
        BY <2>1 DEF SkipRecord, WriteByte, WriteOther, PassOver, Unsupported, ReadExpect, WaitChip,
                    BufferNvmData, LockForNvmData, ProcessEvent, Dispatched, Fetched
      <3>2. CASE BufferNvmData
        BY <3>1, <3>2, BufferAdvance DEF BufferNvmData, Fetched
      <3>3. CASE ~BufferNvmData
        <4>1. NextRecord \/ FailRecord
          BY <2>1, <3>3 DEF SkipRecord, WriteByte, WriteOther, PassOver, Unsupported, ReadExpect,
                            WaitChip, LockForNvmData, ProcessEvent
        <4>2. recipe[pos].type # "NVM_DATA"
          BY <2>1, <3>3 DEF SkipRecord, WriteByte, WriteOther, PassOver, Unsupported, ReadExpect,
                            WaitChip, LockForNvmData, ProcessEvent, Dispatched, Fetched
        <4>3. UNCHANGED <<buffer, words>>
          BY <2>1, <3>3 DEF SkipRecord, WriteByte, WriteOther, PassOver, Unsupported, ReadExpect,
                            WaitChip, LockForNvmData, ProcessEvent, engine
        <4>4. QED
          BY <1>1, <3>1, <4>1, <4>2, <4>3, BufferAdvance
      <3>4. QED
        BY <3>2, <3>3
    <2>2. CASE WriteNvmData \/ WriteWord
      BY <1>0, <2>2 DEF WriteNvmData, WriteWord, session
    <2>3. CASE PollWord
      <3>1. /\ Active /\ status = SUCCESS /\ recipe[pos].type # "NVM_DATA"
            /\ UNCHANGED <<buffer, words>> /\ (UNCHANGED session \/ NextRecord)
        BY <2>3 DEF PollWord, IndInv, StepOK, Active
      <3>2. QED
        BY <1>0, <3>1, BufferAdvance
    <2>4. CASE ReadThenVerify
      BY <1>0, <1>1, <2>4 DEF ReadThenVerify, session
    <2>5. CASE ReadWord
      <3>1. Active /\ status = SUCCESS /\ recipe[pos].type = "VERIFY_EE_DATA"
        BY <2>5 DEF ReadWord, IndInv, StepOK, Active
      <3>2. UNCHANGED <<session, buffer, words>> \/ NextRecord \/ FailRecord
        BY <2>5 DEF ReadWord
      <3>3. QED
        BY <1>0, <1>1, <3>1, <3>2, BufferAdvance
    <2>6. CASE EndOfRecords \/ GiveUp
      BY <1>1, <2>6 DEF EndOfRecords, GiveUp, Return, Active
    <2>7. QED
      BY <1>3, <2>1, <2>2, <2>3, <2>4, <2>5, <2>6 DEF EngineStep
  <1>4. CASE \E r \in Recipes : MenuCommand(r)
    BY <1>2, <1>4 DEF MenuCommand
  <1>5. CASE AfterProgram
    <2>1. recipe \in Recipes
      BY <1>5 DEF AfterProgram, IndInv, TypeOK, SessionType
    <2>2. StartVerify(recipe) \/ ~Active'
      BY <1>5 DEF AfterProgram, Active
    <2>3. QED
      BY <1>1, <1>2, <2>1, <2>2
  <1>6. CASE AfterVerify \/ BusError \/ Restart
    BY <1>1, <1>6 DEF AfterVerify, BusError, Restart, Active
  <1>7. CASE (\E c \in Chips : Settle(c)) \/ UNCHANGED vars
    BY <1>0, <1>7 DEF Settle, vars, engine
  <1>8. QED
    BY <1>3, <1>4, <1>5, <1>6, <1>7 DEF Next

(* In every order of runs, failures and restarts, a handler that loops over *)
(* the buffered words finds the block of its own chip, and finds it live.  *)
THEOREM BufferSafe == Spec => []BufferLive
  <1>1. Init => BufferInv
    BY DEF Init, BufferInv, Active
  <1>2. ASSUME IndInv, BufferInv PROVE BufferLive
    <2>1. SUFFICES ASSUME Active, step # "none"
                   PROVE  buffer = "live" /\ words = ImageOf(recipe, pos)
      BY DEF BufferLive
    <2>2. status = SUCCESS /\ recipe[pos].type \in {"WRITE_EE_DATA", "VERIFY_EE_DATA"}
      BY <1>2, <2>1 DEF IndInv, TypeOK, EngineType, StepOK, Active
    <2>3. recipe \in Recipes /\ pos \in DOMAIN recipe /\ pos \in Nat
      BY <1>2, <2>1, CurrentRecord DEF IndInv, TypeOK, SessionType
    <2>4. PICK j \in 1..(pos - 1) :
            /\ LastBefore(recipe, "NVM_DATA", pos, j)
            /\ \A k \in (j + 1)..(pos - 1) : recipe[k].type # "VERIFY_EE_DATA"
      BY <2>2, <2>3, RecipeFacts DEF Buffered
    <2>5. buffer = "live" /\ words = recipe[j].words
      BY <1>2, <2>1, <2>2, <2>4 DEF BufferInv
    <2>6. QED
      BY <2>3, <2>4, <2>5, ImageOfLast
  <1>3. QED
    BY <1>1, <1>2, BufferStep, Inductive, PTL DEF Spec

-----------------------------------------------------------------------------
LEMMA VerifyStep ==
  ASSUME IndInv, Next, run = "verify"
  PROVE  UNCHANGED eeprom
  <1>1. CASE EngineStep
    <2>1. CASE WriteByte
      <3>1. recipe[pos].cmd \in Command
        BY <2>1, CurrentRecord DEF IndInv, TypeOK, WriteByte, Dispatched, Fetched, Record
      <3>2. UNCHANGED chips \/ \E d \in Data : UnlockWrite(recipe[pos].chip, d)
        <4>1. recipe[pos].data \in Data /\ "lock" \in Data
          BY <2>1, CurrentRecord
          DEF IndInv, TypeOK, WriteByte, Dispatched, Fetched, Record, Data
        <4>2. QED
          BY <2>1, <3>1, <4>1 DEF WriteByte, Command
      <3>3. QED
        BY <3>2 DEF UnlockWrite, chips
    <2>2. CASE LockForNvmData
      BY <2>2 DEF LockForNvmData, UnlockWrite
    <2>3. CASE ReadWord
      BY <2>3 DEF ReadWord, FetchWord
    <2>4. ~WriteWord
      BY DEF WriteWord, IndInv, StepOK
    <2>5. CASE SkipRecord \/ WriteOther \/ PassOver \/ Unsupported \/ ReadExpect \/ WaitChip
               \/ BufferNvmData \/ WriteNvmData \/ PollWord \/ ReadThenVerify \/ ProcessEvent
               \/ EndOfRecords \/ GiveUp
      BY <2>5 DEF SkipRecord, WriteOther, PassOver, Unsupported, ReadExpect, WaitChip,
                  BufferNvmData, WriteNvmData, PollWord, ReadThenVerify, ProcessEvent,
                  EndOfRecords, GiveUp, chips
    <2>6. QED
      BY <1>1, <2>1, <2>2, <2>3, <2>4, <2>5 DEF EngineStep
  <1>2. CASE BusError \/ \E c \in Chips : Settle(c)
    BY <1>2 DEF BusError, Settle, chips
  <1>3. QED
    BY <1>1, <1>2 DEF Next, MenuCommand, AfterProgram, AfterVerify, Restart

(* A verify run stores no word and erases no EEPROM, whatever the recipe.   *)
THEOREM VerifyKeeps == Spec => VerifyKeepsEeprom
  <1>1. IndInv /\ [Next]_vars => [run = "verify" => UNCHANGED eeprom]_vars
    BY VerifyStep
  <1>2. QED
    BY <1>1, Inductive, PTL DEF Spec, VerifyKeepsEeprom

-----------------------------------------------------------------------------
(* What a successful run means.  The records of a verify run that are       *)
(* executed, and what the run knows of a chip after a key was written to it *)
(* and of the words of the block it compares.                              *)
Heeded == run = "program" \/ ~ignore_records

Opens(j) == /\ LastBefore(recipe, "EVENT", pos, j)
            /\ recipe[j].event = "INSYSTEM_CHIP_BEFORE_VERIFY"

SectionInv ==
  Active /\ run = "verify" /\ status = SUCCESS =>
    /\ verification_in_progress = TRUE
    /\ \A j \in 1..(pos - 1) : Opens(j) => ignore_records = FALSE

(* The last record the run has begun, and what a key to chip c, written by  *)
(* record j, is still good for.                                            *)
Met == IF step = "none" THEN pos - 1 ELSE pos

Keyed(c, j) == /\ Keys(recipe[j], c)
               /\ \A m \in (j + 1)..Met : recipe[m].type # "EVENT" /\ ~Moves(recipe[m], c)

Kept(c, j) == /\ pointer[c] = 1
              /\ \A k \in (j + 1)..Met :
                   ExpectsOpen(recipe[k], c) /\ (\A m \in (k + 1)..Met : ~Keys(recipe[m], c))
                     => unlock[c] = "open"

KeyedInv ==
  Active /\ status = SUCCESS /\ Heeded =>
    \A c \in Chips, j \in 1..Met : Keyed(c, j) => Kept(c, j)

ComparedInv ==
  Active /\ step = "read" =>
    LET c == recipe[pos].chip
    IN  /\ unlock[c] = "open" /\ pointer[c] = index
        /\ \A k \in 1..(index - 1) : eeprom[c][k] = words[k]

Holds(i) == eeprom[recipe[i].chip] = ImageOf(recipe, i)

VerifiedInv ==
  /\ Active \/ run = "dead" => result = "none"
  /\ Active /\ status = SUCCESS => \A i \in VerifiesOf(recipe) : i < pos => Holds(i)
  /\ result = SUCCESS => \A i \in VerifiesOf(recipe) : Holds(i)

SuccessInv == SectionInv /\ KeyedInv /\ ComparedInv /\ VerifiedInv

(* The ways in which the steps of the engine, and the others, move a run.   *)
LEMMA EngineShapes ==
  ASSUME IndInv, EngineStep
  PROVE  /\ Active
         /\ \/ UNCHANGED session /\ status = SUCCESS
            \/ NextRecord /\ status = SUCCESS
            \/ FailRecord /\ status = SUCCESS
            \/ ~Active' /\ GiveUp
            \/ ~Active' /\ EndOfRecords
         /\ ProcessEvent \/ EndOfRecords \/ UNCHANGED <<ignore_records, verification_in_progress>>
  <1>1. CASE SkipRecord \/ WriteByte \/ WriteOther \/ PassOver \/ Unsupported \/ ReadExpect
             \/ WaitChip \/ LockForNvmData
    BY <1>1 DEF SkipRecord, WriteByte, WriteOther, PassOver, Unsupported, ReadExpect, WaitChip,
                LockForNvmData, Dispatched, Fetched, engine
  <1>2. CASE BufferNvmData \/ WriteNvmData \/ ReadThenVerify \/ ProcessEvent
    BY <1>2 DEF BufferNvmData, WriteNvmData, ReadThenVerify, ProcessEvent, Dispatched, Fetched
  <1>3. CASE WriteWord \/ PollWord \/ ReadWord
    <2>1. Active /\ step # "none" /\ status = SUCCESS
      BY <1>3 DEF WriteWord, PollWord, ReadWord, IndInv, StepOK, Active
    <2>2. UNCHANGED session \/ NextRecord \/ FailRecord
      BY <1>3 DEF WriteWord, PollWord, ReadWord
    <2>3. UNCHANGED <<ignore_records, verification_in_progress>>
      BY <1>3 DEF WriteWord, PollWord, ReadWord
    <2>4. QED
      BY <2>1, <2>2, <2>3
  <1>4. CASE EndOfRecords \/ GiveUp
    BY <1>4 DEF EndOfRecords, GiveUp, Fetched, Return, Active, engine
  <1>5. QED
    BY <1>1, <1>2, <1>3, <1>4 DEF EngineStep

LEMMA OtherShapes ==
  ASSUME IndInv, [Next]_vars, ~EngineStep
  PROVE  \/ \E r \in Recipes : /\ StartProgram(r) \/ StartVerify(r)
                               /\ step = "none" /\ ~Active
         \/ /\ ~Active /\ ~Active' /\ run' # "dead" /\ UNCHANGED eeprom
            /\ UNCHANGED <<recipe, result>> \/ result' = "none"
         \/ BusError
         \/ UNCHANGED <<session, engine, eeprom, unlock, pointer>>
  <1>1. CASE \E r \in Recipes : MenuCommand(r)
    BY <1>1 DEF MenuCommand, IndInv, StepOK, Active
  <1>2. CASE AfterProgram
    BY <1>2 DEF AfterProgram, IndInv, TypeOK, SessionType, StepOK, Active, chips
  <1>3. CASE AfterVerify \/ Restart
    BY <1>3 DEF AfterVerify, Restart, Active, chips
  <1>4. CASE (\E c \in Chips : Settle(c)) \/ UNCHANGED vars
    BY <1>4 DEF Settle, vars, chips
  <1>5. QED
    BY <1>1, <1>2, <1>3, <1>4 DEF Next

LEMMA SectionStep == IndInv /\ SectionInv /\ [Next]_vars => SectionInv'
  <1> SUFFICES ASSUME IndInv, SectionInv, [Next]_vars, Active', run' = "verify", status' = SUCCESS
               PROVE  /\ verification_in_progress' = TRUE
                      /\ \A j \in 1..(pos' - 1) : Opens(j)' => ignore_records' = FALSE
    BY DEF SectionInv
  <1>1. CASE EngineStep
    <2>1. Active /\ status = SUCCESS /\ (UNCHANGED session \/ NextRecord)
      BY <1>1, EngineShapes DEF FailRecord, SUCCESS, FAILURE
    <2>2. run = "verify" /\ recipe' = recipe /\ pos \in Nat
      BY <2>1 DEF session, NextRecord, IndInv, TypeOK, SessionType
    <2>3. /\ verification_in_progress = TRUE
          /\ \A j \in 1..(pos - 1) : Opens(j) => ignore_records = FALSE
      BY <2>1, <2>2 DEF SectionInv
    <2>4. CASE ProcessEvent
      <3>1. recipe[pos].type = "EVENT" /\ pos' = pos + 1
        BY <2>4 DEF ProcessEvent, Fetched, NextRecord, FailRecord, SUCCESS, FAILURE
      <3>2. verification_in_progress' = TRUE
        BY <2>3, <2>4 DEF ProcessEvent
      <3>3. ASSUME NEW j \in 1..pos, Opens(j)' PROVE ignore_records' = FALSE
        <4>1. j = pos
          BY <2>2, <3>1, <3>3 DEF Opens, LastBefore
        <4>2. recipe[pos].event = "INSYSTEM_CHIP_BEFORE_VERIFY"
          BY <2>2, <3>3, <4>1 DEF Opens
        <4>3. QED
          BY <2>3, <2>4, <4>2 DEF ProcessEvent
      <3>4. pos' - 1 = pos
        BY <2>2, <3>1
      <3>5. QED
        BY <3>2, <3>3, <3>4
    <2>5. CASE ~ProcessEvent
      <3>1. UNCHANGED <<ignore_records, verification_in_progress>>
        BY <1>1, <2>5, EngineShapes DEF EndOfRecords, Return, Active
      <3>2. CASE UNCHANGED session
        <4>1. pos' = pos /\ recipe' = recipe
          BY <3>2 DEF session
        <4>2. ASSUME NEW j \in 1..(pos' - 1), Opens(j)' PROVE ignore_records' = FALSE
          <5>1. Opens(j)
            BY <4>1, <4>2 DEF Opens, LastBefore
          <5>2. QED
            BY <2>3, <3>1, <4>1, <5>1
        <4>3. QED
          BY <2>3, <3>1, <4>2
      <3>3. CASE NextRecord
        <4>1. recipe[pos].type # "EVENT"
          <5>1. CASE WriteWord \/ PollWord \/ ReadWord
            BY <5>1 DEF WriteWord, PollWord, ReadWord, IndInv, StepOK, Active
          <5>2. CASE SkipRecord \/ WriteByte \/ WriteOther \/ PassOver \/ Unsupported \/ ReadExpect
            BY <5>2 DEF SkipRecord, WriteByte, WriteOther, PassOver, Unsupported, ReadExpect,
                        Dispatched, Fetched
          <5>3. CASE \/ WaitChip \/ BufferNvmData \/ WriteNvmData \/ LockForNvmData
                     \/ ReadThenVerify \/ EndOfRecords
            BY <5>3 DEF WaitChip, BufferNvmData, WriteNvmData, LockForNvmData, ReadThenVerify,
                        EndOfRecords, Dispatched, Fetched
          <5>4. ~GiveUp
            BY <2>1 DEF GiveUp, SUCCESS, FAILURE
          <5>5. QED
            BY <1>1, <2>5, <5>1, <5>2, <5>3, <5>4 DEF EngineStep
        <4>2. pos' = pos + 1
          BY <3>3 DEF NextRecord
        <4>3. ASSUME NEW j \in 1..(pos' - 1), Opens(j)' PROVE j \in 1..(pos - 1) /\ Opens(j)
          BY <2>2, <4>1, <4>2, <4>3 DEF Opens, LastBefore
        <4>4. ASSUME NEW j \in 1..(pos' - 1), Opens(j)' PROVE ignore_records' = FALSE
          BY <2>3, <3>1, <4>3, <4>4
        <4>5. QED
          BY <2>3, <3>1, <4>4
      <3>4. QED
        BY <2>1, <3>2, <3>3
    <2>6. QED
      BY <2>4, <2>5
  <1>2. CASE ~EngineStep
    <2>1. CASE \E r \in Recipes : StartProgram(r) \/ StartVerify(r)
      BY <2>1 DEF StartProgram, StartVerify, StartRun
    <2>2. CASE UNCHANGED <<session, engine>>
      <3>1. Active /\ run = "verify" /\ status = SUCCESS
        BY <2>2 DEF session, Active
      <3>2. QED
        BY <2>2, <3>1 DEF session, engine, SectionInv, Opens, LastBefore
    <2>3. ~BusError
      BY DEF BusError, Active
    <2>4. QED
      BY <1>2, <2>1, <2>2, <2>3, OtherShapes
  <1>3. QED
    BY <1>1, <1>2

(* A step that begins no record keeps the keys of the chips it leaves alone. *)
LEMMA KeyedSame ==
  ASSUME IndInv, KeyedInv, Active, status = SUCCESS, Heeded, Met' = Met, recipe' = recipe,
         \A c \in Chips :
           \/ Met \in Nat \ {0} /\ Moves(recipe[Met], c)
           \/ unlock'[c] = unlock[c] /\ pointer'[c] = pointer[c]
  PROVE  KeyedInv'
  <1> SUFFICES ASSUME NEW c \in Chips, NEW j \in 1..Met, Keyed(c, j)' PROVE Kept(c, j)'
    BY DEF KeyedInv
  <1>1. Keyed(c, j)
    BY DEF Keyed, Keys, Moves
  <1>2. Kept(c, j)
    BY <1>1 DEF KeyedInv
  <1>3. ~(Met \in Nat \ {0} /\ Moves(recipe[Met], c))
    <2>1. Met \in Int
      BY DEF Met, IndInv, TypeOK, SessionType
    <2>2. CASE j = Met
      BY <1>1, <2>2 DEF Keyed, Keys, Moves
    <2>3. CASE j # Met
      BY <1>1, <2>1, <2>3 DEF Keyed
    <2>4. QED
      BY <2>2, <2>3
  <1>4. unlock'[c] = unlock[c] /\ pointer'[c] = pointer[c]
    BY <1>3
  <1>5. QED
    BY <1>2, <1>4 DEF Kept, Keys, ExpectsOpen

(* A step that begins record pos.                                          *)
LEMMA KeyedNext ==
  ASSUME IndInv, KeyedInv, Active, status = SUCCESS, Heeded, step = "none",
         Met' = pos, recipe' = recipe,
         \A c \in Chips :
           \/ recipe[pos].type = "EVENT" \/ Moves(recipe[pos], c)
           \/ Keys(recipe[pos], c) /\ pointer'[c] = 1
           \/ /\ ~Keys(recipe[pos], c)
              /\ unlock'[c] = unlock[c] /\ pointer'[c] = pointer[c]
              /\ ExpectsOpen(recipe[pos], c) => unlock[c] = "open"
  PROVE  KeyedInv'
  <1> SUFFICES ASSUME NEW c \in Chips, NEW j \in 1..pos, Keyed(c, j)' PROVE Kept(c, j)'
    BY DEF KeyedInv
  <1>1. pos \in Nat \ {0} /\ Met = pos - 1
    BY DEF Met, IndInv, TypeOK, SessionType
  <1>2. /\ Keys(recipe[j], c)
        /\ \A m \in (j + 1)..pos : recipe[m].type # "EVENT" /\ ~Moves(recipe[m], c)
    BY DEF Keyed, Keys, Moves
  <1>3. recipe[pos].type # "EVENT" /\ ~Moves(recipe[pos], c)
    <2>1. CASE j = pos
      BY <1>2, <2>1 DEF Keys, Moves
    <2>2. CASE j # pos
      BY <1>1, <1>2, <2>2
    <2>3. QED
      BY <2>1, <2>2
  <1>4. SUFFICES /\ pointer'[c] = 1
                 /\ \A k \in (j + 1)..pos :
                      ExpectsOpen(recipe[k], c) /\ (\A m \in (k + 1)..pos : ~Keys(recipe[m], c))
                        => unlock'[c] = "open"
    BY DEF Kept, Keys, ExpectsOpen
  <1>5. CASE j = pos
    BY <1>1, <1>2, <1>3, <1>5
  <1>6. CASE j # pos
    <2>1. j \in 1..Met /\ Keyed(c, j)
      BY <1>1, <1>2, <1>6 DEF Keyed
    <2>2. Kept(c, j)
      BY <2>1 DEF KeyedInv
    <2>3. pointer'[c] = 1
      BY <1>3, <2>2 DEF Kept
    <2>4. ASSUME NEW k \in (j + 1)..pos, ExpectsOpen(recipe[k], c),
                 \A m \in (k + 1)..pos : ~Keys(recipe[m], c)
          PROVE  unlock'[c] = "open"
      <3>1. ~Keys(recipe[pos], c)
        <4>1. CASE k = pos
          BY <2>4, <4>1 DEF ExpectsOpen, Keys
        <4>2. CASE k # pos
          BY <1>1, <2>4, <4>2
        <4>3. QED
          BY <4>1, <4>2
      <3>2. unlock'[c] = unlock[c] /\ (ExpectsOpen(recipe[pos], c) => unlock[c] = "open")
        BY <1>3, <3>1
      <3>3. CASE k = pos
        BY <2>4, <3>2, <3>3
      <3>4. CASE k # pos
        <4>1. k \in (j + 1)..Met /\ \A m \in (k + 1)..Met : ~Keys(recipe[m], c)
          BY <1>1, <2>4, <3>4
        <4>2. QED
          BY <2>2, <2>4, <3>2, <4>1 DEF Kept
      <3>5. QED
        BY <3>3, <3>4
    <2>5. QED
      BY <2>3, <2>4
  <1>7. QED
    BY <1>5, <1>6

LEMMA KeyedStep == IndInv /\ KeyedInv /\ [Next]_vars => KeyedInv'
  <1> SUFFICES ASSUME IndInv, KeyedInv, [Next]_vars, Active', status' = SUCCESS, Heeded'
               PROVE  KeyedInv'
    BY DEF KeyedInv
  <1>0. pos \in Nat \ {0} /\ unlock \in [Chips -> {"locked", "half", "open"}]
        /\ pointer \in [Chips -> 1..NWords]
    BY DEF IndInv, TypeOK, SessionType, ChipsType
  <1>1. CASE EngineStep
    <2>1. Active /\ status = SUCCESS /\ (UNCHANGED session \/ NextRecord)
      BY <1>1, EngineShapes DEF FailRecord, SUCCESS, FAILURE
    <2>2. run' = run /\ recipe' = recipe
      BY <2>1 DEF session, NextRecord
    <2>3. recipe[pos] \in Record
      BY <2>1, CurrentRecord DEF IndInv, TypeOK
    <2>4. Heeded \/ ProcessEvent
      <3>1. ~EndOfRecords
        BY DEF EndOfRecords, Return, Active
      <3>2. ASSUME ~ProcessEvent PROVE Heeded
        <4>1. ignore_records' = ignore_records
          BY <1>1, <3>1, <3>2, EngineShapes
        <4>2. QED
          BY <2>2, <4>1, Zenon DEF Heeded
      <3>3. QED
        BY <3>2
    <2>5. CASE ProcessEvent
      <3>1. step = "none" /\ step' = "none" /\ recipe[pos].type = "EVENT"
        BY <2>5 DEF ProcessEvent, Fetched
      <3>2. NextRecord
        BY <2>5 DEF ProcessEvent, FailRecord, SUCCESS, FAILURE
      <3>3. Met' = pos
        BY <1>0, <3>1, <3>2 DEF Met, NextRecord
      <3>4. SUFFICES ASSUME NEW c \in Chips, NEW j \in 1..pos, Keyed(c, j)' PROVE FALSE
        BY <3>3 DEF KeyedInv
      <3>5. Keys(recipe[j], c) /\ \A m \in (j + 1)..pos : recipe[m].type # "EVENT"
        BY <2>2, <3>3, <3>4 DEF Keyed, Keys
      <3>6. QED
        BY <1>0, <3>1, <3>5 DEF Keys
    <2>6. CASE Heeded /\ (BufferNvmData \/ WriteOther \/ PassOver \/ WaitChip \/ ReadExpect)
      <3>1. step = "none" /\ UNCHANGED <<step, unlock, pointer>>
        BY <2>6 DEF chips, BufferNvmData, WriteOther, PassOver, WaitChip, ReadExpect, Dispatched, Fetched,
                    engine
      <3>2. NextRecord
        BY <2>1, <2>6 DEF BufferNvmData, WriteOther, PassOver, WaitChip, ReadExpect, FailRecord,
                          SUCCESS, FAILURE
      <3>3. ASSUME NEW c \in Chips
            PROVE  ~Keys(recipe[pos], c) /\ (ExpectsOpen(recipe[pos], c) => unlock[c] = "open")
        <4>1. CASE ReadExpect
          <5>1. recipe[pos].type = "READ_EXPECT"
            BY <4>1 DEF ReadExpect, Dispatched, Fetched
          <5>2. ASSUME ExpectsOpen(recipe[pos], c) PROVE unlock[c] = "open"
            <6>1. ReadsAs(recipe[pos].chip, recipe[pos].cmd, recipe[pos].data) = {unlock[c] = "open"}
              BY <5>2 DEF ReadsAs, ExpectsOpen
            <6>2. ~FailRecord
              BY DEF FailRecord, SUCCESS, FAILURE
            <6>3. QED
              BY <4>1, <6>1, <6>2 DEF ReadExpect
          <5>3. QED
            BY <5>1, <5>2 DEF Keys
        <4>2. CASE ~ReadExpect
          BY <2>6, <4>2 DEF BufferNvmData, WriteOther, PassOver, WaitChip, Dispatched, Fetched,
                            Keys, ExpectsOpen
        <4>3. QED
          BY <4>1, <4>2
      <3>4. Met' = pos /\ unlock' = unlock /\ pointer' = pointer
        BY <1>0, <3>1, <3>2 DEF Met, NextRecord, chips
      <3>5. QED
        BY <2>1, <2>2, <2>6, <3>1, <3>3, <3>4, KeyedNext
    <2>7. CASE Heeded /\ (WriteByte \/ LockForNvmData)
      <3>1. step = "none" /\ UNCHANGED step /\ NextRecord
        BY <2>7 DEF WriteByte, LockForNvmData, Dispatched, Fetched, engine
      <3>2. Met' = pos
        BY <1>0, <3>1 DEF Met, NextRecord
      <3>3. ASSUME NEW c \in Chips
            PROVE  \/ Moves(recipe[pos], c)
                   \/ Keys(recipe[pos], c) /\ pointer'[c] = 1
                   \/ /\ ~Keys(recipe[pos], c)
                      /\ unlock'[c] = unlock[c] /\ pointer'[c] = pointer[c]
                      /\ ExpectsOpen(recipe[pos], c) => unlock[c] = "open"
        <4>1. CASE LockForNvmData
          BY <1>0, <4>1 DEF LockForNvmData, UnlockWrite, Moves, Keys, ExpectsOpen, Dispatched, Fetched
        <4>2. CASE WriteByte
          <5>1. recipe[pos].type = "WRITE_BYTE" /\ recipe[pos].cmd \in Command
            BY <2>3, <4>2 DEF WriteByte, Dispatched, Fetched, Record
          <5>2. CASE recipe[pos].cmd = "EE_UNLOCK"
            BY <1>0, <4>2, <5>1, <5>2 DEF WriteByte, UnlockWrite, Keys, ExpectsOpen
          <5>3. CASE recipe[pos].cmd = "EE_ERASE"
            <6>1. EraseWrite(recipe[pos].chip) \/ UnlockWrite(recipe[pos].chip, "lock")
              BY <4>2, <5>3 DEF WriteByte
            <6>2. QED
              BY <1>0, <5>1, <5>3, <6>1 DEF UnlockWrite, EraseWrite, Moves, Keys, ExpectsOpen
          <5>4. CASE recipe[pos].cmd \in {"EE_DATA", "OTHER"}
            BY <1>0, <4>2, <5>1, <5>4 DEF WriteByte, Keys, ExpectsOpen, chips
          <5>5. QED
            BY <5>1, <5>2, <5>3, <5>4 DEF Command
        <4>3. QED
          BY <2>7, <4>1, <4>2
      <3>4. QED
        BY <2>1, <2>2, <2>7, <3>1, <3>2, <3>3, KeyedNext
    <2>8. CASE Heeded /\ (WriteNvmData \/ ReadThenVerify)
      <3>1. step = "none" /\ UNCHANGED chips /\ recipe[pos].type \in {"WRITE_EE_DATA", "VERIFY_EE_DATA"}
        BY <2>8 DEF WriteNvmData, ReadThenVerify, Dispatched, Fetched
      <3>2. step' # "none" /\ UNCHANGED session
        BY <2>1, <2>8 DEF WriteNvmData, ReadThenVerify, NextRecord, FailRecord, SUCCESS, FAILURE
      <3>3. Met' = pos /\ unlock' = unlock /\ pointer' = pointer
        BY <3>1, <3>2 DEF Met, session, chips
      <3>4. \A c \in Chips : ~Keys(recipe[pos], c) /\ ~ExpectsOpen(recipe[pos], c)
        BY <3>1 DEF Keys, ExpectsOpen
      <3>5. QED
        BY <2>1, <2>2, <2>8, <3>1, <3>3, <3>4, KeyedNext
    <2>9. CASE Heeded /\ (WriteWord \/ PollWord \/ ReadWord)
      <3>1. step # "none" /\ recipe[pos].type \in {"WRITE_EE_DATA", "VERIFY_EE_DATA"}
        BY <2>9 DEF WriteWord, PollWord, ReadWord, IndInv, StepOK, Active
      <3>2. Met = pos
        BY <3>1 DEF Met
      <3>3. \/ step' # "none" /\ UNCHANGED session
            \/ step' = "none" /\ NextRecord
        BY <2>1, <2>9 DEF WriteWord, PollWord, ReadWord, FailRecord, SUCCESS, FAILURE
      <3>4. Met' = pos
        BY <1>0, <3>3 DEF Met, session, NextRecord
      <3>5. ASSUME NEW c \in Chips, c # recipe[pos].chip
            PROVE  unlock'[c] = unlock[c] /\ pointer'[c] = pointer[c]
        <4>1. CASE PollWord
          BY <4>1 DEF PollWord, chips
        <4>2. CASE WriteWord \/ ReadWord
          <5>1. StepPointer(recipe[pos].chip)
            BY <4>2 DEF WriteWord, ReadWord, StoreWord, FetchWord
          <5>2. QED
            BY <1>0, <3>5, <5>1 DEF StepPointer
        <4>3. QED
          BY <2>9, <4>1, <4>2
      <3>6. \A c \in Chips : c = recipe[pos].chip => Moves(recipe[pos], c)
        BY <3>1 DEF Moves
      <3>7. QED
        BY <1>0, <2>1, <2>2, <2>9, <3>2, <3>4, <3>5, <3>6, KeyedSame
    <2>10. ~SkipRecord \/ ~Heeded
      BY DEF SkipRecord, Heeded
    <2>11. ~Unsupported /\ ~GiveUp /\ ~EndOfRecords
      BY DEF Unsupported, GiveUp, EndOfRecords, FailRecord, Return, Active, SUCCESS, FAILURE
    <2>12. QED
      BY <1>1, <2>4, <2>5, <2>6, <2>7, <2>8, <2>9, <2>10, <2>11 DEF EngineStep
  <1>2. CASE ~EngineStep
    <2>1. CASE \E r \in Recipes : (StartProgram(r) \/ StartVerify(r)) /\ step = "none"
      <3>1. Met' = 0
        BY <2>1 DEF StartProgram, StartVerify, StartRun, Met, engine
      <3>2. QED
        BY <3>1 DEF KeyedInv
    <2>2. CASE UNCHANGED <<session, engine, eeprom, unlock, pointer>>
      <3>1. Met' = Met /\ recipe' = recipe /\ Active /\ status = SUCCESS /\ Heeded
            /\ unlock' = unlock /\ pointer' = pointer
        BY <2>2 DEF session, engine, Active, Heeded, Met
      <3>2. QED
        BY <3>1, KeyedSame
    <2>3. ~BusError
      BY DEF BusError, Active
    <2>4. QED
      BY <1>2, <2>1, <2>2, <2>3, OtherShapes
  <1>3. QED
    BY <1>1, <1>2

(* The words compared so far are those of the block, and the chip's pointer *)
(* is at the word to compare next.                                         *)
LEMMA ComparedStep ==
  ASSUME \A r \in Recipes : Governed(r),
         IndInv, BufferLive, KeyedInv, ComparedInv, [Next]_vars
  PROVE  ComparedInv'
  <1> DEFINE c == recipe[pos].chip
  <1> SUFFICES ASSUME Active', step' = "read"
               PROVE  ComparedInv'
    BY DEF ComparedInv
  <1>0. /\ eeprom \in [Chips -> Image] /\ unlock \in [Chips -> {"locked", "half", "open"}]
        /\ pointer \in [Chips -> 1..NWords] /\ index \in 1..NWords /\ NWords \in Nat
        /\ pos \in Nat \ {0}
    BY ConstantsAssumption DEF IndInv, TypeOK, ChipsType, EngineType, SessionType
  <1>1. CASE EngineStep
    <2>1. Active /\ recipe \in Recipes /\ pos \in DOMAIN recipe /\ c \in Chips
      BY <1>1, EngineShapes, CurrentRecord DEF IndInv, TypeOK
    <2>2. CASE ReadThenVerify
      <3>1. /\ step = "none" /\ status = SUCCESS /\ recipe[pos].type = "VERIFY_EE_DATA"
            /\ Heeded /\ UNCHANGED chips
        BY <2>1, <2>2 DEF ReadThenVerify, Dispatched, Fetched, Heeded, Active
      <3>2. index' = 1 /\ UNCHANGED session
        BY <2>2, <3>1 DEF ReadThenVerify
      <3>3. Opened(recipe, pos)
        BY <2>1, <3>1 DEF Governed, VerifiesOf
      <3>4. PICK j \in 1..(pos - 1) : \E k \in (j + 1)..(pos - 1) :
              /\ Keys(recipe[j], c)
              /\ ExpectsOpen(recipe[k], c)
              /\ \A m \in (j + 1)..(pos - 1) : recipe[m].type # "EVENT" /\ ~Moves(recipe[m], c)
              /\ \A m \in (k + 1)..(pos - 1) : ~Keys(recipe[m], c)
        BY <3>3 DEF Opened
      <3>5. Met = pos - 1
        BY <3>1 DEF Met
      <3>6. Kept(c, j)
        BY <2>1, <3>1, <3>4, <3>5 DEF KeyedInv, Keyed
      <3>7. unlock[c] = "open" /\ pointer[c] = 1
        BY <3>4, <3>5, <3>6 DEF Kept
      <3>8. QED
        BY <1>0, <3>1, <3>2, <3>7 DEF ComparedInv, session, chips
    <2>3. CASE ReadWord
      <3>1. step = "read" /\ FetchWord(c)
        BY <2>3 DEF ReadWord
      <3>2. PICK expected \in BufferedWord(index), actual \in FetchedWord(c) :
              /\ actual = expected /\ index < NWords
              /\ index' = index + 1 /\ UNCHANGED <<session, step, buffer, words>>
        BY <2>3 DEF ReadWord
      <3>3. /\ unlock[c] = "open" /\ pointer[c] = index
            /\ \A k \in 1..(index - 1) : eeprom[c][k] = words[k]
        BY <2>1, <3>1 DEF ComparedInv
      <3>4. eeprom[c][index] = words[index]
        BY <2>1, <3>1, <3>2, <3>3 DEF BufferLive, BufferedWord, FetchedWord
      <3>5. pointer'[c] = index + 1 /\ unlock'[c] = "open" /\ eeprom' = eeprom
        BY <1>0, <2>1, <3>1, <3>2, <3>3 DEF FetchWord, StepPointer
      <3>6. \A k \in 1..(index' - 1) : eeprom[c][k] = words[k]
        BY <1>0, <3>2, <3>3, <3>4
      <3>7. QED
        BY <3>2, <3>5, <3>6 DEF ComparedInv, session
    <2>4. ~(WriteNvmData \/ WriteWord \/ PollWord)
      BY DEF WriteNvmData, WriteWord, PollWord
    <2>5. CASE SkipRecord \/ WriteByte \/ WriteOther \/ PassOver \/ Unsupported \/ ReadExpect
               \/ WaitChip \/ BufferNvmData \/ LockForNvmData \/ ProcessEvent
      <3>1. step = "none" /\ step' = step
        BY <2>5 DEF SkipRecord, WriteByte, WriteOther, PassOver, Unsupported, ReadExpect, WaitChip,
                    BufferNvmData, LockForNvmData, ProcessEvent, Dispatched, Fetched, engine
      <3>2. QED
        BY <3>1
    <2>6. ~(EndOfRecords \/ GiveUp)
      BY DEF EndOfRecords, GiveUp, Return, Active
    <2>7. QED
      BY <1>1, <2>2, <2>3, <2>4, <2>5, <2>6 DEF EngineStep
  <1>2. CASE ~EngineStep
    <2>1. CASE \E r \in Recipes : (StartProgram(r) \/ StartVerify(r)) /\ step = "none"
      BY <2>1 DEF StartProgram, StartVerify, engine
    <2>2. CASE UNCHANGED <<session, engine, eeprom, unlock, pointer>>
      BY <2>2 DEF session, engine, ComparedInv, Active
    <2>3. ~BusError
      BY DEF BusError, Active
    <2>4. QED
      BY <1>2, <2>1, <2>2, <2>3, OtherShapes
  <1>3. QED
    BY <1>1, <1>2

LEMMA SameImage ==
  ASSUME NEW f \in Image, NEW g \in Image, \A k \in 1..NWords : f[k] = g[k]
  PROVE  f = g
  <1>1. f = [k \in 1..NWords |-> f[k]] /\ g = [k \in 1..NWords |-> g[k]]
    BY DEF Image
  <1>2. QED
    BY <1>1, Zenon

(* While a run goes on, what it has verified stays as it was verified.      *)
LEMMA VerifiedRun ==
  ASSUME \A r \in Recipes : Governed(r),
         IndInv, BufferLive, SectionInv, ComparedInv, VerifiedInv, EngineStep,
         Active', status' = SUCCESS, NEW i \in VerifiesOf(recipe'), i < pos'
  PROVE  Holds(i)'
  <1>1. Active /\ status = SUCCESS /\ (UNCHANGED session \/ NextRecord)
    BY EngineShapes DEF FailRecord, SUCCESS, FAILURE
  <1>2. /\ recipe' = recipe /\ recipe \in Recipes /\ pos \in DOMAIN recipe /\ pos \in Nat \ {0}
        /\ i \in VerifiesOf(recipe) /\ i \in Nat /\ recipe[pos] \in Record
        /\ DOMAIN recipe = 1..Len(recipe) /\ Len(recipe) \in Nat
        /\ recipe[i].chip \in Chips
    <2>1. recipe' = recipe /\ recipe \in Recipes /\ pos \in DOMAIN recipe /\ recipe[pos] \in Record
      BY <1>1, CurrentRecord DEF session, NextRecord, IndInv, TypeOK
    <2>2. i \in DOMAIN recipe
      BY <2>1 DEF VerifiesOf
    <2>3. DOMAIN recipe = 1..Len(recipe) /\ Len(recipe) \in Nat /\ recipe[i] \in Record
      BY <2>1, <2>2, RecipeFacts
    <2>4. QED
      BY <2>1, <2>2, <2>3 DEF Record
  <1>3. CASE i < pos
    <2>1. Holds(i)
      BY <1>1, <1>2, <1>3 DEF VerifiedInv
    <2>2. Alters(recipe[pos]) => recipe[pos].chip # recipe[i].chip
      <3>1. WellFormed(recipe)
        BY <1>2, RecipesAssumption
      <3>2. pos \in (i + 1)..Len(recipe) /\ recipe[i].type = "VERIFY_EE_DATA" /\ i \in DOMAIN recipe
        BY <1>2, <1>3 DEF VerifiesOf
      <3>3. QED
        BY <3>1, <3>2 DEF WellFormed
    <2>3. eeprom'[recipe[i].chip] = eeprom[recipe[i].chip]
      <3>0. eeprom \in [Chips -> Image] /\ recipe[pos].chip \in Chips
        BY <1>2 DEF IndInv, TypeOK, ChipsType, Record
      <3>1. CASE WriteWord
        <4>1. recipe[pos].type = "WRITE_EE_DATA"
          BY <3>1 DEF WriteWord, IndInv, StepOK, Active
        <4>2. PICK w \in BufferedWord(index) : StoreWord(recipe[pos].chip, w)
          BY <3>1 DEF WriteWord
        <4>3. recipe[pos].chip # recipe[i].chip
          BY <2>2, <4>1 DEF Alters
        <4>4. QED
          BY <1>2, <3>0, <4>2, <4>3 DEF StoreWord
      <3>2. CASE WriteByte
        <4>1. recipe[pos].type = "WRITE_BYTE" /\ recipe[pos].cmd \in Command
          BY <1>2, <3>2 DEF WriteByte, Dispatched, Fetched, Record
        <4>2. CASE recipe[pos].cmd = "EE_UNLOCK"
          BY <3>2, <4>2 DEF WriteByte, UnlockWrite
        <4>3. CASE recipe[pos].cmd = "EE_ERASE"
          <5>1. recipe[pos].chip # recipe[i].chip
            BY <2>2, <4>1, <4>3 DEF Alters
          <5>2. EraseWrite(recipe[pos].chip) \/ UnlockWrite(recipe[pos].chip, "lock")
            BY <3>2, <4>3 DEF WriteByte
          <5>3. QED
            BY <1>2, <3>0, <5>1, <5>2 DEF EraseWrite, UnlockWrite
        <4>4. CASE recipe[pos].cmd \in {"EE_DATA", "OTHER"}
          BY <3>2, <4>4 DEF WriteByte, chips
        <4>5. QED
          BY <4>1, <4>2, <4>3, <4>4 DEF Command
      <3>3. CASE ~WriteWord /\ ~WriteByte
        BY <3>3 DEF EngineStep, SkipRecord, WriteOther, PassOver, Unsupported, ReadExpect, WaitChip,
                    BufferNvmData, WriteNvmData, LockForNvmData, PollWord, ReadThenVerify, ReadWord,
                    ProcessEvent, EndOfRecords, GiveUp, UnlockWrite, FetchWord, chips
      <3>4. QED
        BY <3>1, <3>2, <3>3
    <2>4. QED
      BY <1>2, <2>1, <2>3 DEF Holds, ImageOf, LastBefore
  <1>4. CASE ~(i < pos)
    <2>1. NextRecord /\ i = pos
      BY <1>1, <1>2, <1>4 DEF session, NextRecord
    <2>2. recipe[pos].type = "VERIFY_EE_DATA"
      BY <1>2, <2>1 DEF VerifiesOf
    <2>3. ~SkipRecord
      <3>1. SUFFICES ASSUME SkipRecord PROVE FALSE
        OBVIOUS
      <3>2. PICK j \in 1..(pos - 1) : Opens(j)
        BY <1>2, <2>1 DEF Governed, Opens
      <3>3. ignore_records = FALSE
        BY <1>1, <3>1, <3>2 DEF SkipRecord, SectionInv
      <3>4. QED
        BY <3>1, <3>3 DEF SkipRecord
    <2>4. CASE ReadWord
      <3>1. step = "read" /\ FetchWord(recipe[pos].chip)
        BY <2>4 DEF ReadWord
      <3>2. PICK expected \in BufferedWord(index), actual \in FetchedWord(recipe[pos].chip) :
              actual = expected /\ ~(index < NWords)
        BY <1>2, <2>1, <2>4 DEF ReadWord, session, NextRecord, FailRecord
      <3>3. /\ unlock[recipe[pos].chip] = "open" /\ pointer[recipe[pos].chip] = index
            /\ \A k \in 1..(index - 1) : eeprom[recipe[pos].chip][k] = words[k]
        BY <1>1, <3>1 DEF ComparedInv
      <3>4. buffer = "live" /\ words = ImageOf(recipe, pos)
        BY <1>1, <3>1 DEF BufferLive
      <3>5. eeprom[recipe[pos].chip][index] = words[index]
        BY <3>2, <3>3, <3>4 DEF BufferedWord, FetchedWord
      <3>6. index = NWords /\ NWords \in Nat
        BY <3>2, ConstantsAssumption DEF IndInv, TypeOK, EngineType
      <3>7. \A k \in 1..NWords : eeprom[recipe[pos].chip][k] = words[k]
        BY <3>3, <3>5, <3>6
      <3>8. eeprom[recipe[pos].chip] \in Image /\ words \in Image
        BY <1>2 DEF IndInv, TypeOK, ChipsType, EngineType, Record
      <3>9. eeprom[recipe[pos].chip] = words
        BY <3>7, <3>8, SameImage
      <3>10. eeprom' = eeprom
        BY <3>1 DEF FetchWord
      <3>11. QED
        BY <1>2, <2>1, <3>4, <3>9, <3>10 DEF Holds, ImageOf, LastBefore
    <2>5. CASE ~ReadWord
      <3>1. CASE WriteWord \/ PollWord
        BY <2>2, <3>1 DEF WriteWord, PollWord, IndInv, StepOK, Active
      <3>2. CASE WriteByte \/ WriteOther \/ PassOver \/ Unsupported \/ ReadExpect \/ WaitChip
        BY <2>2, <3>2 DEF WriteByte, WriteOther, PassOver, Unsupported, ReadExpect, WaitChip,
                          Dispatched, Fetched
      <3>3. CASE BufferNvmData \/ WriteNvmData \/ LockForNvmData \/ ProcessEvent \/ EndOfRecords
        BY <2>2, <3>3 DEF BufferNvmData, WriteNvmData, LockForNvmData, ProcessEvent, EndOfRecords,
                          Dispatched, Fetched
      <3>4. ~ReadThenVerify /\ ~GiveUp
        BY <1>1, <1>2, <2>1 DEF ReadThenVerify, GiveUp, session, NextRecord, FailRecord, Return,
                                SUCCESS, FAILURE, Active
      <3>5. QED
        BY <2>3, <2>5, <3>1, <3>2, <3>3, <3>4 DEF EngineStep
    <2>6. QED
      BY <2>4, <2>5
  <1>5. QED
    BY <1>3, <1>4

LEMMA VerifiedStep ==
  ASSUME \A r \in Recipes : Governed(r),
         IndInv, BufferLive, SectionInv, ComparedInv, VerifiedInv, [Next]_vars
  PROVE  VerifiedInv'
  <1>1. CASE EngineStep
    <2>1. Active /\ result = "none"
      BY <1>1, EngineShapes DEF VerifiedInv
    <2>2. ASSUME Active' \/ run' = "dead" PROVE result' = "none"
      BY <1>1, <2>1, <2>2, EngineShapes
      DEF session, NextRecord, FailRecord, GiveUp, EndOfRecords, Return
    <2>3. ASSUME result' = SUCCESS, NEW i \in VerifiesOf(recipe') PROVE Holds(i)'
      <3>1. EndOfRecords
        BY <1>1, <2>1, <2>3, EngineShapes
        DEF session, NextRecord, FailRecord, GiveUp, Return, SUCCESS, FAILURE
      <3>2. recipe' = recipe /\ eeprom' = eeprom /\ status = SUCCESS
            /\ recipe[pos].type = "END_OF_RECORDS"
        BY <3>1 DEF EndOfRecords, Return, Fetched, chips
      <3>3. recipe \in Recipes /\ pos \in DOMAIN recipe /\ i \in DOMAIN recipe
            /\ recipe[i].type = "VERIFY_EE_DATA"
        BY <2>1, <2>3, <3>2, CurrentRecord DEF IndInv, TypeOK, VerifiesOf
      <3>4. pos = Len(recipe) /\ DOMAIN recipe = 1..Len(recipe) /\ Len(recipe) \in Nat
        BY <3>2, <3>3, RecipesAssumption, RecipeFacts DEF WellFormed
      <3>5. i < pos
        BY <3>2, <3>3, <3>4
      <3>6. Holds(i)
        BY <2>1, <2>3, <3>2, <3>5 DEF VerifiedInv
      <3>7. QED
        BY <3>2, <3>6 DEF Holds, ImageOf, LastBefore
    <2>4. QED
      BY <1>1, <2>2, <2>3, VerifiedRun DEF VerifiedInv
  <1>2. CASE ~EngineStep
    <2>1. CASE \E r \in Recipes : StartProgram(r) \/ StartVerify(r)
      <3>1. pos' = 1 /\ result' = "none"
        BY <2>1 DEF StartProgram, StartVerify, StartRun
      <3>2. \A i \in VerifiesOf(recipe') : ~(i < 1)
        <4>1. recipe' \in Recipes
          BY <2>1 DEF StartProgram, StartVerify, StartRun
        <4>2. \A i \in DOMAIN recipe' : DOMAIN recipe' = 1..Len(recipe') /\ Len(recipe') \in Nat
          BY <4>1, RecipeFacts
        <4>3. QED
          BY <4>2 DEF VerifiesOf
      <3>3. QED
        BY <3>1, <3>2 DEF VerifiedInv, SUCCESS
    <2>2. CASE \/ BusError
               \/ ~Active /\ ~Active' /\ run' # "dead" /\ UNCHANGED <<eeprom, recipe, result>>
      <3>1. UNCHANGED <<eeprom, recipe, result>> /\ ~Active' /\ (run' # "dead" \/ result = "none")
        BY <2>2 DEF BusError, chips, Active, VerifiedInv
      <3>2. QED
        BY <3>1 DEF VerifiedInv, Holds, ImageOf, LastBefore
    <2>3. CASE ~Active' /\ result' = "none"
      BY <2>3 DEF VerifiedInv, SUCCESS
    <2>4. CASE UNCHANGED <<session, eeprom>>
      BY <2>4 DEF session, VerifiedInv, Active, Holds, ImageOf, LastBefore
    <2>5. QED
      BY <1>2, <2>1, <2>2, <2>3, <2>4, OtherShapes
  <1>3. QED
    BY <1>1, <1>2

LEMMA SuccessStart == Init => SuccessInv
  BY DEF Init, StaticsInit, SuccessInv, SectionInv, KeyedInv, ComparedInv, VerifiedInv, Active,
         SUCCESS

LEMMA SuccessStep ==
  ASSUME \A r \in Recipes : Governed(r)
  PROVE  IndInv /\ BufferLive /\ SuccessInv /\ [Next]_vars => SuccessInv'
  BY SectionStep, KeyedStep, ComparedStep, VerifiedStep DEF SuccessInv

(* A run that returns success leaves, in every chip that its recipe         *)
(* verifies, the words of the recipe: for every recipe whose verifies stand *)
(* in a section that an event opened and read a chip that the recipe opened, *)
(* after any history of runs, bad cells, failed transfers and restarts.     *)
THEOREM SuccessSound ==
  ASSUME \A r \in Recipes : Governed(r)
  PROVE  Spec => []SuccessMeansProgrammed
  <1>1. IndInv /\ BufferLive /\ SuccessInv /\ [Next]_vars => SuccessInv'
    BY SuccessStep
  <1>2. SuccessInv => SuccessMeansProgrammed
    BY DEF SuccessInv, VerifiedInv, Holds, SuccessMeansProgrammed
  <1>3. QED
    BY SuccessStart, <1>1, <1>2, Inductive, BufferSafe, PTL DEF Spec

-----------------------------------------------------------------------------
(* The engine implements the contract of the NVM class.                    *)

(* A step of the engine changes the EEPROM of one chip at most.            *)
LEMMA OneChip ==
  ASSUME IndInv, EngineStep
  PROVE  \E c \in Chips, e \in Image : eeprom' = [eeprom EXCEPT ![c] = e]
  <1>1. /\ recipe[pos].chip \in Chips /\ recipe[pos].cmd \in Command
        /\ eeprom \in [Chips -> Image]
    BY EngineShapes, CurrentRecord DEF IndInv, TypeOK, ChipsType, Record
  <1>2. eeprom' \in [Chips -> Image]
    BY EngineStepInv DEF IndInv, TypeOK, ChipsType
  <1>3. ASSUME NEW c \in Chips, \A d \in Chips : d # c => eeprom'[d] = eeprom[d]
        PROVE  \E e \in Image : eeprom' = [eeprom EXCEPT ![c] = e]
    BY <1>1, <1>2, <1>3
  <1>4. \A d \in Chips : d # recipe[pos].chip => eeprom'[d] = eeprom[d]
    <2>1. CASE WriteWord
      BY <1>1, <2>1 DEF WriteWord, StoreWord
    <2>2. CASE WriteByte
      BY <1>1, <2>2 DEF WriteByte, UnlockWrite, EraseWrite, Command, chips
    <2>3. CASE ~WriteWord /\ ~WriteByte
      BY <2>3 DEF EngineStep, SkipRecord, WriteOther, PassOver, Unsupported, ReadExpect, WaitChip,
                  BufferNvmData, WriteNvmData, LockForNvmData, PollWord, ReadThenVerify, ReadWord,
                  ProcessEvent, EndOfRecords, GiveUp, UnlockWrite, FetchWord, chips
    <2>4. QED
      BY <2>1, <2>2, <2>3
  <1>5. QED
    BY <1>1, <1>3, <1>4

LEMMA RequiredHolds ==
  ASSUME recipe \in Recipes, \A i \in VerifiesOf(recipe) : Holds(i)
  PROVE  \A c \in DOMAIN RequiredBy(recipe) : eeprom[c] = RequiredBy(recipe)[c]
  <1>1. ASSUME NEW c \in ChipsOf(recipe) PROVE eeprom[c] = RequiredBy(recipe)[c]
    <2>1. \E i \in VerifiesOf(recipe) : recipe[i].chip = c
      BY DEF ChipsOf
    <2> DEFINE i == CHOOSE k \in VerifiesOf(recipe) : recipe[k].chip = c
    <2>2. i \in VerifiesOf(recipe) /\ recipe[i].chip = c
      BY <2>1
    <2>3. RequiredBy(recipe)[c] = ImageOf(recipe, i)
      BY DEF RequiredBy
    <2>4. QED
      BY <2>2, <2>3 DEF Holds
  <1>2. DOMAIN RequiredBy(recipe) = ChipsOf(recipe)
    BY DEF RequiredBy
  <1>3. QED
    BY <1>1, <1>2

LEMMA ContractStep ==
  ASSUME IndInv, VerifiedInv, VerifiedInv', [Next]_vars
  PROVE  [Contract!Next]_Contract!vars
  <1> USE DEF Contract!Next, Contract!vars
  <1>1. CASE EngineStep
    <2>1. Active /\ recipe \in Recipes /\ result = "none"
      BY <1>1, EngineShapes, CurrentRecord DEF IndInv, TypeOK, VerifiedInv
    <2>2. CASE Active'
      <3>1. run' = run /\ recipe' = recipe /\ result' = result
        BY <1>1, <2>2, EngineShapes DEF session, NextRecord, FailRecord
      <3>2. CASE run = "verify"
        <4>1. UNCHANGED eeprom
          BY <1>1, <3>2, VerifyStep DEF Next
        <4>2. QED
          BY <2>1, <2>2, <3>1, <4>1
      <3>3. CASE run # "verify"
        <4>1. Contract!Change
          BY <1>1, <2>1, <2>2, <3>1, <3>3, OneChip DEF Contract!Change, Active
        <4>2. QED
          BY <4>1
      <3>4. QED
        BY <3>2, <3>3
    <2>3. CASE ~Active'
      <3>1. GiveUp \/ EndOfRecords
        BY <1>1, <2>1, <2>3, EngineShapes DEF session, NextRecord, FailRecord, Active
      <3>2. result' \in {"SUCCESS", "FAILURE"} /\ UNCHANGED <<eeprom, recipe>>
        BY <3>1 DEF GiveUp, EndOfRecords, Return, SUCCESS, FAILURE, chips
      <3>3. result' = "SUCCESS" => Contract!Satisfied
        <4>1. SUFFICES ASSUME result' = "SUCCESS" PROVE Contract!Satisfied
          OBVIOUS
        <4>2. \A i \in VerifiesOf(recipe) : Holds(i)
          BY <3>2, <4>1 DEF VerifiedInv, Holds, SUCCESS, ImageOf, LastBefore
        <4>3. QED
          BY <2>1, <4>2, RequiredHolds DEF Contract!Satisfied
      <3>4. Contract!Finish(result')
        BY <2>1, <2>3, <3>2, <3>3 DEF Contract!Finish, Active
      <3>5. QED
        BY <3>2, <3>4
    <2>4. QED
      BY <2>2, <2>3
  <1>2. CASE ~EngineStep
    <2>1. CASE \E r \in Recipes : (StartProgram(r) \/ StartVerify(r)) /\ ~Active
      <3>1. PICK r \in Recipes : (StartProgram(r) \/ StartVerify(r)) /\ ~Active
        BY <2>1
      <3>2. /\ run' \in {"program", "verify"} /\ recipe' = r /\ result' = "none"
            /\ UNCHANGED eeprom
        BY <3>1 DEF StartProgram, StartVerify, StartRun, chips
      <3>3. Contract!Begin(run', r)
        BY <3>1, <3>2 DEF Contract!Begin, Active
      <3>4. QED
        BY <3>2, <3>3
    <2>2. CASE AfterProgram \/ AfterVerify \/ Restart
      <3>1. CASE Restart
        BY <3>1 DEF Restart, VerifiedInv, Active, chips
      <3>2. CASE AfterVerify
        BY <3>2 DEF AfterVerify, Active
      <3>3. CASE AfterProgram
        <4>1. CASE StartVerify(recipe)
          BY <2>1, <3>3, <4>1 DEF AfterProgram, IndInv, TypeOK, SessionType, Active
        <4>2. CASE run' = "idle" /\ UNCHANGED <<recipe, pos, status, result, engine, chips>>
          BY <3>3, <4>2 DEF AfterProgram, Active, chips
        <4>3. QED
          BY <3>3, <4>1, <4>2 DEF AfterProgram
      <3>4. QED
        BY <2>2, <3>1, <3>2, <3>3
    <2>3. CASE BusError
      <3>1. Contract!Abandon
        BY <2>3 DEF Contract!Abandon, BusError, Active, chips
      <3>2. QED
        BY <3>1
    <2>4. CASE (\E c \in Chips : Settle(c)) \/ UNCHANGED vars
      BY <2>4 DEF Settle, vars, session, chips, Active
    <2>5. CASE \E r \in Recipes : MenuCommand(r)
      BY <2>1, <2>5 DEF MenuCommand, Active
    <2>6. QED
      BY <1>2, <2>2, <2>3, <2>4, <2>5 DEF Next
  <1>3. QED
    BY <1>1, <1>2

(* Programming and verifying keep the contract of LT_Nvm.h for every recipe *)
(* that is governed: only a program run changes an EEPROM, and true is      *)
(* returned only when the chips hold what the data say.                    *)
THEOREM ContractKept ==
  ASSUME \A r \in Recipes : Governed(r)
  PROVE  Spec => ImplementsContract
  <1>1. Init => Contract!Init /\ SuccessInv
    <2>1. Init => SuccessInv
      BY SuccessStart
    <2>2. Init => Contract!Init
      BY NoWordsInImage DEF Init, Contract!Init, Active
    <2>3. QED
      BY <2>1, <2>2
  <1>2. IndInv /\ SuccessInv /\ SuccessInv' /\ [Next]_vars => [Contract!Next]_Contract!vars
    BY ContractStep DEF SuccessInv
  <1>3. IndInv /\ BufferLive /\ SuccessInv /\ [Next]_vars => SuccessInv'
    BY SuccessStep
  <1>4. QED
    BY <1>1, <1>2, <1>3, Inductive, BufferSafe, PTL DEF Spec, ImplementsContract, Contract!Spec
-----------------------------------------------------------------------------
(* No transfer meets a busy chip.  While the run heeds its records, a chip  *)
(* that a record polled is ready until a record occupies it, except the     *)
(* chip of a handler that loops: that one is ready whenever the next word   *)
(* goes out.                                                               *)
ReadyInv ==
  /\ ~overrun
  /\ Active /\ step = "write" => ~busy[recipe[pos].chip]
  /\ Active /\ status = SUCCESS /\ Heeded =>
       \A c \in Chips, j \in 1..(pos - 1) :
         Ready(recipe, pos, c, j) /\ (step # "none" => c # recipe[pos].chip) => ~busy[c]

(* The steps that occupy a chip, and what they find it to be.              *)
LEMMA OccupyingStep ==
  ASSUME \A r \in Recipes : Polled(r), IndInv, ReadyInv, EngineStep
  PROVE  \/ UNCHANGED <<busy, overrun>>
         \/ /\ Occupy(recipe[pos].chip) /\ ~busy[recipe[pos].chip]
            /\ Occupies(recipe[pos], recipe[pos].chip)
            /\ step' # "write"
  <1> USE DEF IndInv, TypeOK
  <1>1. /\ Active /\ recipe \in Recipes /\ pos \in DOMAIN recipe
        /\ recipe[pos].chip \in Chips /\ recipe[pos].cmd \in Command
    BY EngineShapes, CurrentRecord DEF Record
  <1>2. ASSUME status = SUCCESS, step = "none", Heeded, Unpolled(recipe[pos])
        PROVE  ~busy[recipe[pos].chip]
    <2>1. PICK j \in 1..(pos - 1) : Ready(recipe, pos, recipe[pos].chip, j)
      BY <1>1, <1>2 DEF Polled
    <2>2. QED
      BY <1>1, <1>2, <2>1 DEF ReadyInv
  <1>3. CASE WriteByte
    <2>1. /\ recipe[pos].type = "WRITE_BYTE" /\ status = SUCCESS /\ step = "none"
          /\ Heeded /\ step' = "none"
      BY <1>1, <1>3 DEF WriteByte, Dispatched, Fetched, Heeded, Active, engine
    <2>2. CASE recipe[pos].cmd \in {"EE_UNLOCK", "EE_ERASE"}
      <3>1. Occupy(recipe[pos].chip)
        BY <1>3, <2>2 DEF WriteByte, UnlockWrite, EraseWrite
      <3>2. Unpolled(recipe[pos])
        BY <2>1, <2>2 DEF Unpolled
      <3>3. QED
        BY <1>2, <2>1, <3>1, <3>2 DEF Occupies
    <2>3. CASE recipe[pos].cmd \in {"EE_DATA", "OTHER"}
      BY <1>3, <2>3 DEF WriteByte, chips
    <2>4. QED
      BY <1>1, <2>2, <2>3 DEF Command
  <1>4. CASE ReadExpect
    <2>1. /\ recipe[pos].type = "READ_EXPECT" /\ status = SUCCESS /\ step = "none"
          /\ Heeded /\ step' = "none"
      BY <1>1, <1>4 DEF ReadExpect, Dispatched, Fetched, Heeded, Active, engine
    <2>2. CASE recipe[pos].cmd = "EE_DATA"
      <3>1. Occupy(recipe[pos].chip) /\ Unpolled(recipe[pos])
        BY <1>4, <2>1, <2>2 DEF ReadExpect, Unpolled
      <3>2. QED
        BY <1>2, <2>1, <3>1 DEF Occupies
    <2>3. CASE recipe[pos].cmd # "EE_DATA"
      BY <1>4, <2>3 DEF ReadExpect, chips
    <2>4. QED
      BY <2>2, <2>3
  <1>5. CASE LockForNvmData
    <2>1. /\ recipe[pos].type = "WRITE_EE_DATA" /\ status = SUCCESS /\ step = "none"
          /\ Heeded /\ step' = "none" /\ Occupy(recipe[pos].chip)
      BY <1>1, <1>5 DEF LockForNvmData, UnlockWrite, Dispatched, Fetched, Heeded, Active, engine
    <2>2. QED
      BY <1>2, <2>1 DEF Unpolled, Occupies
  <1>6. CASE WriteWord
    <2>1. recipe[pos].type = "WRITE_EE_DATA" /\ ~busy[recipe[pos].chip]
      BY <1>1, <1>6 DEF WriteWord, StepOK, Active, ReadyInv
    <2>2. Occupy(recipe[pos].chip) /\ step' = "poll"
      BY <1>6 DEF WriteWord, StoreWord
    <2>3. QED
      BY <2>1, <2>2 DEF Occupies, Unpolled
  <1>7. CASE ReadWord
    <2>1. recipe[pos].type = "VERIFY_EE_DATA" /\ ~busy[recipe[pos].chip]
      BY <1>1, <1>7 DEF ReadWord, StepOK, Active
    <2>2. Occupy(recipe[pos].chip) /\ step' # "write"
      BY <1>7 DEF ReadWord, FetchWord
    <2>3. QED
      BY <2>1, <2>2 DEF Occupies
  <1>8. CASE SkipRecord \/ WriteOther \/ PassOver \/ Unsupported \/ WaitChip \/ BufferNvmData
             \/ WriteNvmData \/ PollWord \/ ReadThenVerify \/ ProcessEvent \/ EndOfRecords \/ GiveUp
    BY <1>8 DEF SkipRecord, WriteOther, PassOver, Unsupported, WaitChip, BufferNvmData,
                WriteNvmData, PollWord, ReadThenVerify, ProcessEvent, EndOfRecords, GiveUp, chips
  <1>9. QED
    BY <1>3, <1>4, <1>5, <1>6, <1>7, <1>8 DEF EngineStep

(* The steps that begin or go on with a handler that loops.                *)
LEMMA LoopingStep ==
  ASSUME IndInv, EngineStep, UNCHANGED session
  PROVE  step' # "none" /\ recipe[pos].type \in {"WRITE_EE_DATA", "VERIFY_EE_DATA"}
  <1>1. pos \in Nat /\ pos' = pos /\ status' = status /\ run' = run
    BY DEF session, IndInv, TypeOK, SessionType
  <1>2. ~NextRecord
    BY <1>1 DEF NextRecord
  <1>3. ASSUME FailRecord, status = SUCCESS PROVE FALSE
    BY <1>1, <1>3 DEF FailRecord, SUCCESS, FAILURE
  <1>4. ~Return(SUCCESS) /\ ~Return(FAILURE)
    BY <1>1, EngineShapes DEF Return, Active
  <1>5. ~(SkipRecord \/ WriteByte \/ WriteOther \/ PassOver \/ Unsupported \/ ReadExpect
          \/ WaitChip \/ BufferNvmData \/ LockForNvmData \/ ProcessEvent)
    BY <1>2, <1>3 DEF SkipRecord, WriteByte, WriteOther, PassOver, Unsupported, ReadExpect,
                      WaitChip, BufferNvmData, LockForNvmData, ProcessEvent, Dispatched, Fetched
  <1>6. ~(EndOfRecords \/ GiveUp)
    BY <1>4 DEF EndOfRecords, GiveUp
  <1>7. CASE WriteNvmData \/ ReadThenVerify
    BY <1>3, <1>7 DEF WriteNvmData, ReadThenVerify, Dispatched, Fetched
  <1>8. CASE WriteWord \/ PollWord
    BY <1>2, <1>8 DEF WriteWord, PollWord, IndInv, StepOK, Active
  <1>9. CASE ReadWord
    <2>1. status = SUCCESS /\ recipe[pos].type = "VERIFY_EE_DATA" /\ step = "read"
      BY <1>9 DEF ReadWord, IndInv, StepOK, Active
    <2>2. step' = step
      BY <1>2, <1>3, <1>9, <2>1 DEF ReadWord
    <2>3. QED
      BY <2>1, <2>2
  <1>10. QED
    BY <1>5, <1>6, <1>7, <1>8, <1>9 DEF EngineStep

(* A record that the run heeds and that polls leaves its chip ready.       *)
LEMMA PollingStep ==
  ASSUME IndInv, EngineStep, Heeded, recipe[pos].type = "READ_LOOP", NextRecord
  PROVE  ~busy[recipe[pos].chip] /\ UNCHANGED busy
  <1>1. CASE WaitChip
    BY <1>1 DEF WaitChip, chips
  <1>2. ~(WriteWord \/ PollWord \/ ReadWord)
    BY DEF WriteWord, PollWord, ReadWord, IndInv, StepOK, Active
  <1>3. ~(SkipRecord \/ WriteByte \/ WriteOther \/ PassOver \/ Unsupported \/ ReadExpect)
    BY DEF SkipRecord, WriteByte, WriteOther, PassOver, Unsupported, ReadExpect, Dispatched,
           Fetched, Heeded
  <1>4. ~(BufferNvmData \/ WriteNvmData \/ LockForNvmData \/ ReadThenVerify \/ ProcessEvent)
    BY DEF BufferNvmData, WriteNvmData, LockForNvmData, ReadThenVerify, ProcessEvent, Dispatched,
           Fetched
  <1>5. ~(EndOfRecords \/ GiveUp)
    BY EngineShapes DEF EndOfRecords, GiveUp, Return, NextRecord, Active
  <1>6. QED
    BY <1>1, <1>2, <1>3, <1>4, <1>5 DEF EngineStep

LEMMA ReadyEngineStep ==
  ASSUME \A r \in Recipes : Polled(r), IndInv, ReadyInv, EngineStep
  PROVE  ReadyInv'
  <1>0. /\ Active /\ recipe \in Recipes /\ pos \in Nat \ {0} /\ recipe[pos].chip \in Chips
        /\ busy \in [Chips -> BOOLEAN]
    BY EngineShapes, CurrentRecord DEF IndInv, TypeOK, SessionType, ChipsType
  <1>1. ~overrun'
    BY OccupyingStep DEF ReadyInv, Occupy
  <1>2. ASSUME step' = "write" PROVE ~busy'[recipe'[pos'].chip]
    <2>1. CASE WriteNvmData
      <3>1. /\ Heeded /\ status = SUCCESS /\ step = "none"
            /\ Unpolled(recipe[pos]) /\ UNCHANGED <<session, chips>>
        BY <2>1 DEF WriteNvmData, Dispatched, Fetched, Heeded, Unpolled
      <3>2. PICK j \in 1..(pos - 1) : Ready(recipe, pos, recipe[pos].chip, j)
        BY <1>0, <3>1, RecipeFacts, CurrentRecord DEF Polled, IndInv, TypeOK
      <3>3. QED
        BY <1>0, <3>1, <3>2 DEF ReadyInv, session, chips
    <2>2. CASE PollWord
      BY <1>2, <2>2 DEF PollWord, session, chips
    <2>3. ~(WriteWord \/ ReadWord \/ ReadThenVerify)
      <3>1. ~WriteWord
        BY <1>2 DEF WriteWord
      <3>2. ReadWord => step' \in {"none", "read"}
        BY DEF ReadWord
      <3>3. ReadThenVerify => step' \in {"none", "read"}
        BY DEF ReadThenVerify, Dispatched, Fetched
      <3>4. QED
        BY <1>2, <3>1, <3>2, <3>3
    <2>4. ~(SkipRecord \/ WriteByte \/ WriteOther \/ PassOver \/ Unsupported \/ ReadExpect
            \/ WaitChip \/ BufferNvmData \/ LockForNvmData \/ ProcessEvent \/ EndOfRecords)
      BY <1>2 DEF SkipRecord, WriteByte, WriteOther, PassOver, Unsupported, ReadExpect, WaitChip,
                  BufferNvmData, LockForNvmData, ProcessEvent, EndOfRecords, Dispatched, Fetched,
                  engine
    <2>5. ~GiveUp
      BY <1>0, <1>2 DEF GiveUp, IndInv, StepOK, Active, SUCCESS, FAILURE, engine
    <2>6. QED
      BY <2>1, <2>2, <2>3, <2>4, <2>5 DEF EngineStep
  <1>3. ASSUME Active', status' = SUCCESS, Heeded', NEW c \in Chips, NEW j \in 1..(pos' - 1),
               Ready(recipe', pos', c, j), step' # "none" => c # recipe'[pos'].chip
        PROVE  ~busy'[c]
    <2>1. status = SUCCESS /\ (UNCHANGED session \/ NextRecord)
      BY <1>3, EngineShapes DEF FailRecord, SUCCESS, FAILURE
    <2>2. recipe' = recipe /\ run' = run
      BY <2>1 DEF session, NextRecord
    <2>3. CASE UNCHANGED session
      <3>1. pos' = pos /\ step' # "none" /\ c # recipe[pos].chip
        BY <1>3, <2>2, <2>3, LoopingStep DEF session
      <3>2. UNCHANGED ignore_records
        BY <1>0, <2>3, <2>1, EngineShapes, LoopingStep DEF ProcessEvent, EndOfRecords, Fetched
      <3>3. ~busy[c]
        BY <1>3, <2>1, <2>2, <3>1, <3>2, <1>0 DEF ReadyInv, Heeded
      <3>4. QED
        BY <1>0, <3>1, <3>3, OccupyingStep DEF Occupy
    <2>4. CASE NextRecord
      <3>1. pos' = pos + 1
        BY <2>4 DEF NextRecord
      <3>2. recipe[pos].type # "EVENT"
        BY <1>0, <1>3, <2>2, <3>1 DEF Ready
      <3>3. UNCHANGED ignore_records
        <4>1. ~ProcessEvent
          BY <3>2 DEF ProcessEvent, Fetched
        <4>2. ~EndOfRecords
          BY <1>3 DEF EndOfRecords, Return, Active
        <4>3. QED
          BY <4>1, <4>2, EngineShapes
      <3>4. Heeded
        BY <1>3, <2>2, <3>3 DEF Heeded
      <3>5. CASE j = pos
        <4>1. recipe[pos].type = "READ_LOOP" /\ c = recipe[pos].chip
          BY <1>3, <2>2, <3>5 DEF Ready
        <4>2. QED
          BY <2>4, <3>4, <4>1, PollingStep
      <3>6. CASE j # pos
        <4>1. j \in 1..(pos - 1) /\ pos \in (j + 1)..(pos' - 1)
          BY <1>0, <1>3, <3>1, <3>6
        <4>2. ~Occupies(recipe[pos], c) /\ Ready(recipe, pos, c, j)
          BY <1>0, <1>3, <2>2, <3>1, <4>1 DEF Ready
        <4>3. step # "none" => c # recipe[pos].chip
          BY <1>0, <4>2 DEF IndInv, TypeOK, EngineType, StepOK, Occupies, Unpolled, Active
        <4>4. ~busy[c]
          BY <1>0, <2>1, <3>4, <4>1, <4>2, <4>3 DEF ReadyInv
        <4>5. c = recipe[pos].chip => UNCHANGED busy
          BY <4>2, OccupyingStep
        <4>6. QED
          BY <1>0, <4>4, <4>5, OccupyingStep DEF Occupy
      <3>7. QED
        BY <3>5, <3>6
    <2>5. QED
      BY <2>1, <2>3, <2>4
  <1>4. QED
    BY <1>1, <1>2, <1>3 DEF ReadyInv

LEMMA ReadyOtherStep == IndInv /\ ReadyInv /\ [Next]_vars /\ ~EngineStep => ReadyInv'
  <1> SUFFICES ASSUME IndInv, ReadyInv, [Next]_vars, ~EngineStep PROVE ReadyInv'
    OBVIOUS
  <1>1. overrun' = overrun
    BY DEF Next, MenuCommand, StartProgram, StartVerify, AfterProgram, AfterVerify, BusError,
           Restart, Settle, vars, chips
  <1>2. CASE \E r \in Recipes : /\ StartProgram(r) \/ StartVerify(r)
                                /\ step = "none" /\ ~Active
    <2>1. pos' = 1 /\ step' = "none"
      BY <1>2 DEF StartProgram, StartVerify, StartRun, engine
    <2>2. QED
      BY <1>1, <2>1 DEF ReadyInv
  <1>3. CASE ~Active' \/ BusError
    BY <1>1, <1>3 DEF ReadyInv, BusError, Active
  <1>4. CASE UNCHANGED <<session, engine, eeprom, unlock, pointer>> /\ Active
    <2>1. \A c \in Chips : ~busy[c] => ~busy'[c]
      BY <1>4, OtherShapes DEF Next, MenuCommand, AfterProgram, AfterVerify, BusError, Restart,
                               Settle, Active, IndInv, TypeOK, ChipsType, vars, chips, session
    <2>2. recipe[pos].chip \in Chips
      BY <1>4, CurrentRecord DEF IndInv, TypeOK
    <2>3. QED
      BY <1>1, <1>4, <2>1, <2>2 DEF ReadyInv, session, engine, Active, Heeded
  <1>5. QED
    BY <1>2, <1>3, <1>4, OtherShapes DEF session, Active

(* No MFR_EE_* transfer reaches a chip that still works on the last one,    *)
(* for every recipe that polls a chip before each record that occupies it   *)
(* unasked: whatever sections a verify run skips, and whatever a failed run, *)
(* a failed transfer or a restart left the chips doing.                    *)
THEOREM NoOverrun ==
  ASSUME \A r \in Recipes : Polled(r)
  PROVE  Spec => []NeverOverrun
  <1>1. Init => ReadyInv
    BY DEF Init, StaticsInit, ReadyInv, Active
  <1>2. IndInv /\ ReadyInv /\ [Next]_vars => ReadyInv'
    BY ReadyEngineStep, ReadyOtherStep
  <1>3. ReadyInv => NeverOverrun
    BY DEF ReadyInv, NeverOverrun
  <1>4. QED
    BY <1>1, <1>2, <1>3, Inductive, PTL DEF Spec
=============================================================================
