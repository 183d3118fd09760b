----------------------------- MODULE RecipeFile -----------------------------
(***************************************************************************)
(* From the hex file of a recipe to the registers it sets: the parser       *)
(* (hex_file_parser.cpp), its source (LT_Nvm.cpp), and the handlers of       *)
(* RecordHandlers behind them.                                             *)
(*                                                                         *)
(* A file holds the bytes of the records, cut into lines without regard to  *)
(* where a record ends.  The parser keeps the rest of a line, and its place *)
(* in it, in statics that outlive the run; a record is as long as its type  *)
(* makes the parser think, and its fields are taken in the order in which   *)
(* the parser names them.  The bytes a line says it has are there, its sum  *)
(* is not looked at, and the file ends with an end line.                   *)
(***************************************************************************)
EXTENDS RecordHandlers, Sequences

CONSTANTS Recipes,    \* the recipes on file, sequences of records
          LineSizes,  \* how many bytes a line of a file may hold
          MaxRuns     \* the runs of a session (a bound)

Pow2(n) == LET pow[k \in 0..n] == IF k = 0 THEN 1 ELSE 2 * pow[k - 1] IN pow[n]

(* A word as the set of its bits, and back.                                *)
AsBits(n) == {b \in Bits : (n \div Pow2(b)) % 2 = 1}
AsNumber(bits) == LET sum[k \in 0..16] == IF k = 0 THEN 0
                                          ELSE sum[k - 1] + (IF k - 1 \in bits THEN Pow2(k - 1) ELSE 0)
                  IN  sum[16]

(* Mutant of LowHigh: the low byte is not cut off.                         *)
LowHighWhole(n) == <<n, n \div 256>>

(* A word in the file, low byte first.                                     *)
LowHigh(n) == <<n % 256, n \div 256>>

-----------------------------------------------------------------------------
(* The structs of the records: which begin with a device address and a      *)
(* command, which of these say whether to use PEC, and which go on with a   *)
(* mask, with a value, and in words.                                       *)
Addressed == Writes \cup Sends \cup Expects \cup MaskedExpects \cup Loops \cup Modifies
               \cup {PollAck, NvmData, WriteEeData, VerifyEeData, EndOfRecords}
WithPec == {1, 2, 4, 5, NvmData, 10, 11, 14, 28, 29, WriteEeData, VerifyEeData, 32, 33, EndOfRecords}
WithMask == MaskedExpects \cup Loops \cup Modifies
WithValue == WithMask \cup Writes \cup Expects \cup {PollAck, NvmData}
Wide == {2, 5, NvmData, 11, PollAck, 16, 19, 22, 26, 28, 33}

(* The parser takes mask and value of 0x1A in the other order, and of 0x1C   *)
(* and 0x1D does not take the byte that says whether to use PEC.           *)
SwappedMask == 26
PecUnread == {28, 29}
PecRead == WithPec \ PecUnread

(* Those that hold one word, and those that hold two.                      *)
OneWord == {8, 13, 24}
TwoWords == {0, MetaData}

Field(t, bits) == IF t \in Wide THEN LowHigh(AsNumber(bits)) ELSE <<AsNumber(bits)>>

(* A record as its packed struct lays it out, behind the two words of its    *)
(* header.  A block of NVM data holds one word.                            *)
Body(r) ==
  IF r.type \in Addressed
    THEN LowHigh(r.address) \o <<r.command>>
           \o (IF r.type \in WithPec THEN <<IF r.pec THEN 1 ELSE 0>> ELSE <<>>)
           \o (IF r.type \in WithMask THEN Field(r.type, r.mask) ELSE <<>>)
           \o (IF r.type \in WithValue THEN Field(r.type, r.value) ELSE <<>>)
    ELSE LowHigh(r.command)
           \o (IF r.type \in OneWord THEN <<>> ELSE LowHigh(AsNumber(r.value)))

Struct(r) == LowHigh(4 + Len(Body(r))) \o LowHigh(r.type) \o Body(r)

AllBytes(recipe) == LET bytes[n \in 0..Len(recipe)] == IF n = 0 THEN <<>>
                                                       ELSE bytes[n - 1] \o Struct(recipe[n])
                    IN  bytes[Len(recipe)]

(* The lines of the file: data lines of at most n bytes, and the end line.  *)
DataLine(bytes) == [type |-> 0, data |-> bytes]
EndLine == [type |-> 1, data |-> <<>>]
LineEnd(bytes, i, n) == IF i * n < Len(bytes) THEN i * n ELSE Len(bytes)
Lines(recipe, n) ==
  LET bytes == AllBytes(recipe)
  IN  [i \in 1..((Len(bytes) + n - 1) \div n) |->
         DataLine(SubSeq(bytes, (i - 1) * n + 1, LineEnd(bytes, i, n)))] \o <<EndLine>>

(* Its characters: a line has its mark, sizes and sum.  flashLocation has    *)
(* 16 bits, so that a longer file would be read from its start again.       *)
Characters(lines) == LET sum[n \in 0..Len(lines)] ==
                           IF n = 0 THEN 0 ELSE sum[n - 1] + 11 + 2 * Len(lines[n].data)
                     IN  sum[Len(lines)]

(* A record has the fields of its struct, no more bits than a byte holds     *)
(* where the struct has bytes, and registers that it reads are there; the    *)
(* port that NVM data goes through is none of them.                        *)
Packable(q) == /\ q.type \notin Addressed => q.address = 0
               /\ q.type \notin PecRead => ~q.pec
               /\ q.type \notin WithMask => q.mask = {}
               /\ q.type \in (Addressed \ WithValue) \cup OneWord => q.value = {}
               /\ q.type \in Addressed \ Wide => q.mask \cup q.value \subseteq 0..7
               /\ q.type \in Expects \cup WithMask => Of(q) \in Registers
               /\ q.type \in {WriteEeData, VerifyEeData} =>
                    Of(q) \notin Registers /\ <<q.address, MfrCommon>> \in Registers

(* A recipe writes NVM data while its words are there: after they were       *)
(* buffered, and before they were compared, which frees them.              *)
Buffered(p) == \A i \in DOMAIN p : p[i].type = WriteEeData =>
                 \E j \in 1..(i - 1) : /\ p[j].type = NvmData
                                       /\ \A k \in j..i : p[k].type # VerifyEeData

ASSUME RecipesAssumption ==
  /\ MaxRuns \in Nat /\ LineSizes \subseteq 1..255
  /\ \A r \in Recipes : /\ r \in Seq(Record)
                        /\ \A i \in DOMAIN r : r[i].type # EndOfRecords /\ Packable(r[i])
                        /\ Buffered(r)
                        /\ \A n \in LineSizes : Characters(Lines(r, n)) < Pow2(16)

-----------------------------------------------------------------------------
VARIABLES
  recipe,               \* the recipe on the file of the last run
  icpData,              \* the lines of that file
  flashLocation,        \* how many of them were read
  parse_data,           \* the bytes of the last line
  parse_data_position,  \* how many of them were taken
  data,                 \* the bytes of the record under way: data
  got,                  \* the records delivered in this run
  skipped,              \* the places in the recipe of those it ignored
  result,               \* what the last run returned
  runs                  \* how many runs there were

parser == <<parse_data, parse_data_position>>
file == <<recipe, icpData, flashLocation>>
vars == <<handlerVars, file, parser, data, got, skipped, result, runs>>

TypeOK == /\ HandlerType
          /\ recipe \in Recipes \cup {<<>>}
          /\ \A i \in DOMAIN icpData : icpData[i].type \in {0, 1}
          /\ flashLocation \in Nat
          /\ \A i \in DOMAIN parse_data : parse_data[i] \in Byte
          /\ parse_data_position \in 0..Len(parse_data)
          /\ \A i \in DOMAIN data : data[i] \in Byte
          /\ \A i \in DOMAIN got : got[i] \in Record
          /\ skipped \subseteq DOMAIN got
          /\ result \in {"none", "SUCCESS", "FAILURE"}
          /\ runs \in 0..MaxRuns

Init == /\ HandlerInit
        /\ recipe = <<>> /\ icpData = <<>> /\ flashLocation = 0
        /\ parse_data = <<>> /\ parse_data_position = 0
        /\ data = <<>> /\ got = <<>> /\ skipped = {}
        /\ result = "none" /\ runs = 0

-----------------------------------------------------------------------------
(* Mutant of ResetParseHex: the rest of the line stays.                    *)
ResetNothing == UNCHANGED parser

(* reset_parse_hex, before and after each run.                             *)
ResetParseHex == parse_data' = <<>> /\ parse_data_position' = 0

(* programWithData, verifyWithData and those with a file: icpData is the    *)
(* file without what stands outside of its lines.                          *)
Start(loop, r, n) == /\ run = "idle" /\ runs < MaxRuns
                     /\ run' = loop
                     /\ recipe' = r
                     /\ icpData' = Lines(r, n)
                     /\ flashLocation' = 0
                     /\ ResetParseHex
                     /\ data' = <<>> /\ got' = <<>> /\ skipped' = {}
                     /\ status' = TRUE
                     /\ verification_in_progress' = (verification_in_progress \/ loop = "verify")
                     /\ result' = "none"
                     /\ runs' = runs + 1
                     /\ UNCHANGED <<handler, reg, ignore_records, nWords, nvram_somethingToVerify>>

(* "Can't open": the run fails before it begins.                           *)
CantOpen == /\ run = "idle" /\ runs < MaxRuns
            /\ result' = "FAILURE"
            /\ got' = <<>> /\ skipped' = {}
            /\ runs' = runs + 1
            /\ UNCHANGED <<handlerVars, file, parser, data>>

(* The run returns; a verify run that fails still leaves its mark.         *)
End(outcome) == /\ run' = "idle"
                /\ rec' = NoRecord
                /\ result' = outcome
                /\ verification_in_progress' = (verification_in_progress
                                                 /\ ~(run = "verify" /\ outcome = "SUCCESS"))
                /\ ResetParseHex
                /\ UNCHANGED <<file, step, old, status, reg, ignore_records, nWords,
                               nvram_somethingToVerify, runs>>

(* The bytes parse_hex makes of a line: the end line stands for an end       *)
(* record.  Behind the end of the file there is anything; here, zeros.      *)
EndRecord == <<4, 0, EndOfRecords, 0, 0, 0, 0, 0>>
Loaded(n) == IF n > Len(icpData) THEN <<0>>
             ELSE IF icpData[n].type = 1 THEN EndRecord
             ELSE icpData[n].data

(* The next byte is parse_data'[parse_data_position'].                     *)
parse_hex ==
  IF parse_data_position = Len(parse_data)
    THEN /\ parse_data' = Loaded(flashLocation + 1)
         /\ flashLocation' = flashLocation + 1
         /\ parse_data_position' = 1
    ELSE /\ parse_data_position' = parse_data_position + 1
         /\ UNCHANGED <<parse_data, flashLocation>>

WordAt(i) == data[i] + 256 * data[i + 1]
Width(t) == IF t \in Wide THEN 2 ELSE 1

(* Mutant of Taken: structs of an even number of bytes, as if not packed.   *)
TakenPadded(t, length) ==
  IF t \in Addressed
    THEN LET n == 7 + (IF t \in PecRead THEN 1 ELSE 0) + (IF t \in WithMask THEN Width(t) ELSE 0)
                    + (IF t \in WithValue THEN Width(t) ELSE 0)
         IN  n + (n % 2)
    ELSE IF t \in OneWord THEN 6 ELSE 8

(* The bytes that parse_record takes for a record of type t.               *)
Taken(t, length) ==
  IF t \in Addressed \ {NvmData}
    THEN 7 + (IF t \in PecRead THEN 1 ELSE 0) + (IF t \in WithMask THEN Width(t) ELSE 0)
           + (IF t \in WithValue THEN Width(t) ELSE 0)
    ELSE IF t \in OneWord THEN 6
    ELSE IF t \in TwoWords THEN 8
    ELSE length

Complete == Len(data) >= 4 /\ Len(data) = Taken(WordAt(3), WordAt(1))

(* The record that parse_record returns.                                   *)
Parsed ==
  LET t == WordAt(3)
      first == IF t \in PecRead THEN 9 ELSE 8
      second == first + (IF t \in WithMask THEN Width(t) ELSE 0)
      value(i) == AsBits(IF t \in Wide THEN WordAt(i) ELSE data[i])
      maskAt == IF t = SwappedMask THEN second ELSE first
      valueAt == IF t = SwappedMask THEN first ELSE second
  IN  IF t \in Addressed
        THEN [type |-> t, address |-> WordAt(5), command |-> data[7],
              pec |-> t \in PecRead /\ data[8] # 0,
              mask |-> IF t \in WithMask THEN value(maskAt) ELSE {},
              value |-> IF t \in WithValue THEN value(valueAt) ELSE {}]
        ELSE [type |-> t, address |-> 0, command |-> data[5], pec |-> FALSE, mask |-> {},
              value |-> IF Len(data) >= 8 THEN AsBits(WordAt(7)) ELSE {}]

(* get_record_data, called by parse_record for one byte after the other.   *)
GetByte == /\ run # "idle" /\ step = "none" /\ ~Complete
           /\ parse_hex
           /\ data' = Append(data, parse_data'[parse_data_position'])
           /\ UNCHANGED <<handlerVars, recipe, icpData, got, skipped, result, runs>>

(* get_record returns.  The loop fetches a record before it looks whether   *)
(* the last one succeeded.                                                 *)
ProcessRecord == /\ run # "idle" /\ step = "none" /\ Complete
                 /\ data' = <<>>
                 /\ got' = Append(got, Parsed) /\ skipped' = skipped
                 /\ IF ~status THEN End("FAILURE")
                    ELSE IF Parsed.type = EndOfRecords THEN End("SUCCESS")
                    ELSE /\ rec' = Parsed
                         /\ step' = "start"
                         /\ UNCHANGED <<run, old, status, reg, statics, file, parser, result, runs>>

HandleRecord == Handle /\ UNCHANGED <<file, parser, data, got, skipped, result, runs>>

SkipRecord == /\ Ignore
              /\ skipped' = skipped \cup {Len(got)}
              /\ UNCHANGED <<file, parser, data, got, result, runs>>

(* A transfer fails and ends the process; a new one has new statics.       *)
BusError == /\ step # "none"
            /\ run' = "idle" /\ rec' = NoRecord /\ step' = "none" /\ old' = {}
            /\ parse_data' = <<>> /\ parse_data_position' = 0
            /\ recipe' = <<>> /\ icpData' = <<>> /\ flashLocation' = 0
            /\ data' = <<>> /\ got' = <<>> /\ skipped' = {}
            /\ status' = TRUE /\ result' = "none"
            /\ verification_in_progress' = FALSE /\ ignore_records' = FALSE
            /\ nWords' = 0 /\ nvram_somethingToVerify' = FALSE
            /\ UNCHANGED <<reg, runs>>

(* The user may be done.                                                   *)
Quit == run = "idle" /\ runs = MaxRuns /\ UNCHANGED vars

Next == \/ \E loop \in {"program", "verify"}, r \in Recipes, n \in LineSizes : Start(loop, r, n)
        \/ CantOpen
        \/ GetByte \/ ProcessRecord \/ HandleRecord \/ SkipRecord
        \/ \E r \in Status, bits \in {{}, {NotBusy}} :
             Settle(r, bits) /\ UNCHANGED <<file, parser, data, got, skipped, result, runs>>
        \/ BusError
        \/ Quit

Spec == Init /\ [][Next]_vars

-----------------------------------------------------------------------------
(* The records delivered are those of the file, in their order, with their  *)
(* fields, and then the end record, wherever the lines cut them and         *)
(* whatever run was broken off before.                                     *)
WithEnd == Append(recipe, [NoRecord EXCEPT !.type = EndOfRecords])
RecordsAsWritten == got = SubSeq(WithEnd, 1, Len(got))

(* The parser never reads behind the end of the file, also when the record  *)
(* that fails is the last one.                                             *)
InsideFile == flashLocation <= Len(icpData)

(* The section of a recipe that verifies a chip: from the event that begins  *)
(* it to the next one.                                                     *)
InSection(p, i) == \E k \in 1..(i - 1) :
                     /\ p[k].type = Event /\ p[k].command = ChipBeforeVerify
                     /\ \A j \in (k + 1)..(i - 1) : p[j].type = Event => p[j].command \notin Sectioning

(* "The system is about to verify a chip": no record of such a section is    *)
(* ignored, whatever an earlier run, its failure or the recipe so far have   *)
(* left in ignore_records; and a run that programs ignores none.           *)
SectionsHeeded == /\ run = "program" => skipped = {}
                  /\ \A i \in skipped : ~InSection(recipe, i)

(* What the documents of the records ask of register r: a write sets all of *)
(* it, a modification the bits in its mask.                                *)
Asks(q, r) == q.type \in Writes \cup Modifies /\ Of(q) = r
MaskOf(q) == IF q.type \in Writes THEN Bits ELSE q.mask
Names(q, r, b) == Asks(q, r) /\ b \in MaskOf(q)

(* What a record does to registers beside what its own fields ask of them:   *)
(* one that sets the global base address clears WRITE_PROTECT, and one that  *)
(* erases an EEPROM, or writes to it, locks it instead in a verify run.    *)
Overrides(q, r) ==
  \/ q.type = MetaData /\ q.command = SetGlobalBase /\ r \in {WriteProtect, BaseAddress}
  \/ q.type = 1 /\ q.command = EeErase /\ r \in {Of(q), <<q.address, EeUnlock>>}
  \/ q.type = WriteEeData /\ r = <<q.address, EeUnlock>>

(* The last record of those that the run did not ignore that names a bit of  *)
(* register r, unless it or a later one overrides the register.            *)
LastFor(p, r, b) ==
  {i \in DOMAIN p \ skipped :
     /\ Names(p[i], r, b) /\ ~Overrides(p[i], r)
     /\ \A j \in ((i + 1)..Len(p)) \ skipped : ~Names(p[j], r, b) /\ ~Overrides(p[j], r)}

(* Recipes whose records are obeyed: they have a PEC where the chip needs    *)
(* one, and are not 0x20 without PEC.                                      *)
Obeyed(p) == \A i \in DOMAIN p : p[i].type \in Writes \cup Modifies /\ Of(p[i]) \in Registers =>
               /\ p[i].pec \/ p[i].address \notin NeedPec
               /\ ~(p[i].type = ModifyByte /\ ~p[i].pec)

(* Recipes without the records that the parser does not take as their        *)
(* structs declare them: 0x1A, 0x1C and 0x1D.                              *)
ParsedAsDeclared(p) == \A i \in DOMAIN p : p[i].type \notin PecUnread \cup {SwappedMask}

(* "Modify only the specified bits to be desiredDataByte": a run that       *)
(* returned success has left each bit of a register that the records it did  *)
(* not ignore name as the last of them asks, whatever was there before and   *)
(* however often the run had been broken off.                              *)
SuccessMeansSet ==
  result = "SUCCESS" =>
    \A r \in Registers \ Status : \A b \in Bits : \A i \in LastFor(recipe, r, b) :
      b \in reg[r] <=> b \in recipe[i].value

(* ... and no bit that no recipe names or overrides ever changes, also in    *)
(* runs that fail.                                                         *)
Unnamed == [r \in Registers \ Status |->
              {b \in Bits : \A p \in Recipes : \A i \in DOMAIN p :
                              ~Names(p[i], r, b) /\ ~Overrides(p[i], r)}]
Untouched == \A r \in Registers \ Status : \A b \in Unnamed[r] : b \in reg[r] <=> b \in Initial[r]

(* "Expect a specified value (fail if different)": a record that expects a  *)
(* value, and is not ignored, succeeds only if the register holds it, in     *)
(* the bits of its mask.                                                   *)
Expected(q) == LET bits == IF q.type \in MaskedExpects THEN q.mask ELSE Bits
               IN  reg[Of(q)] \cap bits = q.value \cap bits
FailIfDifferent ==
  [][step = "start" /\ step' = "none" /\ rec' = rec /\ status' /\ Len(got) \notin skipped'
       => LET q == WithEnd[Len(got)] IN q.type \in Expects \cup MaskedExpects => Expected(q)]_vars
=============================================================================
