----------------------------- MODULE FaultLog -----------------------------
(***************************************************************************)
(* Reading and printing the fault log of a chip.  read() fetches the log    *)
(* word by word into a buffer it allocates; print() reads the buffer        *)
(* through packed structs: a preamble, then loops of telemetry.  The        *)
(* controllers (LTC388x, LTC7880) log their loops one after the other.  The *)
(* managers (LTC297x) log them into a ring, whose last writing position     *)
(* says where the newest loop ends, so that the loops are laid over the     *)
(* ring from before its start to past its end, and every field is tested    *)
(* with isValidData before it is printed.  Logs are stored, cleared and     *)
(* switched on and off by a menu, and stored by the chip at a fault; all of *)
(* these take the chip time.  Its data port hands out one word after the    *)
(* other, from wherever the last read left it.                             *)
(***************************************************************************)
EXTENDS Integers, Sequences

CONSTANTS Parts,      \* the parts on the bus
          LogParts,   \* those whose print is to be of the chip's log
          ReadParts,  \* those whose print is to keep to what was read
          WholeParts  \* those whose whole log is to be printed

(* The fields of a loop: their bytes, and whether printLoop prints them.   *)
Byte == [bytes |-> 1, shown |-> TRUE]
Word == [bytes |-> 2, shown |-> TRUE]
UnusedByte == [bytes |-> 1, shown |-> FALSE]
UnusedWord == [bytes |-> 2, shown |-> FALSE]

Bytes(loop) == LET sum[n \in 0..Len(loop)] == IF n = 0 THEN 0 ELSE sum[n - 1] + loop[n].bytes
               IN  sum[Len(loop)]

(* The printed fields of a loop, as the places of their first and last byte.*)
Places(loop) == {[from |-> Bytes(SubSeq(loop, 1, f - 1)), to |-> Bytes(SubSeq(loop, 1, f)) - 1] :
                   f \in {g \in 1..Len(loop) : loop[g].shown}}

(* A controller's log: 54 words, of which every 16th ends a block of 32     *)
(* bytes with a CRC, that "crc" strips; so many loops are printed.  An id,  *)
(* a size and 192 words are read before it.                                *)
Controller(crc, loops, loop) ==
  [bytes |-> 108, skipped |-> 2 + 192, words |-> 54, crc |-> crc, telemetry |-> 27, ring |-> FALSE,
   loops |-> loops, length |-> Bytes(loop), fields |-> Places(loop)]

(* A manager's log: the size of its struct, the bytes of the preamble, the  *)
(* words fetched (none: one block), the loops always printed, and the       *)
(* bytes of the ring that are telemetry.  A size is read before it.         *)
Manager(bytes, telemetry, words, loops, end, loop) ==
  [bytes |-> bytes, skipped |-> 1, words |-> words, crc |-> FALSE, telemetry |-> telemetry, ring |-> TRUE,
   loops |-> loops, end |-> end, length |-> Bytes(loop), fields |-> Places(loop)]

TwoChannels == <<Word, Word, Word, Word>>
TwoStatuses == <<Byte, Byte, Word, Word, Byte, Byte>>

Loop3880 == TwoChannels \o <<Word, Word>> \o TwoStatuses
Loop3882 == TwoChannels \o <<Word, UnusedWord>> \o TwoStatuses
Loop3883 == <<Word, UnusedWord, Word, UnusedWord, Word, Word,
              Byte, UnusedByte, Word, UnusedWord, Byte, UnusedByte>>
Loop3884 == TwoChannels \o <<Word, Word>> \o TwoStatuses
Loop3886 == TwoChannels \o <<Word, Word>> \o TwoStatuses
Loop3887 == TwoChannels \o <<Word, Word>> \o TwoStatuses
Loop3888 == TwoChannels \o <<Word, UnusedWord>> \o TwoStatuses
Loop3889 == TwoChannels \o <<Word, Word>> \o TwoStatuses
Loop7880 == TwoChannels \o <<Word, Word>> \o TwoStatuses

LTC3880 == Controller(TRUE, 4, Loop3880)
LTC3882 == Controller(TRUE, 6, Loop3882)
LTC3883 == Controller(TRUE, 4, Loop3883)
LTC3884 == Controller(TRUE, 4, Loop3884)
LTC3886 == Controller(TRUE, 6, Loop3886)
LTC3887 == Controller(TRUE, 4, Loop3887)
LTC3888 == Controller(FALSE, 4, Loop3888)
LTC3889 == Controller(FALSE, 4, Loop3889)
LTC7880 == Controller(FALSE, 6, Loop7880)

(* A channel of the LTC2974 and LTC2975: power, current and its status,     *)
(* temperature and its status, statuses and voltage.                       *)
FullChannel == <<Word, Word, Byte, Byte, Word, Byte, Byte, Word>>
Input == <<Byte, Word>>

Loop2972 == LET channel == <<Word, Word, Byte, Byte, Word, Byte, Byte, Byte, Word>>
            IN  channel \o <<Word, Word, UnusedByte>> \o Input \o channel \o <<Word>>
Loop2974 == FullChannel \o FullChannel \o FullChannel \o <<UnusedByte>> \o Input
              \o FullChannel \o <<Word>>
Loop2975 == FullChannel \o FullChannel \o FullChannel \o <<Word, Word, UnusedByte>> \o Input
              \o FullChannel \o <<Word>>
Loop2977 == LET pair == <<Byte, Byte, Byte, Word, Byte, Byte, Byte, Word>>
            IN  pair \o pair \o Input \o pair \o Input \o pair
Loop2978 == LET pair == <<Byte, Byte, Word, Byte, Byte, Word>>
            IN  pair \o pair \o <<UnusedByte>> \o Input \o pair \o <<UnusedByte>> \o Input \o pair

LTC2972 == Manager(265, 55, 128, 4, 238, Loop2972)
LTC2974 == Manager(265, 71, 128, 4, 237, Loop2974)
LTC2975 == Manager(265, 79, 128, 4, 238, Loop2975)
LTC2977 == Manager(290, 72, 128, 4, 237, Loop2977)
LTC2978 == Manager(265, 47, 0, 5, 237, Loop2978)

Part == {"LTC3880", "LTC3882", "LTC3883", "LTC3884", "LTC3886", "LTC3887", "LTC3888", "LTC3889",
         "LTC7880", "LTC2972", "LTC2974", "LTC2975", "LTC2977", "LTC2978"}

ASSUME PartsAssumption == /\ Parts \subseteq Part /\ LogParts \subseteq Parts
                          /\ ReadParts \subseteq Parts /\ WholeParts \subseteq Parts

Log(p) ==
  CASE p = "LTC3880" -> LTC3880 [] p = "LTC3882" -> LTC3882 [] p = "LTC3883" -> LTC3883
    [] p = "LTC3884" -> LTC3884 [] p = "LTC3886" -> LTC3886 [] p = "LTC3887" -> LTC3887
    [] p = "LTC3888" -> LTC3888 [] p = "LTC3889" -> LTC3889 [] p = "LTC7880" -> LTC7880
    [] p = "LTC2972" -> LTC2972 [] p = "LTC2974" -> LTC2974 [] p = "LTC2975" -> LTC2975
    [] p = "LTC2977" -> LTC2977 [] p = "LTC2978" -> LTC2978

(* The longest block an SMBus read returns, whatever is asked for.         *)
BlockMax == 32

(* The place of the log behind the data port of a part.                   *)
LogPlace(p) == IF Log(p).ring THEN 1 ELSE 194
Locked == -1

VARIABLES
  part,     \* the part; each has its own chip, and objects of its own
  logged,   \* the chip holds a log
  enabled,  \* it stores one at a fault
  pending,  \* what it is at work with: "none", "store", "clear", "restore"
  pointer,  \* the word its data port hands out next, or Locked
  phase,    \* "idle", "waiting" for the chip, "preparing", "skipping", "fetching"
            \* the words, "fetched", "printing" the loops
  hasty,    \* the wait for a log to be cleared was given up or broken off
  inPlace,  \* the words fetched are those of the log, each in its place
  word,     \* words fetched
  written,  \* bytes of the buffer written by it
  base,     \* where in the buffer loop 0 begins
  last,     \* the last byte of telemetry: lastValidByte
  index,    \* the next loop to print
  printed   \* bytes of the buffer printed as telemetry

chip == <<logged, enabled, pending, pointer>>
reading == <<word, written, base, last, index, printed>>
vars == <<part, chip, phase, hasty, inPlace, reading>>

L == Log(part)

Init == /\ part \in Parts
        /\ logged \in BOOLEAN /\ enabled \in BOOLEAN /\ pending = "none" /\ pointer = Locked
        /\ phase = "idle" /\ hasty = FALSE /\ inPlace = TRUE
        /\ word = 0 /\ written = 0 /\ base = 0 /\ last = 0
        /\ index = 0 /\ printed = {}

TypeOK == /\ part \in Parts
          /\ logged \in BOOLEAN /\ enabled \in BOOLEAN
          /\ pending \in {"none", "store", "clear", "restore"}
          /\ pointer \in Locked..(L.skipped + L.words)
          /\ phase \in {"idle", "waiting", "preparing", "skipping", "fetching", "fetched", "printing"}
          /\ hasty \in BOOLEAN /\ inPlace \in BOOLEAN
          /\ word \in 0..L.words
          /\ written \in 0..256
          /\ base \in 0..127
          /\ last \in 0..255
          /\ index \in 0..(L.loops + 1)
          /\ \A b \in printed : b \in 0..511

-----------------------------------------------------------------------------
(* The chip.  At work it takes no command, and its status may say either.  *)
Takes(work) == IF pending = "none" THEN work ELSE pending
hasFaultLog == IF pending = "none" THEN {logged} ELSE BOOLEAN

(* A fault on a rail.                                                      *)
Fault == /\ enabled /\ ~logged /\ pending = "none"
         /\ pending' = "store"
         /\ UNCHANGED <<part, logged, enabled, pointer, phase, hasty, inPlace, reading>>

Settle == /\ pending # "none"
          /\ pending' = "none"
          /\ logged' = (pending = "store" \/ (pending = "restore" /\ logged))
          /\ UNCHANGED <<part, enabled, pointer, phase, hasty, inPlace, reading>>

-----------------------------------------------------------------------------
(* The items of the menu of fault logs.  The lists of LT_FaultLog lack the  *)
(* LTC3887, for which deviceType takes the LTC3888, too.                   *)
Switchable == Part \ {"LTC3887", "LTC3888"}

enableFaultLog == /\ phase = "idle" /\ part \in Switchable
                  /\ enabled' = TRUE
                  /\ phase' = "waiting"
                  /\ UNCHANGED <<part, logged, pending, pointer, hasty, inPlace, reading>>

disableFaultLog == /\ phase = "idle" /\ part \in Switchable
                   /\ enabled' = FALSE
                   /\ UNCHANGED <<part, logged, pending, pointer, phase, hasty, inPlace, reading>>

storeFaultLog == /\ phase = "idle" /\ FALSE \in hasFaultLog
                 /\ pending' = Takes("store")
                 /\ phase' = "waiting"
                 /\ UNCHANGED <<part, logged, enabled, pointer, hasty, inPlace, reading>>

(* Mutant of clearFaultLog: the wait is missing.                           *)
clearFaultLogUnwaited == /\ phase = "idle" /\ TRUE \in hasFaultLog
                         /\ pending' = Takes("clear")
                         /\ UNCHANGED <<part, logged, enabled, pointer, phase, hasty, inPlace, reading>>

clearFaultLog == /\ phase = "idle" /\ TRUE \in hasFaultLog
                 /\ pending' = Takes("clear")
                 /\ phase' = "waiting"
                 /\ UNCHANGED <<part, logged, enabled, pointer, hasty, inPlace, reading>>

Hasty == hasty \/ pending = "clear"

(* waitForNotBusy, which gives up after 4096 polls, and whose result nobody *)
(* looks at: the chip may be at work still.                                *)
waitForNotBusy == /\ phase = "waiting"
                  /\ phase' = "idle" /\ hasty' = Hasty
                  /\ UNCHANGED <<part, chip, inPlace, reading>>

(* printFaultLog of a part with a fault log: managers are told to restore   *)
(* it to their RAM.                                                        *)
Read == /\ phase = "idle" /\ TRUE \in hasFaultLog
        /\ phase' = "preparing"
        /\ pending' = IF L.ring THEN Takes("restore") ELSE pending
        /\ hasty' = (hasty /\ pending # "none")
        /\ inPlace' = TRUE
        /\ UNCHANGED <<part, logged, enabled, pointer, reading>>

(* The loop that monitors BUSY, or the pause of the LTC2978; then the keys  *)
(* or 0xEE, which set the data port to its beginning.                      *)
Prepare == /\ phase = "preparing" /\ pending = "none"
           /\ phase' = IF L.words = 0 THEN "fetching" ELSE "skipping"
           /\ pointer' = IF L.words = 0 THEN pointer ELSE 0
           /\ UNCHANGED <<part, logged, enabled, pending, hasty, inPlace, reading>>

(* The words of the port that are not the log's, all of them.              *)
Skip == /\ phase = "skipping" /\ pending = "none"
        /\ phase' = "fetching"
        /\ pointer' = pointer + L.skipped
        /\ UNCHANGED <<part, logged, enabled, pending, hasty, inPlace, reading>>

(* Mutant of FetchWord: one word more than the log has.                    *)
FetchWordMore == /\ phase = "fetching" /\ pending = "none"
                 /\ word <= L.words
                 /\ word' = word + 1
                 /\ written' = written + (IF L.crc /\ (word + 1) % 16 = 0 THEN 1 ELSE 2)
                 /\ UNCHANGED <<part, chip, phase, hasty, inPlace, base, last, index, printed>>

(* getNvmBlock: the next word of the log.                                  *)
FetchWord == /\ phase = "fetching" /\ pending = "none"
             /\ word < L.words
             /\ word' = word + 1
             /\ written' = written + (IF L.crc /\ (word + 1) % 16 = 0 THEN 1 ELSE 2)
             /\ pointer' = pointer + 1
             /\ inPlace' = (inPlace /\ logged /\ pointer = LogPlace(part) + word)
             /\ UNCHANGED <<part, logged, enabled, pending, phase, hasty, base, last, index, printed>>

(* The last byte of telemetry, in a byte: the LTC2977 counts its own, and  *)
(* 255 says that the ring is full.                                         *)
LastValidBytes == IF part = "LTC2977"
                    THEN {237} \cup {(237 - (166 - count)) % 256 : count \in 0..254}
                    ELSE {L.end}

(* position_last is the byte of a loop that was written last, and the loops *)
(* are laid over the ring so that loop 0 holds it.                         *)
LayLoops(positions) ==
  /\ \E position \in positions : base' = L.telemetry - (L.length - 1) + position
  /\ last' \in LastValidBytes

(* readBlock of MFR_FAULT_LOG, 255 bytes asked for.  The -1 of a read that  *)
(* fails is 255 in its uint8_t and throws nothing, and read uses the        *)
(* buffer as malloc left it, but for position_last, which it zeroed.        *)
FetchBlock ==
  /\ phase = "fetching" /\ L.words = 0
  /\ phase' = "fetched"
  /\ \/ /\ written' = BlockMax /\ inPlace' = (inPlace /\ logged)
        /\ LayLoops(0..(L.length - 1))
     \/ /\ written' = 0 /\ inPlace' = FALSE
        /\ LayLoops({0})
  /\ UNCHANGED <<part, chip, hasty, word, index, printed>>

(* Mutant of Overlay: loop 0 laid from the position on.                    *)
OverlayAtPosition == /\ phase = "fetching"
                     /\ L.words > 0 /\ word = L.words
                     /\ phase' = "fetched"
                     /\ IF L.ring
                          THEN /\ \E position \in 0..(L.length - 1) : base' = L.telemetry + position
                               /\ last' \in LastValidBytes
                          ELSE base' = L.telemetry /\ last' = last
                     /\ UNCHANGED <<part, chip, hasty, inPlace, word, written, index, printed>>

(* The end of a read word by word: a controller is locked.                 *)
Overlay == /\ phase = "fetching"
           /\ L.words > 0 /\ word = L.words
           /\ phase' = "fetched"
           /\ IF L.ring THEN LayLoops(0..(L.length - 1))
                        ELSE base' = L.telemetry /\ last' = last
           /\ pointer' = IF L.ring THEN pointer ELSE Locked
           /\ UNCHANGED <<part, logged, enabled, pending, hasty, inPlace, word, written, index, printed>>

(* printTitle, printTime, printPeaks: all of the preamble.                 *)
PrintPeaks == /\ phase = "fetched"
              /\ phase' = "printing"
              /\ UNCHANGED <<part, chip, hasty, inPlace, reading>>

isValidData(from, to) == from >= L.telemetry /\ to <= last

Start(i) == base + i * L.length

(* Mutant of MoreLoops: the bound of the arrays.                           *)
MoreLoopsOfArray == index < 6

(* The loop of printAllLoops; after the loops that a ring always holds it   *)
(* prints one more if its first word is valid.                             *)
MoreLoops == \/ index < L.loops
             \/ L.ring /\ index = L.loops /\ isValidData(Start(index), Start(index) + 1)

Printable(i) == {f \in L.fields : L.ring => isValidData(Start(i) + f.from, Start(i) + f.to)}

(* printLoop, printLoopChannel.                                            *)
PrintLoop == /\ phase = "printing"
             /\ MoreLoops
             /\ index' = index + 1
             /\ printed' = printed \cup UNION {(Start(index) + f.from)..(Start(index) + f.to) :
                                                 f \in Printable(index)}
             /\ UNCHANGED <<part, chip, phase, hasty, inPlace, word, written, base, last>>

Freed == /\ phase' = "idle" /\ word' = 0 /\ written' = 0 /\ base' = 0 /\ last' = 0
         /\ index' = 0 /\ printed' = {} /\ inPlace' = TRUE
         /\ UNCHANGED <<part, logged, enabled, pending>>

(* release.                                                                *)
Release == /\ phase = "printing"
           /\ ~MoreLoops
           /\ Freed
           /\ UNCHANGED <<pointer, hasty>>

(* A transfer fails and its exception ends the process; while words are     *)
(* skipped, any of them was the last.                                      *)
BusError == /\ phase \in {"waiting", "preparing", "skipping", "fetching"}
            /\ Freed
            /\ hasty' = (hasty \/ (phase = "waiting" /\ pending = "clear"))
            /\ pointer' \in IF phase = "skipping" THEN pointer..(pointer + L.skipped) ELSE {pointer}

Next == \/ Fault \/ Settle
        \/ enableFaultLog \/ disableFaultLog \/ storeFaultLog \/ clearFaultLog \/ waitForNotBusy
        \/ Read \/ Prepare \/ Skip \/ FetchWord \/ FetchBlock \/ Overlay
        \/ PrintPeaks \/ PrintLoop \/ Release
        \/ BusError

Spec == Init /\ [][Next]_vars

-----------------------------------------------------------------------------
(* getNvmBlock writes inside the buffer that read allocated.               *)
WritesInside == written <= L.bytes

(* What is printed is the log that the chip holds, from its first word on,  *)
(* wherever earlier reads were broken off, and whatever faults, stores and  *)
(* clearings came before; but for a log whose clearing was not waited for. *)
(* "Reads the fault log from the specified address, reserves memory to hold *)
(* the data.  @return a reference to the data read from the part."         *)
PrintsTheLog == part \in LogParts /\ phase \in {"fetched", "printing"} /\ ~hasty => inPlace

(* "Pretty prints this part's fault log": what is printed was read from the *)
(* part, and is not what malloc left in the buffer or what lies behind it. *)
PrintsWhatWasRead == part \in ReadParts /\ phase = "printing" =>
                       L.telemetry <= written /\ printed \subseteq 0..(written - 1)

(* The loops laid over a ring show all of it: when the last loop is         *)
(* printed, so is every field that is valid, whatever the position.        *)
WholeLogPrinted ==
  part \in WholeParts /\ phase = "printing" /\ ~MoreLoops =>
    \A i \in -1..8 : \A f \in Printable(i) : (Start(i) + f.from)..(Start(i) + f.to) \subseteq printed
=============================================================================
