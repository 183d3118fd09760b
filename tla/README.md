# Verification of the PMBus DPSM library and application

The repository holds a C++ library for power system managers and controllers on
a PMBus (`LT_SMBus*`, `LT_PMBus*`, the device classes, the fault logs, the
in-system programming engine) and an interactive application,
`LT_PMBusApp`, that uses all of it. This directory holds TLA+ models of the
parts of it in which order, failure and shared state decide whether it works,
the TLC runs that check them and TLAPS proofs of what holds for every value of
the parameters. Paths below are relative to the repository's `src/` directory.

## 1. The system

The program is single threaded. It talks to the chips over one `/dev/i2c`
descriptor; every transfer is a blocking call that returns or throws. What makes
it hard is not threads but **state that lives in several places and outlives the
call that made it**: in the chips (PAGE, PEC, the EEPROM and its data pointer,
limits), in statics of the engine, in objects that hold a copy of what a chip
was; and that **every transfer may fail, which ends the process with the chips
where they are**.

| Component | Files | State it keeps | Operations | Talks to |
| --- | --- | --- | --- | --- |
| SMBus transport | `LT_SMBusBase`, `LT_SMBusPec`, `LT_SMBusNoPec`, `LT_SMBus` | one static descriptor, the found addresses, the PEC flag of the driver | byte, word and block transfers, probe, waitForAck | the bus |
| group protocol | `LT_SMBusGroup` | a queue of writes | beginStoring, execute | wraps a transport for every `LT_PMBus` |
| PEC arithmetic | `LT_SMBus.cpp` | a table | crc8 | transport, recipe records |
| PMBus commands | `LT_PMBus` | none but its transport | getters and setters, supervision, margins, PAGE, PEC, NVM, global commands | transport, number formats |
| number formats | `LT_PMBusMath` | none | Linear11 and Linear16 to and from float | PMBus commands, fault logs |
| devices | `LT_PMBusDevice*` (25 classes) | address, number of pages, capabilities, its `LT_PMBus` | detect, getRails, clearFaults, enablePec | PMBus commands |
| rails | `LT_PMBusRail` | address, pages, definitions merged from devices | telemetry and margins of a rail, readTransient | PMBus commands |
| detection | `LT_PMBusDetect` | lists of devices and rails | detect, changePMBus | transport, devices, rails |
| fault logs | `LT_FaultLog`, `LT_*FaultLog` (14 layouts) | a buffer, pointers laid over it | read, print, release, enable, store, clear | transport |
| NVM front end | `LT_Nvm` | none | programWithData, verifyWithData, and with a file | record engine |
| record engine | `main_record_processor` | two statics: `verification_in_progress`, `ignore_records` | both loops, a handler per record type | NVM buffer, transport |
| NVM buffer | `nvm_data_helpers` | a pointer into the last NVM record, `nWords`, `nvram_somethingToVerify` | buffer, write, verify | transport |
| recipe parser | `hex_file_parser` | position and the checks of a file | get_record, parse_hex | record engine |
| alert response | `LT_SMBusARA` | none | getAddresses | transport |
| application | `LT_PMBusApp` | two transports, two `LT_PMBus`, the detector, `pmbus` | menus, options -i and -p | everything |
| speed test, exceptions | `LT_PMBusSpeedTest`, `LT_Exception` | none | | |

What makes them correct, and what is hard about it:

* **Record engine, NVM buffer, NVM front end.** A run that says success means
  that the EEPROMs hold the words; a verify run destroys nothing; the buffered
  record is never used after its release; no transfer meets a busy chip; a run
  ends. Hard: the statics outlive a run, runs follow each other in any order,
  and each may stop in the middle with the process or with a failed record.
* **Supervised voltage changes.** Seven registers of a live rail change one by
  one. Hard: the rail is compared with a mix of old and new limits after every
  write, the order depends on a voltage read before, and a failed call leaves a
  mix for the next one.
* **Fault logs.** What is printed was logged, and all that was logged is
  printed. Hard: fourteen layouts of sizes that are each written down in several
  places, laid over a ring from before its start to past its end.
* **Detection, rails, PAGE and PEC.** Every chip is found once, a rail reads its
  own phases, a printed line is of the page it names, and a chip that requires
  PEC is spoken to with PEC. Hard: PAGE is left behind by every command, the
  two transports are copied into application, devices, rails and detector, and
  the chips keep theirs over a restart of the process.
* **Number formats.** A read is exact, a write is the nearest word, order is
  kept. Hard: rounding, carry, saturation and underflow in two formats.
* **Recipe parser and record handlers.** The records executed are those of the file,
  and what a record asks of a register is what the register holds after a success. Hard:
  lines cut records anywhere, the parser's statics outlive a run, thirty packed structs are
  taken apart by hand, and a bit is changed by a read and a write with masks between them.
* **Transient reads, group protocol.** A measurement that raises a limit until the rail
  faults must never shut the rail down. Hard: two registers of each phase are changed and
  put back around a loop that may be broken off, and the next measurement takes what is
  left for the setting; `LT_SMBusGroup` stops sending writes after a call of `clearFaults`.

## 2. Modules

| Module | Models | Checked by | Proofs in |
| --- | --- | --- | --- |
| `InSystemProgramming` | record engine, NVM buffer, NVM front end, menu 3 and option -p | `MCInSystemProgramming` | `InSystemProgrammingProofs` |
| `NvmContract` | what `LT_Nvm` promises, abstractly | refined by the former | same |
| `RecordHandlers` | what each record does to the registers of the chips | extended by `RecipeFile` | `RecipeFileProofs` |
| `RecipeFile` | the recipe file and its parser, composed with the handlers | `MCRecipeFile` | `RecipeFileProofs` |
| `VoutSupervision` | `setVoutWithSupervision`, `margin*`, a rail | `MCVoutSupervision` | `VoutSupervisionProofs` |
| `TransientSweep` | `LT_PMBusRail::readTransient` and `clearFaults`, over `LT_SMBusGroup` | `MCTransientSweep` | `TransientSweepProofs` |
| `FaultLog` | `read` and `print` of the fourteen layouts; enable, disable, store, clear | `MCFaultLog` | `FaultLogProofs` |
| `DeviceTable` | the 25 classes: ids, pages, capabilities | used by `BusSession` | |
| `BusSession` | detection, rails, PAGE, PEC, the menus that print, clear, reset and switch | `MCBusSession` | `BusSessionProofs` |
| `NumberFormats` | `LT_PMBusMath` under getters and setters | `MCNumberFormats` | `NumberFormatsProofs` |
| `SumLemmas` | no code: induction over the naturals, and recursive functions that add up | used by the proofs of `FaultLog`, `BusSession`, `RecipeFile` and `NumberFormats` | itself |

### InSystemProgramming

A recipe is the sequence of the records the parser returns. `run`, `recipe`,
`pos`, `status` and `result` are the loop of `processRecordsOnDemand` or
`verifyRecordsOnDemand`; `verification_in_progress`, `ignore_records`,
`nvram_somethingToVerify`, `buffer` and `words` are the statics of the code
under its names, reset only by `Restart`. One action per group of handlers of
one shape; a handler that loops over the words (`WriteWord`, `PollWord`,
`ReadWord`) takes a step per transfer, so that a failure, or the chip, gets in
between. The chips (`eeprom`, `unlock`, `pointer`, `busy`) are modelled from how
the recipes and `LT_PMBus` use them. A cell in `Worn` may stay erased when
written. `BusError` is an exception that reaches `main`.

`WellFormed` is what the engine needs of a recipe so as not to crash, and holds of
the recipe compiled in (`data.h`): an end record, a block before each write or
verify of a chip's EEPROM. `Governed` is what a verify run needs so as to mean
something: a verify stands in a section that an `INSYSTEM_CHIP_BEFORE_VERIFY`
event opened, and its chip was opened with a key and found open. `Polled` is what a chip
needs: each record that gives a chip EEPROM work without asking first has a polling record of that chip
before it, and between the two nothing occupies the chip and no event opens or ends a
section. TLC evaluates it for the recipes of the run.

### NvmContract

The abstract service: `program` may change any EEPROM while it runs, `verify`
changes none, either ends with success only if every chip that the data name
holds what they ask, or fails, or never returns. `InSystemProgramming`
instantiates it (`Contract`) with the image that a recipe requires of each chip;
calls map to runs, outcomes to results.

### RecordHandlers and RecipeFile

`InSystemProgramming` takes records as the parser returns them and asks in which order
they are executed; these two ask whether the records are the file's and what each does.
In `RecordHandlers`, `rec` is the record under way and `step` the place in its handler: a
handler that modifies a register reads it in its `start` and writes it in the step `write`,
one that waits for a chip stands at `poll`,
and `BusError` or a chip that changes its own status (`Settle`) may come between them. A
word is the set of its bits, so that masks are intersections and unions as in the code.
The statics are the engine's: `ProcessEvent` opens and closes the sections that a verify run
heeds and fails at an event it does not know, `SkipRecord` is what such a run does with a record it
ignores (`skipped` remembers which), `BufferNvmData`, `WriteNvmData`, `LockNvm`, `ReadThenVerifyNvmData` and
`PollNotBusy` are records 0x09, 0x1E and 0x1F, which here write the lock of an EEPROM (0x1E in a verify
run), wait for its chip, and end either way: a block holds one word, and what a word is compared with is the
business of `InSystemProgramming`. `Buffered` keeps a recipe from writing words before it has any:
the code would read a buffer that it has freed.
`RecipeFile` encodes a recipe (`Struct`, from `record_type_definitions.h`) into lines of a
given size and models `get_record`, `parse_hex` with `parse_data` and
`parse_data_position`, and `parse_record`, which decodes the bytes again field by field.
`flashLocation` and the parser's statics survive a run, as they do in the code, but for
what `reset_parse_hex` resets. The bytes of 0x1C and 0x1D are those that their structs declare, with the
one that says whether to use PEC (`PecUnread`), which `parse_record` does not take.

### VoutSupervision

`reg` holds the seven words, `operation` the OPERATION register, `branch`, `at`
and `target` the call under way. `Call` takes the decision on READ_VOUT,
`Write` one register, `Fail` is an exception between two writes (any), `Margin`
the margin commands between calls. `output` is the rail itself: `Regulate` moves it towards what OPERATION
selects (`Regulated`) at any time and by any amount, so that it may still be at the old voltage when the
last limit of the new one is written. `CallsWhileMargined` and `CallsWhileRamping` say
whether a caller waits until the rail is unmargined and has arrived. Voltages and percentages are integers in units
of `1/Scale`; `Encode` and `Decode` are any rounding that keeps the order
(`EncodeAssumption`), which is what `NumberFormats` checks of the conversions
below the top half step.

### TransientSweep

`page`, `limit`, `response` and `faulted` are the chips' registers, `at` the next transfer
of the call, `rail`, `d`, `j` the loops over definitions and pages, `vout`, `vout_uv`,
`vout_response` what was read of the page: `vout` is its `Command`, for `getVout` reads VOUT_COMMAND, while the
output itself is anywhere between `Low` and `High`, near that or not. `Fail` is an exception between any two transfers,
`broken` remembers the phases whose measurement it ended. `queueing` is the flag of
`LT_SMBusGroup` that `ClearFaults` sets and nothing in that process unsets: writes are
stored, reads go on. `Dip` is the comparator of a chip, `PowerUp` loads an EEPROM.

### FaultLog

A layout is a record of the sizes the code of that part uses; a loop is a
sequence of fields, each shown or not, in the order of the struct. `Read` is
`printFaultLog` up to the transfers, `Prepare` the busy loop and the keys (0xEE for managers),
`Skip` and `FetchWord` are `getNvmBlock`, with its CRC stripping, `FetchBlock` is the
LTC2978's, which may fail without a notice (a -1 kept as 255) and leave the buffer as `malloc` gave it, `Overlay` says
where the loops are laid, then `PrintPeaks`, `PrintLoop`, `Release`.
The position of a ring and the LTC2977's count are whatever the part reports.
The chip is another actor: it logs a `Fault` of its own, takes time (`pending`, `Settle`),
and its data port (`pointer`) stays where a `BusError` left it. `storeFaultLog`,
`clearFaultLog`, `enableFaultLog` and `disableFaultLog` are the items of menu 2;
`waitForNotBusy` returns when the chip is ready or after 4096 polls, which nobody tells apart.

### BusSession and DeviceTable

`page` and `required` (it requires PEC) are in the chips and outlive the process;
`devices` and `rails` are the detector's lists, `pec` says which bus the
application uses. `phase`, `at`, `next` walk through the loops of detection,
`getRails` and the menu items, a transfer per step. `End` may come anywhere: it
is both Quit and a failed transfer. `heard` says that every chip obeyed the last
detection, that is, that none required a PEC that was not sent.

### NumberFormats

A float is its sign, exponent and mantissa fields; conversions follow
`LT_PMBusMath` field by field. One register of either format is read, kept, changed
and written by a caller. Where `unsigned long` has eight bytes,
`float_to_lin16` reads four bytes that lie behind the float: `HighBits` says
that these are zero or not, for every call anew.

## 3. Runs

| Run | Checks | Bounds | Shows |
| --- | --- | --- | --- |
| `isp` | `TypeOK`, `BufferLive`, `NeverOverrun`, `SuccessMeansProgrammed`, `VerifyKeepsEeprom`, `ImplementsContract`, `RunsEnd` | 2 chips of 2 words over 3 values, one worn cell, 4 recipes | every order of program and verify runs, failures and restarts keeps the contract (200,860 states) |
| `stale_section` | `SuccessMeansProgrammed`, violated | a recipe with events and one without | `ignore_records` of one run makes the next one skip its verification and return success |
| `recipe` | `TypeOK`, `RecordsAsWritten`, `InsideFile`, `SectionsHeeded`, `SuccessMeansSet`, `Untouched`, `FailIfDifferent` | 7 recipes, lines of 1, 7 and 32 bytes, 3 runs | the records executed are the file's, wherever lines cut them and runs end; a verify run ignores none that stands in a section to be verified, a program run none; a success leaves the bits as asked (590,152 states) |
| `swapped_mask` | `FailIfDifferent`, violated | one record 0x1A | mask and value of that record are swapped |
| `vout` | `TypeOK`, `NoAlarm`, `MarginsSafe` | 3 voltages, 3 settings of percentages, words of 8 units | a rail that is not margined, and whose caller waits for it, alarms only on the side it comes from and never once it has arrived, however slowly it follows (1,084,620 states) |
| `transient` | `TypeOK`, `NeverTrips`, `SetUpKept`, `NeverOverstates` | 2 chips of 2 pages, 5 rails, a sweep of 3 units to either side, 3 calls | no measurement, finished or broken off, shuts its rail down; none returns more than an output can be below its command (1,763,640 states) |
| `fault_log` | `TypeOK`, `WritesInside`, `PrintsTheLog`, `PrintsWhatWasRead`, `WholeLogPrinted` | all 14 layouts, every position and count | reads keep to buffers; thirteen parts print the log itself, whatever the chip logs meanwhile; six layouts print only what was read, two show their whole ring (709,257 states) |
| `failed_block` | `PrintsTheLog`, violated | the LTC2978 | a block read that fails is not noticed, and what `malloc` left is printed as the log |
| `bus_session` | `TypeOK`, `DevicesFound`, `PhasesCounted`, `DevicesObeyed`, `LabelsTrue` | 4 chips, 4 classes, 3 rail addresses | sessions with PEC on and off, broken off and restarted (82,459 states) |
| `split_rail` | `PhasesAddressed`, violated | the same | a rail merged of two devices reads all its pages at the first |
| `numbers` | `TypeOK`, `ReadsExactly`, `WritesNearest`, `WriteBackKeeps`, `KeepsOrder` | 3 scales, 9 and 40 words, 92 and 144 floats at the edges | reads exact, writes nearest, order kept (142,048 states) |
| `mantissa_overflow` | `WritesNearest`, violated | also the last half step below the top | a voltage just below the top is written as 0 |

Each property of a passing run has a mutant, a plausible slip of the code
(a missing poll or wait, an off-by-one, a kept flag, one order for both directions) that
violates it; the mutants stand beside the definitions they change.

### Why the bounds are enough

* `isp`: the engine treats chips alike and words alike, and looks at one record at
  a time. Two chips let one chip's block meet the other's verify; two words give a
  first, a last and a wrap of the data pointer; three values tell an erased,
  a right and a wrong word apart. The recipes cover the layout of `data.h`, one
  whose verify section also covers the records that program, one broken off by an
  unsupported record and one with an event unknown to the engine.
* `vout`: three voltages give a rise, a fall and no change from every setting;
  the three settings widen, narrow and collapse the limits; eight units a word give
  ties, and two voltages that are one word apart. The output stops at every word on its way.
* `recipe`: every record type the parser takes as it is declared occurs, some with and some without PEC, and
  every kind of event: one that opens a section, one that closes it, the last and one that is not known.
  0x1A is in `swapped_mask`; 0x1C and 0x1D are in no run (section 4). Four of the recipes fail, unless a
  verify run ignores what they fail at: nothing to verify, an event, a type or meta data not known. Lines of one byte
  cut every record everywhere, lines of
  7 bytes cut records of several sizes at changing places, lines of 32 hold several records. Three
  runs let one that was broken off and one that failed come before a third.
* `transient`: the rails that detection makes of two controllers: two pages one of which is a slave, that page
  alone, the two with one appended by a merge, a single page, and two
  definitions, which share phases; a phase that ignores faults from the start. Outputs lie
  about their command, above it, or below it by most of the sweep or more than all of it. Three calls: one that is
  broken off, one that takes
  what it left, one after that.
* `fault_log`: nothing is cut: every layout and every position, and sessions of any length.
  The only bound is that a position lies inside a loop, which is what a part reports. Each
  part is a behaviour of its own: a call makes its objects anew and touches one chip.
* `bus_session`: a rail of two pages of one chip, a rail of two chips with a page
  left over, pages without a rail, a rail address below and one above the chips, a class
  whose PEC cannot be switched, and a manager.
* `numbers`: every branch of both conversions, with values on, just below and just
  above each tie, for the scales -12, -13 (those of the parts) and +1. Every
  pair of these floats is written in turn.

Deadlock is checked in every run. No configuration replaces a definition.

### Fairness

Only `RunsEnd` needs it. `FairSpec` assumes that the process goes on while it can
(`WF` of `EngineStep` and of what follows a run: one thread, which nothing blocks but the
bus) and that each chip finishes what it does (`WF` of `Settle` per chip: EEPROM
operations take bounded time). Nothing is assumed of the user, of failures or of
restarts. Without the second, the polling loops of `WaitChip`, `PollWord` and
`ReadWord`, which have no limit, would spin for ever; that is the code's
behaviour on a chip that never becomes ready.

## 4. Findings

Five runs end in a violation, each of a sentence in the repository:

1. `stale_section`: `LT_Nvm.h:73` "return true if NVM configuration matches the hex
   data". `ignore_records` is never reset at the start of a run.
2. `split_rail`: `LT_PMBusRail.cpp:185` "There will not be any unwanted phases".
   `merge` loses the address of the merged device.
3. `mantissa_overflow`: `LT_PMBusMath.cpp:285` "mantissa overflow is not possible".
4. `swapped_mask`: `record_type_definitions.h:575` "expect a specified value bitwise ANDed
   with the Mask (fail if different)". `parse_record` reads the two words of record 0x1A in
   the other order than its struct has them.
5. `failed_block`: `LT_2978FaultLog.h:166` "return a reference to the data read from the part",
   `LT_SMBus.h:155` "return error < 0 | count". `readBlock` (`LT_SMBusBase.cpp:252`) compares a `uint8_t` with
   -1, so that a read that fails returns 255, and the log printed is what `malloc` left in the buffer.

More disagreements can be seen with the same modules, by a change of constants or
by one more invariant in the `.cfg` named, and have no run of their own:

* `LT_PMBus.cpp:300` "move values in order that prevents fault. However, there are no delays between
  changes": the order is chosen by READ_VOUT, and on a margined rail, or one that has not
  arrived at the voltage of the last call, it is the wrong one for VOUT_COMMAND (`VoutSupervision.cfg` with
  `CallsWhileMargined = TRUE` or `CallsWhileRamping = TRUE` violates `NoAlarm`). On a rise the
  lower limits are written whether or not the output has followed, and it may fault when the
  call returns (`INVARIANT FaultsPrevented`).
* `record_type_definitions.h:730` "Modify only the specified bits (set to 1 in
  byteMask) to be desiredDataByte": record 0x20 without PEC masks with the wrong variable
  (`main_record_processor.cpp:1500`), and clears the bits it is to set (`SwappedMask.cfg` with `Recipes <-
  ModifiesByte` violates
  `SuccessMeansSet`).
* `record_type_definitions.h:651` and `675`: the structs of 0x1C and 0x1D declare a header with a PEC byte,
  `parse_record` takes none (`hex_file_parser.cpp:460`): the mask is wrong and every later record a byte off
  (`SwappedMask.cfg` with `Recipes <- ModifiesWord` violates `RecordsAsWritten`).
* `LT_PMBus.cpp:1591` "1) Read READ_VOUT": `getVout` reads VOUT_COMMAND, so that `readTransient`
  (`LT_PMBusRail.cpp:448`) measures from the command; an output that lies below it without any dip is
  reported as a transient (`TransientSweep.cfg` with `INVARIANT DipOfTheOutput`).
* `LT_PMBusRail.cpp:432` "Skip LTC3882 Slave phases": the bit is chosen by the index of the page
  in its definition (`LT_PMBusRail.cpp:439`), which for a rail of the second page alone, or a merged one, is not the
  page: the slave is measured (`TransientSweep.cfg` with `INVARIANT SlavesSkipped`).
* `LT_2972FaultLog.h:189`: the ring can hold telemetry in a sixth loop; the LTC2972 prints five
  (`FaultLog` with it in `WholeParts` violates `WholeLogPrinted`).
* `LT_3880FaultLog.cpp:60`: buffers, words, CRCs and loops do not agree in seven controllers
  and the LTC2978, which print bytes never read (in `ReadParts`, `PrintsWhatWasRead`).
* `LT_PMBusApp.cpp:345-346` prints a page number with a status word, but sets no page.

Seen on the way and kept out of the models or the runs:

* Number formats: `float_to_lin16` on a machine with eight-byte `unsigned long` depends on
  what lies behind the float (`LT_PMBusMath.cpp:429`; `NumberFormats` has it, and its
  Linear16 properties are restricted by `Narrow`); `fl32_to_lin11` writes a value of
  512 * 2^-16 rounded up from below as 256 * 2^-15, the same value in another word (so
  `WriteBackKeeps` compares values); `LT_PMBus::L11_to_Float` (not built: `USE_FAST_MATH`)
  takes its exponent from the low byte (`LT_PMBus.cpp:3427`).
* Recipes: 0x1E after the words have been released reads freed memory (`nvm_data_helpers`; `Buffered` excludes
  such a recipe). 0x0C has a timeout (`record_type_definitions.h:283-293`), `waitForAck` loops without one
  (`LT_SMBusBase.cpp:326-343`). Empty data lines and lines of other types leave
  `parse_data_position` beyond the line (`hex_file_parser.cpp:215-276`). `flashLocation` wraps at
  65,536 characters (`data.h` has 8,535). `readFileData` drops the last character of each line.
  A loop that ends with a failure leaks a record. 0x1B writes 0xE6 without PEC.
* Transients: `max` starts anew at each definition, so that the last one decides;
  `readDutyCycle` looks at the terminator of the list after its loop.
* Transport: `LT_SMBusGroup::execute` says "Not implemented" and never ends queueing; transfers
  are tested with `== -1` only; `LT_SMBusGroup` passes the arguments of `writeBlock` in another
  order.
* Fault logs: the LTC3887, and the LTC3888 that `deviceType` takes for it, are missing in the
  lists of `enableFaultLog` and `disableFaultLog` (`LT_FaultLog.cpp:117-137`), which do nothing for them;
  `status & LTC2978_SFL_EEPROM > 0` compares first, harmlessly.
* Commands without a caller: `compareRamWithNvm` (`LT_PMBus.cpp:2700`) judges by a bit of
  the status byte that an earlier fault may have set, and ignores polls that gave up.

## 5. Proofs

`tlapm` checks every proof from nothing. Nothing is assumed but the named
assumptions on the constants, which TLC evaluates in the runs.

**InSystemProgrammingProofs**, for any chips, words and well-formed recipes:

* `TypeCorrect`: `Spec => []TypeOK`. Not inductive alone: that `pos` stays inside
  the recipe needs that a handler which loops stands at a record of its own type
  (`StepOK`). `IndInv == TypeOK /\ StepOK`.
* `BufferSafe`: `Spec => []BufferLive`, with `BufferInv`: between an NVM record
  and the next verify the buffer is live and holds that record's words. Well-formedness
  then supplies the block for each handler.
* `VerifyKeeps`: `Spec => VerifyKeepsEeprom`, from `IndInv`: in a verify run no step but
  the writing handlers could change an EEPROM, and these are never entered.
* `SuccessSound`: for governed recipes, `Spec => []SuccessMeansProgrammed`. The
  invariant has three more layers: sections (`SectionInv`: after an opening event the
  run heeds records, whatever the statics were before), keys (`KeyedInv`: after a key and
  a check, the chip is open at its first word) and comparisons (the words read so far
  are those of the buffer; verified chips still hold their image).
* `NoOverrun`: for recipes that are `Polled`, `Spec => []NeverOverrun`. The invariant, `ReadyInv`, says
  that a chip which the recipe has polled, and has not occupied since, is not busy, and that the loop
  over the words of a block is at a write only when the chip has finished the last.
* `ContractKept`: for governed recipes, `Spec => ImplementsContract`: initial states map
  to initial states and every step to a step of `NvmContract` or a stutter.

**VoutSupervisionProofs**, for any voltages, percentages and order-preserving
encoding, and any way the output takes to what is regulated: `NeverAlarms` (`[]NoAlarm`), when calls are made
only while the rail is not margined and has arrived; `TypeCorrect` (`[]TypeOK`) and `SafeMargins`
(`[]MarginsSafe`), for calls made at any time. `NoAlarm` is not inductive: half a
call later the limits are a mix. `Written` says, for each order, which registers
already hold the target; `Supervised` says where the output is between the old and the new command and, until
VOUT_COMMAND is written, on which side of the
old voltage the new one lies. Both together bracket the output at every write, also
for a call that starts from what a failed one left.

**TransientSweepProofs**, for any rails, phases, outputs and settings: `TypeCorrect`,
`MeasuresSafely` (`[]NeverTrips`), `KeepsSetUp` (`[]SetUpKept`) and `OverstatesNever`
(`[]NeverOverstates`, wherever outputs lie with respect to their commands). `NeverTrips` alone is not
inductive: while a limit may be above the output, the response of that phase must be
"ignore", also when the call was broken off there and another one has read that response as
the setting to put back. `SafeInv` says for each place in the call which registers have been
changed and what was read of them; `KeptInv` says that between calls every phase not in
`broken` is as stored, and inside a call that what was read is what is stored. `SweepInv` is about
the depth, while nothing was broken off and no write is queued: the voltage the sweep began with is the
command of the page it is at, and the limit is above the lowest output of the page only where the sweep is
about to see the fault, so that neither `max` nor the depth just measured exceeds the distance from a
command to the lowest output of its phase.

**FaultLogProofs**, for any set of parts: `ReadsInside` (`[]WritesInside`) and `LogPrinted`
(`[]PrintsTheLog`, when `LogParts` does not hold the LTC2978, whose failed reads nobody notices). The bytes written
are at most twice the words fetched (`Filled`), and of
each layout (`Sizes`) twice its words, and a block, fit its buffer. `Reading` says at which
stage of a read the chip holds a log and is at rest: a chip that is clearing its log was
waited for, so that a status that says "log" means one that is there or being stored; and a chip
that holds a log stores no other. The data port is then one count with the words (`Skipped`).

What is printed takes one part more, `Printing`: where the overlay has put the loops, that the bytes
printed lie between its first and its last valid one, and that every field shown of the loops
before the next is among them; the fields of a loop add up to its size
(`IInv == Typed /\ Reading /\ Filled /\ Printing`). From it follow
`TypeCorrect` (`[]TypeOK`);
`OnlyReadPrinted` (`[]PrintsWhatWasRead`) when `ReadParts` holds none but the six parts whose
sizes agree, and `WholeRingPrinted` (`[]WholeLogPrinted`) when `WholeParts` holds none but the
LTC2974 and the LTC2975. For the other parts the two sentences are false (section 4).

**BusSessionProofs**, for any chips, classes, rail addresses and pages left behind:
`EveryDeviceFound` (`[]DevicesFound`), `EveryDeviceObeyed` (`[]DevicesObeyed`) and `PagesLabelled`
(`[]LabelsTrue`). The invariant, `Session`, has four parts: the chips are on pages they have
(`ChipsKept`), the devices found so far are the chips among the addresses probed so far
(`Known`, `Located`), and, if every chip obeyed the detection, what PEC the chips may require
in each phase (`Following`): while detection runs, no more than the bus; in items 4 to 6, no more
than what the devices up to `at` were given. That a rail address is refused by each class rests on
the table of devices (`RailsRefused`). Addresses are ordered by rank, the number of addresses below.
`ChipsAssumption`, `RailsAssumption` and `PagesAssumption` say what a bus is.

`TypeCorrect` (`[]TypeOK`) adds how far the loops of the detection have come (`Walked`, which makes
`Typing` of `Session`). `EveryPhaseCounted` (`[]PhasesCounted`) holds for a bus whose chips have the pages
that `getRails` counts (`PagesAsCounted`). Its invariant, `Tallying`, says of the rails found so far what
the property says of all (`Counted`): no two of them are of one rail address or of one page, each counts
the phases taken so far behind its address, and each phase taken stands in one of them. A merge of two rails
adds what they count.

**RecipeFileProofs**, for any recipes whose records fit their structs (`RecipesAssumption`) and that have none of the
three records which the parser does not take as they are declared (`AllParsed`: no 0x1A, 0x1C and
0x1D), any size of line and any number of runs. `Parsing` is the invariant of the parser: the bytes taken from the file
are those of the records delivered, followed by the first bytes of the next one (`Delivery`, `UnderWay`), so that
neither where a line ends nor where an earlier run stopped makes a difference. From it follow
`TypeCorrect` (`[]TypeOK`, by `Typing`), `NeverBehindTheEnd` (`[]InsideFile`) and
`DeliversTheFile` (`[]RecordsAsWritten`): decoding a struct is the inverse
of encoding it, type by type. `HeedsSections` (`[]SectionsHeeded`) has `Sectioned`: after an event that opens
a section, and until the next event, `ignore_records` is FALSE, whatever the run before left in it. `Halfway` says
that between the two transfers of a handler
the register still is what was read of it; `FailsIfDifferent` (`FailIfDifferent`) and
`LeavesTheRest` (`[]Untouched`, of the bits that no recipe names and no record overrides) rest on it. `SetsWhatItNames`
(`[]SuccessMeansSet`) has `Setting` as its invariant: of the first n records, those that the run did not skip,
the last one that asks for a bit has it as it asks. Its recipes are `Obeyed`: a record has the PEC that its chip needs and is
not 0x20 without PEC (section 4).

**NumberFormatsProofs**, for any set of floats, any VOUT_MODE and any high bits: `TypeCorrect`
(`[]TypeOK`), `GetsTheValue` (`[]ReadsExactly`), `SetsTheNearest` (`[]WritesNearest`), `WritesBack`
(`WriteBackKeeps`) and `OrderKept` (`KeepsOrder`). The invariants are small: `AsRead` says that what a
caller has just read is the register's value, `Settled` that the register is the conversion of
what was last written to it. The work is in the lemmas on the conversions: `Near` says on integers, in powers
of two, what the nearest number and a tie are; `Kept` says which float is read back of one that was
written, from which both the way back and the order follow. `SetsTheNearest` and `OrderKept` suppose `NoneToTheTop`:
no caller writes
a voltage that rounds up to 2^16 units. The finding `mantissa_overflow` is what happens there; TLC evaluates
that the floats of the runs are of the kind supposed.

**SumLemmas**: a set of naturals that holds 0 and with each number the next one holds all of them
(`SetInduction`). Every induction of these proofs (sums of field sizes, pages counted over the rails, bytes of
records, powers of two) is an instance of it, with the set of the numbers for which the claim holds.

Every invariant and every action property of the passing runs is stated by a theorem. Only
`RunsEnd` is model-checked alone: liveness under fairness is beyond the prover. No module with a theorem uses
RECURSIVE operators; loops over data are recursive functions or folds.

## 6. Assumptions about what is not in the source

* READ_VOUT is the output, which follows what the rail regulates as slowly as it likes, and without overshoot:
  the code waits for nothing.
* A chip that requires PEC ignores a write without and answers a read. A paged
  read while PAGE is 0xFF is of any page; a chip ignores a page that it lacks.
* A rail address answers as a chip behind it, and its MFR_RAIL_ADDRESS reads as itself.
* EEPROM commands: 0x2B then 0xD4 opens, any other key locks, an erase locks, and so
  does the last word; a read of an EEPROM that is not open returns anything.
* A block read returns at most 32 bytes.
* A restored or reset chip is as its EEPROM has it, which does not require PEC; PAGE is not kept
  there.
* A failed transfer shows as -1, which the code turns into an exception, but for `readBlock`, whose `uint8_t`
  never equals -1: there it goes unnoticed (`FetchBlock`).
* A chip compares its output with the undervoltage limit at any time; a fault that is not
  ignored shuts the rail down.
* A chip at work with its log takes no other command, and its status may say either; the pause of the
  LTC2978 is long enough; the key sequence and 0xEE set a data port to its beginning.
* Programming: `wait_for_nvm` is long enough for every chip to settle.

## 7. Limits of the models

* `PhasesCounted`, `DevicesObeyed` and `LabelsTrue` hold for detections that every
  chip obeyed. After a restart with chips left requiring PEC, rails and labels are
  wrong; that all devices are still found is checked (`DevicesFound`).
* `PhasesCounted` supposes `PagesAsCounted`; the bus of `bus_session` has no LTC3883 (it has one page
  and is asked for two), LTC2975 and LTC2978 (constructed with another number of pages than they
  have rails): their rails are known to differ.
* `ClearDevice` is one step: which pages of a chip were cleared before a failure is not
  told apart.
* `PrintsTheLog` excepts a log whose clearing was not waited for: `waitForNotBusy` may give up, or
  the process may die in it, and a print that follows at once may then read an erased log.
  A chip of `FaultLog` obeys: PEC is the concern of `BusSession`.
* `InSystemProgramming` leaves out what handlers compute on the bits of a register and
  the decoding of the recipe file, which are `RecipeFile`'s, and the RAM that a reset loads;
  `RecipeFile` leaves out the words of an EEPROM, which are `InSystemProgramming`'s.
* `RecipeFile` assumes files of fewer than 65,536 characters (`RecipesAssumption`), without empty
  lines and without lines of other types, in which words are written only while they are buffered (`Buffered`).
* What is checked and proved of recipes supposes that they have no 0x1A, 0x1C and 0x1D (`ParsedAsDeclared`),
  `SuccessMeansSet` also that they are `Obeyed`; what happens otherwise is in section 4.
* `NoAlarm` is about calls on a rail that is not margined and has arrived; before it arrives it may alarm on the side
  it comes from, as the comment at `LT_PMBus.cpp:300` warns.
* `PrintsTheLog` holds of the thirteen parts that are read word by word (`LogParts`); of the LTC2978 see `failed_block`.
* `NeverOverstates` is about the distance to VOUT_COMMAND, from which the code measures; that slaves are skipped
  is not true of all rails (section 4) and no property of a passing run.
* `WritesNearest` and `KeepsOrder` suppose that no voltage written rounds up to 2^16 units (`NoneToTheTop`).
* Not modelled because nothing calls them: the commands that unlock, erase, read and compare
  an EEPROM through `LT_PMBus`, `bricks`, the alert response, `crc8`.
* Telemetry getters, and the sums and averages of rails, pass values through and are left out.
* Not modelled, for good: the speed test, `malloc` failing, the text of what is printed.

## 8. Plan

In the order of what matters most; all but the last step are done.

1. `InSystemProgramming`, `NvmContract`, with proofs: the programming of EEPROMs.
2. `VoutSupervision`, with proofs: changes of a live rail.
3. `FaultLog`, with proofs: reads, layouts, and the life of a log in the chip.
4. `DeviceTable`, `BusSession`, with proofs: detection, rails, PAGE and PEC.
5. `NumberFormats`, with proofs: the conversions everything else relies on.
6. `RecordHandlers` and `RecipeFile`, with proofs: what each record does, and the parser in front of it.
7. `TransientSweep`, with proofs: a measurement that moves a limit of a live rail, over the
   queue of `LT_SMBusGroup`.
8. Proofs of what was only model-checked: `NeverOverrun`, from a property of recipes, what logs print,
   the phases counted, the types. What is left to TLC is `RunsEnd`.
9. `SMBusHandle`: the shared descriptor, the driver's PEC flag, the table of found
   addresses; `waitForAck`, which loops until the bus answers.
