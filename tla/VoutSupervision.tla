-------------------------- MODULE VoutSupervision --------------------------
(***************************************************************************)
(* LT_PMBus::setVoutWithSupervision: a new output voltage is set together  *)
(* with its margins, its warning limits and its fault limits, seven words  *)
(* written one after the other, "in order that prevents fault".  Between   *)
(* calls the caller margins the rail (OPERATION); a transfer that fails    *)
(* leaves a call unfinished, and the registers between two settings.  The  *)
(* rail follows its command as slowly as it likes: "there are no delays    *)
(* between changes".                                                       *)
(***************************************************************************)
EXTENDS Integers, Sequences

CONSTANTS Volts,       \* the voltages asked for
          Percents,    \* what a call is given: [margin, warn, fault], in units of 1/Scale
          Scale,
          Top,         \* bounds the voltages sent, in units of 1/Scale
          Encode(_),   \* float_to_lin16 of such a voltage
          Decode(_),   \* lin16_to_float of such a word
          CallsWhileMargined, \* does the caller also call while the rail is margined?
          CallsWhileRamping   \* ... and before the output has arrived?

Codes == {Encode(x) : x \in 0..Top}

ASSUME LevelsAssumption ==
  /\ Volts \subseteq Nat
  /\ Scale \in Nat \ {0}
  /\ Top \in Nat
  /\ CallsWhileMargined \in BOOLEAN
  /\ CallsWhileRamping \in BOOLEAN
  /\ \A p \in Percents : /\ p \in [margin : Nat, warn : Nat, fault : Nat]
                         /\ p.margin <= p.warn
                         /\ p.warn <= p.fault
                         /\ p.fault <= Scale
                         /\ \A v \in Volts : v * (Scale + p.fault) <= Top

(* What the conversions do (LT_PMBusMath.cpp) below the largest word: they  *)
(* round, so that they keep the order, and a word survives the round trip. *)
ASSUME EncodeAssumption ==
  /\ \A x \in 0..Top : Encode(x) \in Nat
  /\ \A x \in 0..Top : \A y \in 0..Top : x <= y => Encode(x) <= Encode(y)
  /\ \A c \in Codes : Decode(c) \in 0..Top /\ Encode(Decode(c)) = c

Register == {"VOUT_OV_FAULT_LIMIT", "VOUT_OV_WARN_LIMIT", "VOUT_MARGIN_HIGH",
             "VOUT_COMMAND", "VOUT_MARGIN_LOW", "VOUT_UV_WARN_LIMIT", "VOUT_UV_FAULT_LIMIT"}

VARIABLES
  reg,        \* the registers of the rail
  operation,  \* OPERATION of the rail
  output,     \* its output voltage, as a word of READ_VOUT
  branch,     \* the order a call writes in: "raise" or "lower"; "none" between calls
  at,         \* the next of its writes
  target,     \* what the call writes
  complete    \* the last call wrote all of it

vars == <<reg, operation, output, branch, at, target, complete>>

Operation == {"ON", "MARGIN_HIGH", "MARGIN_LOW"}

TypeOK == /\ reg \in [Register -> Codes]
          /\ operation \in Operation
          /\ output \in Codes
          /\ branch \in {"none", "raise", "lower"}
          /\ at \in 1..7
          /\ target \in [Register -> Codes]
          /\ complete \in BOOLEAN

Target(v, p) ==
  [r \in Register |->
     CASE r = "VOUT_OV_FAULT_LIMIT" -> Encode(v * (Scale + p.fault))
       [] r = "VOUT_OV_WARN_LIMIT" -> Encode(v * (Scale + p.warn))
       [] r = "VOUT_MARGIN_HIGH" -> Encode(v * (Scale + p.margin))
       [] r = "VOUT_COMMAND" -> Encode(v * Scale)
       [] r = "VOUT_MARGIN_LOW" -> Encode(v * (Scale - p.margin))
       [] r = "VOUT_UV_WARN_LIMIT" -> Encode(v * (Scale - p.warn))
       [] r = "VOUT_UV_FAULT_LIMIT" -> Encode(v * (Scale - p.fault))]

(* The voltage that OPERATION selects.                                     *)
Regulated == CASE operation = "ON" -> reg["VOUT_COMMAND"]
               [] operation = "MARGIN_HIGH" -> reg["VOUT_MARGIN_HIGH"]
               [] operation = "MARGIN_LOW" -> reg["VOUT_MARGIN_LOW"]

(* A rail set up by an earlier call, at its voltage and not margined.      *)
Init == /\ \E v \in Volts, p \in Percents : reg = Target(v, p)
        /\ operation = "ON"
        /\ output = reg["VOUT_COMMAND"]
        /\ branch = "none"
        /\ at = 1
        /\ target = reg
        /\ complete = TRUE

(* The output moves some way towards that voltage, and never past it: how   *)
(* far it gets between two transfers is not up to the program.             *)
Regulate == \E c \in Codes :
              /\ (output < c /\ c <= Regulated) \/ (Regulated <= c /\ c < output)
              /\ output' = c
              /\ UNCHANGED <<reg, operation, branch, at, target, complete>>

(* The call reads READ_VOUT and compares it with the voltage asked for: the *)
(* output, not the VOUT_COMMAND that it is to replace.                     *)
Call(v, p) == /\ branch = "none"
              /\ operation = "ON" \/ CallsWhileMargined
              /\ output = Regulated \/ CallsWhileRamping
              /\ branch' = IF v * Scale >= Decode(output) THEN "raise" ELSE "lower"
              /\ target' = Target(v, p)
              /\ complete' = FALSE
              /\ UNCHANGED <<reg, operation, output, at>>

(* The upper limits go first when the voltage rises, the lower ones when it *)
(* falls.                                                                  *)
Raising == <<"VOUT_OV_FAULT_LIMIT", "VOUT_OV_WARN_LIMIT", "VOUT_MARGIN_HIGH", "VOUT_COMMAND",
             "VOUT_MARGIN_LOW", "VOUT_UV_WARN_LIMIT", "VOUT_UV_FAULT_LIMIT">>

Lowering == <<"VOUT_UV_FAULT_LIMIT", "VOUT_UV_WARN_LIMIT", "VOUT_MARGIN_LOW", "VOUT_COMMAND",
              "VOUT_MARGIN_HIGH", "VOUT_OV_WARN_LIMIT", "VOUT_OV_FAULT_LIMIT">>

(* Mutant of Destination: one order for both.                              *)
DestinationRaising == Raising[at]

(* The register of the next write.                                         *)
Destination == IF branch = "raise" THEN Raising[at] ELSE Lowering[at]

(* Mutant of Write: the last limit of a call is not written.               *)
WriteSix == /\ branch # "none"
            /\ reg' = [reg EXCEPT ![Destination] = target[Destination]]
            /\ IF at < 6
                 THEN at' = at + 1 /\ UNCHANGED <<branch, complete>>
                 ELSE at' = 1 /\ branch' = "none" /\ complete' = TRUE
            /\ UNCHANGED <<operation, output, target>>

(* Mutant of Write: the order is run past its end.                         *)
WriteEight == /\ branch # "none"
              /\ at <= 7
              /\ reg' = [reg EXCEPT ![Destination] = target[Destination]]
              /\ at' = at + 1
              /\ UNCHANGED <<operation, output, branch, target, complete>>

(* setVoutOvFaultLimit, setVoutOvWarnLimit, setVoutMarginHigh, setVout, ... *)
Write == /\ branch # "none"
         /\ reg' = [reg EXCEPT ![Destination] = target[Destination]]
         /\ IF at < 7
              THEN at' = at + 1 /\ UNCHANGED <<branch, complete>>
              ELSE at' = 1 /\ branch' = "none" /\ complete' = TRUE
         /\ UNCHANGED <<operation, output, target>>

(* A transfer fails: the exception leaves the call.                        *)
Fail == /\ branch # "none"
        /\ branch' = "none" /\ at' = 1
        /\ UNCHANGED <<reg, operation, output, target, complete>>

(* marginHigh, marginLow, marginOff.                                       *)
Margin(op) == /\ branch = "none"
              /\ operation' = op
              /\ UNCHANGED <<reg, output, branch, at, target, complete>>

Next == \/ \E v \in Volts, p \in Percents : Call(v, p)
        \/ Write
        \/ Regulate
        \/ Fail
        \/ \E op \in Operation : Margin(op)

Spec == Init /\ [][Next]_vars

-----------------------------------------------------------------------------
OverVoltage == output > reg["VOUT_OV_WARN_LIMIT"] \/ output > reg["VOUT_OV_FAULT_LIMIT"]

UnderVoltage == output < reg["VOUT_UV_WARN_LIMIT"] \/ output < reg["VOUT_UV_FAULT_LIMIT"]

(* A rail that is not margined, and whose calls wait for the output of the   *)
(* last one, is never led into an alarm: however far the output lags behind *)
(* the writes, it alarms only on the side it comes from, never once it has  *)
(* arrived, and never on the side that the order of the writes protects;    *)
(* not with the percentages of one call and the voltage of another, not     *)
(* after a call that failed half way, nor in the calls after that one.      *)
NoAlarm == operation = "ON" =>
             /\ OverVoltage => output > reg["VOUT_COMMAND"] /\ branch # "raise"
             /\ UnderVoltage => output < reg["VOUT_COMMAND"] /\ branch # "lower"

(* After a complete call the rail may be margined either way: the margins   *)
(* are inside the warning limits and these inside the fault limits.        *)
MarginsSafe == complete =>
  LET level == [i \in 1..7 |-> reg[Raising[i]]]
  IN  \A i \in 1..6 : level[i] >= level[i + 1]

(* What "in order that prevents fault" might be read as, and is not so (no   *)
(* run checks it): a rail is between its fault limits when a call returns.  *)
(* The output need not have risen above the lower ones by then.            *)
FaultsPrevented == complete /\ operation = "ON" =>
                     /\ reg["VOUT_UV_FAULT_LIMIT"] <= output
                     /\ output <= reg["VOUT_OV_FAULT_LIMIT"]
=============================================================================
