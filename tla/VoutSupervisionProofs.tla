----------------------- MODULE VoutSupervisionProofs -----------------------
(***************************************************************************)
(* For every set of voltages, percentages and every rounding that keeps    *)
(* the order: a complete call leaves safe margins, and a rail called only  *)
(* while it is settled and not margined is never led into an alarm,        *)
(* however slowly it follows (VoutSupervision).                            *)
(***************************************************************************)
EXTENDS VoutSupervision, TLAPS

(* The seven levels of a setting, from the highest down.                   *)
Descending(f) == /\ f["VOUT_OV_FAULT_LIMIT"] >= f["VOUT_OV_WARN_LIMIT"]
                 /\ f["VOUT_OV_WARN_LIMIT"] >= f["VOUT_MARGIN_HIGH"]
                 /\ f["VOUT_MARGIN_HIGH"] >= f["VOUT_COMMAND"]
                 /\ f["VOUT_COMMAND"] >= f["VOUT_MARGIN_LOW"]
                 /\ f["VOUT_MARGIN_LOW"] >= f["VOUT_UV_WARN_LIMIT"]
                 /\ f["VOUT_UV_WARN_LIMIT"] >= f["VOUT_UV_FAULT_LIMIT"]

(* The commanded voltage is inside the limits.                             *)
Bracketed(f) == /\ f["VOUT_OV_FAULT_LIMIT"] >= f["VOUT_COMMAND"]
                /\ f["VOUT_OV_WARN_LIMIT"] >= f["VOUT_COMMAND"]
                /\ f["VOUT_COMMAND"] >= f["VOUT_UV_WARN_LIMIT"]
                /\ f["VOUT_COMMAND"] >= f["VOUT_UV_FAULT_LIMIT"]

(* What a call has done before its write number at, in either order.       *)
Done(i, r) == at > i => reg[r] = target[r]

RaiseDone ==
  branch = "raise" =>
    /\ Done(1, "VOUT_OV_FAULT_LIMIT") /\ Done(2, "VOUT_OV_WARN_LIMIT")
    /\ Done(3, "VOUT_MARGIN_HIGH") /\ Done(4, "VOUT_COMMAND")
    /\ Done(5, "VOUT_MARGIN_LOW") /\ Done(6, "VOUT_UV_WARN_LIMIT")

LowerDone ==
  branch = "lower" =>
    /\ Done(1, "VOUT_UV_FAULT_LIMIT") /\ Done(2, "VOUT_UV_WARN_LIMIT")
    /\ Done(3, "VOUT_MARGIN_LOW") /\ Done(4, "VOUT_COMMAND")
    /\ Done(5, "VOUT_MARGIN_HIGH") /\ Done(6, "VOUT_OV_WARN_LIMIT")

(* What holds of every call: its writes are those of one setting.          *)
Written == /\ TypeOK
           /\ Descending(target)
           /\ branch # "none" => complete = FALSE
           /\ branch = "none" => at = 1
           /\ complete = TRUE => Descending(reg)
           /\ RaiseDone
           /\ LowerDone

(* A call that raises the voltage has the output below the command, before  *)
(* the command is written and while the output follows.                    *)
Rising == branch = "raise" =>
            /\ at <= 4 => target["VOUT_COMMAND"] >= reg["VOUT_COMMAND"]
            /\ output <= reg["VOUT_COMMAND"]

Falling == branch = "lower" =>
             /\ at <= 4 => reg["VOUT_COMMAND"] >= target["VOUT_COMMAND"]
             /\ reg["VOUT_COMMAND"] <= output

(* What holds of calls on a settled rail.                                  *)
Supervised == /\ Bracketed(reg)
              /\ branch # "none" => operation = "ON"
              /\ Rising
              /\ Falling

-----------------------------------------------------------------------------
LEMMA CodesAreNat == Codes \subseteq Nat
BY EncodeAssumption DEF Codes

(* A level a call asks for: its distance from zero is within Top.          *)
LEMMA LevelBounds ==
  ASSUME NEW v \in Volts, NEW q \in Nat, NEW p \in Percents, q <= p.fault
  PROVE  /\ v * (Scale + q) \in 0..Top
         /\ v * (Scale - q) \in 0..Top
         /\ v * Scale \in 0..Top
         /\ v * (Scale - q) <= v * Scale
         /\ v * Scale <= v * (Scale + q)
<1>1. /\ v \in Nat /\ Scale \in Nat /\ Top \in Nat /\ p.fault \in Nat
      /\ p.fault <= Scale /\ v * (Scale + p.fault) <= Top
  BY LevelsAssumption
<1> DEFINE f == p.fault
<1>2. f \in Nat /\ q <= f /\ f <= Scale /\ v * (Scale + f) <= Top
  BY <1>1
<1> HIDE DEF f
<1>3. /\ v * (Scale + q) = v * Scale + v * q
      /\ v * (Scale - q) = v * Scale - v * q
      /\ v * (Scale + f) = v * Scale + v * f
  BY <1>1, <1>2, SMT
<1>4. v * q \in Nat /\ v * Scale \in Nat /\ v * f \in Nat
  BY <1>1, <1>2, SMT
<1>5. v * q <= v * f
  <2>1. \A a, b, c \in Nat : b <= c => a * b <= a * c
    BY SMT
  <2>2. QED BY <2>1, <1>1, <1>2
<1>6. v * q <= v * Scale
  <2>1. \A a, b, c \in Nat : b <= c => a * b <= a * c
    BY SMT
  <2>2. q <= Scale BY <1>1, <1>2
  <2>3. QED BY <2>1, <2>2, <1>1
<1>7. QED BY <1>1, <1>2, <1>3, <1>4, <1>5, <1>6, SMT

(* More for a percentage further out, on either side.                      *)
LEMMA LevelOrder ==
  ASSUME NEW v \in Volts, NEW p \in Percents, NEW q \in Nat, NEW s \in Nat,
         q <= s, s <= p.fault
  PROVE  /\ v * (Scale + q) <= v * (Scale + s)
         /\ v * (Scale - s) <= v * (Scale - q)
<1>1. v \in Nat /\ Scale \in Nat
  BY LevelsAssumption
<1>2. v * q <= v * s
  <2>1. \A a, b, c \in Nat : b <= c => a * b <= a * c
    BY SMT
  <2>2. QED BY <2>1, <1>1
<1>3. /\ v * (Scale + q) = v * Scale + v * q
      /\ v * (Scale + s) = v * Scale + v * s
      /\ v * (Scale - q) = v * Scale - v * q
      /\ v * (Scale - s) = v * Scale - v * s
  BY <1>1, SMT
<1>4. v * q \in Nat /\ v * s \in Nat /\ v * Scale \in Nat
  BY <1>1, SMT
<1>5. QED BY <1>2, <1>3, <1>4, SMT

(* What a call writes is a setting with its levels in order.               *)
LEMMA TargetDescends ==
  ASSUME NEW v \in Volts, NEW p \in Percents
  PROVE  Target(v, p) \in [Register -> Codes] /\ Descending(Target(v, p))
<1> DEFINE m == p.margin
           w == p.warn
           f == p.fault
<1>1. m \in Nat /\ w \in Nat /\ f \in Nat /\ m <= w /\ w <= f /\ f <= p.fault /\ m <= f
  BY LevelsAssumption
<1>2. /\ v * (Scale + f) \in 0..Top /\ v * (Scale - f) \in 0..Top /\ v * Scale \in 0..Top
  BY <1>1, LevelBounds
<1>3. /\ v * (Scale + w) \in 0..Top /\ v * (Scale - w) \in 0..Top
  BY <1>1, LevelBounds
<1>4. /\ v * (Scale + m) \in 0..Top /\ v * (Scale - m) \in 0..Top
      /\ v * (Scale - m) <= v * Scale /\ v * Scale <= v * (Scale + m)
  BY <1>1, LevelBounds
<1>5. v * (Scale + w) <= v * (Scale + f) /\ v * (Scale - f) <= v * (Scale - w)
  BY <1>1, LevelOrder
<1>6. v * (Scale + m) <= v * (Scale + w) /\ v * (Scale - w) <= v * (Scale - m)
  BY <1>1, LevelOrder
<1> DEFINE T == Target(v, p)
<1>7. /\ T["VOUT_OV_FAULT_LIMIT"] = Encode(v * (Scale + f))
      /\ T["VOUT_OV_WARN_LIMIT"] = Encode(v * (Scale + w))
      /\ T["VOUT_MARGIN_HIGH"] = Encode(v * (Scale + m))
      /\ T["VOUT_COMMAND"] = Encode(v * Scale)
      /\ T["VOUT_MARGIN_LOW"] = Encode(v * (Scale - m))
      /\ T["VOUT_UV_WARN_LIMIT"] = Encode(v * (Scale - w))
      /\ T["VOUT_UV_FAULT_LIMIT"] = Encode(v * (Scale - f))
      /\ T = [r \in Register |-> T[r]]
  BY DEF Target, Register
<1>8. /\ Encode(v * (Scale + f)) \in Codes /\ Encode(v * (Scale + w)) \in Codes
      /\ Encode(v * (Scale + m)) \in Codes /\ Encode(v * Scale) \in Codes
      /\ Encode(v * (Scale - m)) \in Codes /\ Encode(v * (Scale - w)) \in Codes
      /\ Encode(v * (Scale - f)) \in Codes
  BY <1>2, <1>3, <1>4 DEF Codes
<1>9. /\ Encode(v * (Scale - f)) <= Encode(v * (Scale - w))
      /\ Encode(v * (Scale - w)) <= Encode(v * (Scale - m))
      /\ Encode(v * (Scale - m)) <= Encode(v * Scale)
      /\ Encode(v * Scale) <= Encode(v * (Scale + m))
      /\ Encode(v * (Scale + m)) <= Encode(v * (Scale + w))
      /\ Encode(v * (Scale + w)) <= Encode(v * (Scale + f))
  BY <1>2, <1>3, <1>4, <1>5, <1>6, EncodeAssumption
<1> HIDE DEF T, m, w, f
<1>10. T \in [Register -> Codes]
  BY <1>7, <1>8 DEF Register
<1>11. /\ T["VOUT_OV_FAULT_LIMIT"] \in Nat /\ T["VOUT_OV_WARN_LIMIT"] \in Nat
       /\ T["VOUT_MARGIN_HIGH"] \in Nat /\ T["VOUT_COMMAND"] \in Nat
       /\ T["VOUT_MARGIN_LOW"] \in Nat /\ T["VOUT_UV_WARN_LIMIT"] \in Nat
       /\ T["VOUT_UV_FAULT_LIMIT"] \in Nat
  BY <1>7, <1>8, CodesAreNat
<1>12. Descending(T)
  BY <1>7, <1>9, <1>11 DEF Descending
<1>13. QED BY <1>10, <1>12 DEF T

-----------------------------------------------------------------------------
(* A setting in order brackets its voltage.                                *)
LEMMA DescendingBrackets ==
  ASSUME NEW f \in [Register -> Codes], Descending(f)
  PROVE  Bracketed(f)
<1>1. \A r \in Register : f[r] \in Nat
  BY CodesAreNat
<1>2. QED BY <1>1 DEF Descending, Bracketed, Register

LEMMA RegistersAreNat ==
  ASSUME NEW f \in [Register -> Codes]
  PROVE  /\ f["VOUT_OV_FAULT_LIMIT"] \in Nat /\ f["VOUT_OV_WARN_LIMIT"] \in Nat
         /\ f["VOUT_MARGIN_HIGH"] \in Nat /\ f["VOUT_COMMAND"] \in Nat
         /\ f["VOUT_MARGIN_LOW"] \in Nat /\ f["VOUT_UV_WARN_LIMIT"] \in Nat
         /\ f["VOUT_UV_FAULT_LIMIT"] \in Nat
BY CodesAreNat DEF Register

LEMMA InitWritten == Init => Written /\ Supervised
<1> SUFFICES ASSUME Init PROVE Written /\ Supervised
  OBVIOUS
<1>1. PICK v \in Volts, p \in Percents : reg = Target(v, p)
  BY DEF Init
<1>2. reg \in [Register -> Codes] /\ Descending(reg)
  BY <1>1, TargetDescends
<1>3. Bracketed(reg)
  BY <1>2, DescendingBrackets
<1>4. TypeOK
  BY <1>2 DEF Init, TypeOK, Operation, Register
<1>5. QED BY <1>2, <1>3, <1>4
           DEF Init, Written, Supervised, RaiseDone, LowerDone, Rising, Falling

LEMMA CallWrites ==
  ASSUME Written, NEW v \in Volts, NEW p \in Percents, Call(v, p)
  PROVE  Written'
<1>1. /\ branch = "none" /\ at = 1
      /\ target' = Target(v, p) /\ complete' = FALSE
      /\ reg' = reg /\ operation' = operation /\ output' = output /\ at' = at
      /\ branch' \in {"raise", "lower"}
  BY DEF Call, Written
<1>2. target' \in [Register -> Codes] /\ Descending(target')
  BY <1>1, TargetDescends
<1>3. TypeOK'
  BY <1>1, <1>2 DEF TypeOK, Written
<1>4. RaiseDone' /\ LowerDone'
  BY <1>1 DEF RaiseDone, LowerDone, Done
<1>5. QED BY <1>1, <1>2, <1>3, <1>4 DEF Written

(* A call on a settled rail compares the voltage with the commanded one: it *)
(* rises or falls as the order it chooses supposes.                        *)
LEMMA CallOrders ==
  ASSUME CallsWhileMargined = FALSE, CallsWhileRamping = FALSE,
         Written, Supervised,
         NEW v \in Volts, NEW p \in Percents, Call(v, p)
  PROVE  Supervised'
<1>1. /\ branch = "none" /\ operation = "ON" /\ output = Regulated
      /\ target' = Target(v, p)
      /\ reg' = reg /\ operation' = operation /\ output' = output
      /\ branch' = IF v * Scale >= Decode(output) THEN "raise" ELSE "lower"
  BY DEF Call
<1>2. target' \in [Register -> Codes]
  BY <1>1, TargetDescends
<1>3. reg \in [Register -> Codes] /\ output = reg["VOUT_COMMAND"] /\ output \in Codes
  BY <1>1 DEF Written, TypeOK, Regulated
<1>4. target'["VOUT_COMMAND"] = Encode(v * Scale)
  BY <1>1 DEF Target, Register
<1>5. v * Scale \in 0..Top
  <2>1. 0 \in Nat /\ 0 <= p.fault
    BY LevelsAssumption
  <2>2. QED BY <2>1, LevelBounds
<1>6. Decode(output) \in 0..Top /\ Encode(Decode(output)) = output
  BY <1>3, EncodeAssumption
<1>7. /\ v * Scale >= Decode(output) => target'["VOUT_COMMAND"] >= reg["VOUT_COMMAND"]
      /\ ~(v * Scale >= Decode(output)) => reg["VOUT_COMMAND"] >= target'["VOUT_COMMAND"]
  <2> DEFINE x == v * Scale
             y == Decode(output)
  <2>1. x \in 0..Top /\ y \in 0..Top
    BY <1>5, <1>6
  <2>2. x >= y => Encode(y) <= Encode(x)
    BY <2>1, EncodeAssumption, LevelsAssumption
  <2>3. ~(x >= y) => Encode(x) <= Encode(y)
    <3>1. ~(x >= y) => x <= y
      BY <2>1, LevelsAssumption
    <3>2. QED BY <2>1, <3>1, EncodeAssumption
  <2>4. Encode(x) \in Nat /\ Encode(y) \in Nat
    BY <2>1, EncodeAssumption
  <2> HIDE DEF x, y
  <2>5. x >= y => target'["VOUT_COMMAND"] >= reg["VOUT_COMMAND"]
    BY <2>2, <2>4, <1>3, <1>4, <1>6 DEF x, y
  <2>6. ~(x >= y) => reg["VOUT_COMMAND"] >= target'["VOUT_COMMAND"]
    BY <2>3, <2>4, <1>3, <1>4, <1>6 DEF x, y
  <2>7. QED BY <2>5, <2>6 DEF x, y
<1>8. output \in Nat
  BY <1>3, CodesAreNat
<1>9. Rising' /\ Falling'
  BY <1>1, <1>3, <1>7, <1>8 DEF Rising, Falling
<1>10. QED BY <1>1, <1>9 DEF Supervised

(* The order of the writes, each by its name.                              *)
LEMMA Orders ==
  /\ Raising[1] = "VOUT_OV_FAULT_LIMIT" /\ Raising[2] = "VOUT_OV_WARN_LIMIT"
  /\ Raising[3] = "VOUT_MARGIN_HIGH" /\ Raising[4] = "VOUT_COMMAND"
  /\ Raising[5] = "VOUT_MARGIN_LOW" /\ Raising[6] = "VOUT_UV_WARN_LIMIT"
  /\ Raising[7] = "VOUT_UV_FAULT_LIMIT"
  /\ Lowering[1] = "VOUT_UV_FAULT_LIMIT" /\ Lowering[2] = "VOUT_UV_WARN_LIMIT"
  /\ Lowering[3] = "VOUT_MARGIN_LOW" /\ Lowering[4] = "VOUT_COMMAND"
  /\ Lowering[5] = "VOUT_MARGIN_HIGH" /\ Lowering[6] = "VOUT_OV_WARN_LIMIT"
  /\ Lowering[7] = "VOUT_OV_FAULT_LIMIT"
BY DEF Raising, Lowering

(* What a write does to the registers and to the call.                     *)
LEMMA WriteSets ==
  ASSUME Written, Write
  PROVE  /\ branch \in {"raise", "lower"} /\ at \in 1..7
         /\ Destination \in Register
         /\ reg' \in [Register -> Codes] /\ reg'[Destination] = target[Destination]
         /\ \A r \in Register : r # Destination => reg'[r] = reg[r]
         /\ operation' = operation /\ output' = output /\ target' = target
         /\ at < 7 => at' = at + 1 /\ branch' = branch /\ complete' = complete
         /\ ~(at < 7) => at' = 1 /\ branch' = "none" /\ complete' = TRUE
<1>1. /\ branch \in {"raise", "lower"} /\ at \in 1..7
      /\ reg \in [Register -> Codes] /\ target \in [Register -> Codes]
  BY DEF Written, TypeOK, Write
<1>2. Destination \in Register
  BY <1>1, Orders DEF Destination, Register
<1>3. reg' = [reg EXCEPT ![Destination] = target[Destination]]
  BY DEF Write
<1>4. /\ reg' \in [Register -> Codes] /\ reg'[Destination] = target[Destination]
      /\ \A r \in Register : r # Destination => reg'[r] = reg[r]
  BY <1>1, <1>2, <1>3
<1>5. /\ operation' = operation /\ output' = output /\ target' = target
      /\ at < 7 => at' = at + 1 /\ branch' = branch /\ complete' = complete
      /\ ~(at < 7) => at' = 1 /\ branch' = "none" /\ complete' = TRUE
  BY DEF Write
<1>6. QED BY <1>1, <1>2, <1>4, <1>5

LEMMA WriteWrites ==
  ASSUME Written, Write
  PROVE  Written'
<1>1. /\ branch \in {"raise", "lower"} /\ at \in 1..7
      /\ reg \in [Register -> Codes] /\ target \in [Register -> Codes]
      /\ Descending(target) /\ complete = FALSE
      /\ operation \in Operation /\ output \in Codes
  BY DEF Written, TypeOK, Write
<1>2. /\ Destination \in Register
      /\ reg' \in [Register -> Codes] /\ reg'[Destination] = target[Destination]
      /\ \A r \in Register : r # Destination => reg'[r] = reg[r]
      /\ operation' = operation /\ output' = output /\ target' = target
      /\ at < 7 => at' = at + 1 /\ branch' = branch /\ complete' = complete
      /\ ~(at < 7) => at' = 1 /\ branch' = "none" /\ complete' = TRUE
  BY WriteSets
<1>3. ~(at < 7) => at = 7
  BY <1>1
<1>4. complete' = TRUE => at = 7
  BY <1>1, <1>2, <1>3, Zenon
<1>5. /\ complete' \in BOOLEAN
      /\ branch' # "none" => complete' = FALSE
  <2>1. CASE at < 7
    BY <2>1, <1>1, <1>2, Zenon
  <2>2. CASE ~(at < 7)
    BY <2>2, <1>2, Zenon
  <2>3. QED BY <2>1, <2>2, Zenon
<1>6. /\ TypeOK' /\ Descending(target')
      /\ branch' # "none" => complete' = FALSE
      /\ branch' = "none" => at' = 1
  <2>1. branch' \in {"none", "raise", "lower"} /\ at' \in 1..7
    BY <1>1, <1>2
  <2>2. TypeOK'
    BY <1>1, <1>2, <1>5, <2>1 DEF TypeOK
  <2>3. Descending(target')
    BY <1>1, <1>2
  <2>4. branch' = "none" => at' = 1
    BY <1>1, <1>2
  <2>5. QED BY <1>5, <2>2, <2>3, <2>4, Zenon
<1>7. CASE branch = "raise"
  <2> USE <1>7
  <2>1. RaiseDone /\ Destination = Raising[at]
    BY DEF Written, Destination
  <2>2. RaiseDone'
    BY <1>1, <1>2, <2>1, Orders DEF RaiseDone, Done, Register
  <2>3. LowerDone'
    BY <1>1, <1>2 DEF LowerDone
  <2>4. complete' = TRUE => Descending(reg')
    <3> SUFFICES ASSUME complete' = TRUE PROVE Descending(reg')
      OBVIOUS
    <3>1. at = 7
      BY <1>4, Zenon
    <3>2. /\ reg'["VOUT_OV_FAULT_LIMIT"] = target["VOUT_OV_FAULT_LIMIT"]
          /\ reg'["VOUT_OV_WARN_LIMIT"] = target["VOUT_OV_WARN_LIMIT"]
          /\ reg'["VOUT_MARGIN_HIGH"] = target["VOUT_MARGIN_HIGH"]
          /\ reg'["VOUT_COMMAND"] = target["VOUT_COMMAND"]
          /\ reg'["VOUT_MARGIN_LOW"] = target["VOUT_MARGIN_LOW"]
          /\ reg'["VOUT_UV_WARN_LIMIT"] = target["VOUT_UV_WARN_LIMIT"]
          /\ reg'["VOUT_UV_FAULT_LIMIT"] = target["VOUT_UV_FAULT_LIMIT"]
      BY <1>2, <2>1, <3>1, Orders DEF RaiseDone, Done, Register
    <3>3. QED BY <3>2, <1>1 DEF Descending
  <2>5. QED BY <1>1, <1>2, <1>6, <2>2, <2>3, <2>4 DEF Written
<1>8. CASE branch = "lower"
  <2> USE <1>8
  <2>1. LowerDone /\ Destination = Lowering[at]
    BY DEF Written, Destination
  <2>2. LowerDone'
    BY <1>1, <1>2, <2>1, Orders DEF LowerDone, Done, Register
  <2>3. RaiseDone'
    BY <1>1, <1>2 DEF RaiseDone
  <2>4. complete' = TRUE => Descending(reg')
    <3> SUFFICES ASSUME complete' = TRUE PROVE Descending(reg')
      OBVIOUS
    <3>1. at = 7
      BY <1>4, Zenon
    <3>2. /\ reg'["VOUT_OV_FAULT_LIMIT"] = target["VOUT_OV_FAULT_LIMIT"]
          /\ reg'["VOUT_OV_WARN_LIMIT"] = target["VOUT_OV_WARN_LIMIT"]
          /\ reg'["VOUT_MARGIN_HIGH"] = target["VOUT_MARGIN_HIGH"]
          /\ reg'["VOUT_COMMAND"] = target["VOUT_COMMAND"]
          /\ reg'["VOUT_MARGIN_LOW"] = target["VOUT_MARGIN_LOW"]
          /\ reg'["VOUT_UV_WARN_LIMIT"] = target["VOUT_UV_WARN_LIMIT"]
          /\ reg'["VOUT_UV_FAULT_LIMIT"] = target["VOUT_UV_FAULT_LIMIT"]
      BY <1>2, <2>1, <3>1, Orders DEF LowerDone, Done, Register
    <3>3. QED BY <3>2, <1>1 DEF Descending
  <2>5. QED BY <1>1, <1>2, <1>6, <2>2, <2>3, <2>4 DEF Written
<1>9. QED BY <1>1, <1>7, <1>8

LEMMA WriteOrders ==
  ASSUME Written, Supervised, Write
  PROVE  Supervised'
<1>1. /\ branch \in {"raise", "lower"} /\ at \in 1..7
      /\ reg \in [Register -> Codes] /\ target \in [Register -> Codes]
      /\ Descending(target) /\ Bracketed(reg)
      /\ operation = "ON"
  BY DEF Written, Supervised, TypeOK, Write
<1>2. /\ Destination \in Register
      /\ reg' \in [Register -> Codes] /\ reg'[Destination] = target[Destination]
      /\ \A r \in Register : r # Destination => reg'[r] = reg[r]
      /\ operation' = operation /\ output' = output /\ target' = target
      /\ at < 7 => at' = at + 1 /\ branch' = branch
      /\ ~(at < 7) => at' = 1 /\ branch' = "none"
  BY WriteSets
<1>3. /\ reg["VOUT_OV_FAULT_LIMIT"] \in Nat
      /\ reg["VOUT_OV_WARN_LIMIT"] \in Nat
      /\ reg["VOUT_MARGIN_HIGH"] \in Nat
      /\ reg["VOUT_COMMAND"] \in Nat
      /\ reg["VOUT_MARGIN_LOW"] \in Nat
      /\ reg["VOUT_UV_WARN_LIMIT"] \in Nat
      /\ reg["VOUT_UV_FAULT_LIMIT"] \in Nat
  BY <1>1, RegistersAreNat
<1>4. /\ target["VOUT_OV_FAULT_LIMIT"] \in Nat
      /\ target["VOUT_OV_WARN_LIMIT"] \in Nat
      /\ target["VOUT_MARGIN_HIGH"] \in Nat
      /\ target["VOUT_COMMAND"] \in Nat
      /\ target["VOUT_MARGIN_LOW"] \in Nat
      /\ target["VOUT_UV_WARN_LIMIT"] \in Nat
      /\ target["VOUT_UV_FAULT_LIMIT"] \in Nat
  BY <1>1, RegistersAreNat
<1>5. Bracketed(target)
  BY <1>1, DescendingBrackets
<1>6. output \in Nat
  BY CodesAreNat DEF Written, TypeOK
<1>7. CASE branch = "raise"
  <2> USE <1>7
  <2>1. RaiseDone /\ Rising /\ Destination = Raising[at]
    BY DEF Written, Supervised, Destination
  <2>2. Bracketed(reg')
    BY <1>1, <1>2, <1>3, <1>4, <1>5, <2>1, Orders DEF RaiseDone, Rising, Done, Bracketed, Register
  <2>3. Rising'
    BY <1>1, <1>2, <1>3, <1>4, <1>6, <2>1, Orders DEF Rising, Register
  <2>4. Falling'
    BY <1>1, <1>2 DEF Falling
  <2>5. QED BY <1>1, <1>2, <2>2, <2>3, <2>4 DEF Supervised
<1>8. CASE branch = "lower"
  <2> USE <1>8
  <2>1. LowerDone /\ Falling /\ Destination = Lowering[at]
    BY DEF Written, Supervised, Destination
  <2>2. Bracketed(reg')
    BY <1>1, <1>2, <1>3, <1>4, <1>5, <2>1, Orders DEF LowerDone, Falling, Done, Bracketed, Register
  <2>3. Falling'
    BY <1>1, <1>2, <1>3, <1>4, <1>6, <2>1, Orders DEF Falling, Register
  <2>4. Rising'
    BY <1>1, <1>2 DEF Rising
  <2>5. QED BY <1>1, <1>2, <2>2, <2>3, <2>4 DEF Supervised
<1>9. QED BY <1>1, <1>7, <1>8

(* The output follows the command, and does not pass it.                   *)
LEMMA RegulateKeeps ==
  ASSUME Written, Regulate
  PROVE  Written' /\ (Supervised => Supervised')
<1>1. PICK c \in Codes : /\ (output < c /\ c <= Regulated) \/ (Regulated <= c /\ c < output)
                         /\ output' = c
  BY DEF Regulate
<1>2. /\ reg' = reg /\ operation' = operation /\ branch' = branch
      /\ at' = at /\ target' = target /\ complete' = complete
  BY DEF Regulate
<1>3. Written'
  <2>1. TypeOK'
    BY <1>1, <1>2 DEF Written, TypeOK
  <2>2. QED BY <1>2, <2>1 DEF Written, RaiseDone, LowerDone, Done
<1>4. ASSUME Supervised PROVE Supervised'
  <2>1. branch # "none" => operation = "ON" /\ Regulated = reg["VOUT_COMMAND"]
    BY <1>4 DEF Supervised, Regulated
  <2>2. reg["VOUT_COMMAND"] \in Nat /\ output \in Nat /\ c \in Nat
    BY RegistersAreNat, CodesAreNat DEF Written, TypeOK
  <2>3. Rising' /\ Falling'
    BY <1>1, <1>2, <1>4, <2>1, <2>2 DEF Supervised, Rising, Falling
  <2>4. QED BY <1>2, <1>4, <2>3 DEF Supervised
<1>5. QED BY <1>3, <1>4

LEMMA FailKeeps ==
  ASSUME Written, Fail
  PROVE  Written' /\ (Supervised => Supervised')
BY DEF Written, Supervised, Fail, TypeOK, RaiseDone, LowerDone, Rising, Falling

LEMMA MarginKeeps ==
  ASSUME Written, NEW op \in Operation, Margin(op)
  PROVE  Written' /\ (Supervised => Supervised')
BY DEF Written, Supervised, Margin, TypeOK, RaiseDone, LowerDone, Rising, Falling

LEMMA StutterKeeps ==
  ASSUME Written, UNCHANGED vars
  PROVE  Written' /\ (Supervised => Supervised')
BY DEF vars, Written, Supervised, TypeOK, RaiseDone, LowerDone, Done, Rising, Falling

LEMMA WrittenStep == Written /\ [Next]_vars => Written'
<1> SUFFICES ASSUME Written, [Next]_vars PROVE Written'
  OBVIOUS
<1>1. CASE \E v \in Volts, p \in Percents : Call(v, p)
  BY <1>1, CallWrites
<1>2. CASE Write
  BY <1>2, WriteWrites
<1>3. CASE Regulate
  BY <1>3, RegulateKeeps
<1>4. CASE Fail
  BY <1>4, FailKeeps
<1>5. CASE \E op \in Operation : Margin(op)
  BY <1>5, MarginKeeps
<1>6. CASE UNCHANGED vars
  BY <1>6, StutterKeeps
<1>7. QED BY <1>1, <1>2, <1>3, <1>4, <1>5, <1>6 DEF Next

LEMMA WrittenInvariant == Spec => []Written
BY InitWritten, WrittenStep, PTL DEF Spec

LEMMA SupervisedInvariant ==
  ASSUME CallsWhileMargined = FALSE, CallsWhileRamping = FALSE
  PROVE  Spec => [](Written /\ Supervised)
<1>1. Written /\ Supervised /\ [Next]_vars => (Written /\ Supervised)'
  <2> SUFFICES ASSUME Written, Supervised, [Next]_vars PROVE Supervised'
    BY WrittenStep
  <2>1. CASE \E v \in Volts, p \in Percents : Call(v, p)
    BY <2>1, CallOrders
  <2>2. CASE Write
    BY <2>2, WriteOrders
  <2>3. CASE Regulate
    BY <2>3, RegulateKeeps
  <2>4. CASE Fail
    BY <2>4, FailKeeps
  <2>5. CASE \E op \in Operation : Margin(op)
    BY <2>5, MarginKeeps
  <2>6. CASE UNCHANGED vars
    BY <2>6, StutterKeeps
  <2>7. QED BY <2>1, <2>2, <2>3, <2>4, <2>5, <2>6 DEF Next
<1>2. QED BY <1>1, InitWritten, PTL DEF Spec

(* A call, whole or broken off, leaves words that the registers can hold,   *)
(* and is never past its seven writes; calls on a margined rail, too.      *)
THEOREM TypeCorrect == Spec => []TypeOK
<1>1. Written => TypeOK
  BY DEF Written
<1>2. QED BY <1>1, WrittenInvariant, PTL

(* A rail that is called only while it is settled and not margined never    *)
(* alarms but on the side its output comes from, however slowly that        *)
(* follows, whatever the voltages, the percentages and the calls that fail. *)
THEOREM NeverAlarms ==
  ASSUME CallsWhileMargined = FALSE, CallsWhileRamping = FALSE
  PROVE  Spec => []NoAlarm
<1>1. Written /\ Supervised => NoAlarm
  <2> SUFFICES ASSUME Written, Supervised
               PROVE  /\ OverVoltage => output > reg["VOUT_COMMAND"] /\ branch # "raise"
                      /\ UnderVoltage => output < reg["VOUT_COMMAND"] /\ branch # "lower"
    BY DEF NoAlarm
  <2>1. reg \in [Register -> Codes] /\ output \in Nat
    BY CodesAreNat DEF Written, TypeOK
  <2>2. /\ reg["VOUT_OV_FAULT_LIMIT"] \in Nat /\ reg["VOUT_OV_WARN_LIMIT"] \in Nat
        /\ reg["VOUT_COMMAND"] \in Nat
        /\ reg["VOUT_UV_WARN_LIMIT"] \in Nat /\ reg["VOUT_UV_FAULT_LIMIT"] \in Nat
    BY <2>1, RegistersAreNat
  <2>3. /\ OverVoltage => output > reg["VOUT_COMMAND"]
        /\ UnderVoltage => output < reg["VOUT_COMMAND"]
    BY <2>1, <2>2 DEF Supervised, Bracketed, OverVoltage, UnderVoltage
  <2>4. /\ branch = "raise" => output <= reg["VOUT_COMMAND"]
        /\ branch = "lower" => reg["VOUT_COMMAND"] <= output
    BY DEF Supervised, Rising, Falling
  <2>5. QED BY <2>1, <2>2, <2>3, <2>4
<1>2. QED BY <1>1, SupervisedInvariant, PTL

(* After a complete call the margins lie inside the warning limits and      *)
(* these inside the fault limits, whenever the calls are made.             *)
THEOREM SafeMargins == Spec => []MarginsSafe
<1>1. Written => MarginsSafe
  <2> SUFFICES ASSUME Written, complete, NEW i \in 1..6
               PROVE  LET level == [j \in 1..7 |-> reg[Raising[j]]]
                      IN  level[i] >= level[i + 1]
    BY DEF MarginsSafe
  <2>1. complete \in BOOLEAN
    BY DEF Written, TypeOK
  <2>2. complete = TRUE
    BY <2>1, Zenon
  <2>3. Descending(reg)
    BY <2>2 DEF Written
  <2>4. i \in 1..7 /\ i + 1 \in 1..7
    OBVIOUS
  <2>5. reg[Raising[i]] >= reg[Raising[i + 1]]
    BY <2>3, Orders DEF Descending
  <2>6. QED BY <2>4, <2>5
<1>2. QED BY <1>1, WrittenInvariant, PTL
=============================================================================
