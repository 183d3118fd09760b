---------------------------- MODULE NumberFormats ----------------------------
(***************************************************************************)
(* The number formats of PMBus.  A chip keeps voltages as Linear16 (a       *)
(* mantissa, scaled by the exponent in its VOUT_MODE) and everything else   *)
(* as Linear11 (an exponent and a signed mantissa in one word); the caller  *)
(* holds floats, that LT_PMBusMath takes apart into sign, exponent and      *)
(* mantissa.  A register is read and written through the conversions, by    *)
(* the getters and setters of LT_PMBus, in any order.                      *)
(***************************************************************************)
EXTENDS Integers

CONSTANTS Modes,     \* the exponents, five bits, that VOUT_MODE has
          Words16,   \* what the chip may hold in a Linear16 register
          Words11,   \* and in a Linear11 register
          Floats16,  \* what the caller may write to a Linear16 register
          Floats11,  \* and to a Linear11 register
          LongBytes  \* the sizes of unsigned long

Float == [sign : {0, 1}, exp : 0..255, mant : 0..(2^23 - 1)]
Word == 0..65535
NoFloat == [sign |-> 0, exp |-> -1, mant |-> 0]

ASSUME FormatsAssumption == /\ Modes \subseteq 0..31 /\ LongBytes \subseteq {4, 8}
                            /\ Words16 \subseteq Word /\ Words11 \subseteq Word
                            /\ Floats16 \subseteq Float /\ Floats11 \subseteq Float

Signed(bits, width) == IF bits >= 2^(width - 1) THEN bits - 2^width ELSE bits

-----------------------------------------------------------------------------
(* Mutant of Normalized: the implicit bit is left in.                      *)
NormalizedKeepsOne(sign, m, e, width) ==
  IF m = 0
    THEN [sign |-> 0, exp |-> 0, mant |-> 0]
    ELSE LET shift == CHOOSE k \in 0..width : m * 2^k \in 2^width..(2^(width + 1) - 1)
         IN  [sign |-> sign,
              exp  |-> 127 + width + e - shift,
              mant |-> m * 2^(shift + 23 - width)]

(* m * 2^e as a float: m is shifted left until it has width + 1 bits, of    *)
(* which the first is implicit.                                            *)
Normalized(sign, m, e, width) ==
  IF m = 0
    THEN [sign |-> 0, exp |-> 0, mant |-> 0]
    ELSE LET shift == CHOOSE k \in 0..width : m * 2^k \in 2^width..(2^(width + 1) - 1)
         IN  [sign |-> sign,
              exp  |-> 127 + width + e - shift,
              mant |-> (m * 2^shift - 2^width) * 2^(23 - width)]

(* Mutant of lin11_to_fl32: the most negative mantissa keeps its exponent. *)
lin11_to_fl32_unshifted(word) ==
  LET low == word % 2048
      e == Signed(word \div 2048, 5)
  IN  IF low < 1024 THEN Normalized(0, low, e, 9)
      ELSE IF low = 1024 THEN Normalized(1, 512, e, 9)
      ELSE Normalized(1, 2048 - low, e, 9)

(* The mantissa is in two's complement; the most negative one is shifted.  *)
lin11_to_fl32(word) ==
  LET low == word % 2048
      e == Signed(word \div 2048, 5)
  IN  IF low < 1024 THEN Normalized(0, low, e, 9)
      ELSE IF low = 1024 THEN Normalized(1, 512, e + 1, 9)
      ELSE Normalized(1, 2048 - low, e, 9)

lin16_to_fl32(word, mode) == Normalized(0, word, Signed(mode, 5), 15)

(* The mantissa of a float with its implicit one.                          *)
Full(f) == f.mant + 2^23

RoundsUp(m, shift) == /\ (m \div 2^(shift - 1)) % 2 = 1
                      /\ m % 2^(shift + 1) # 2^(shift - 1)

(* Mutant of Rounded: the bits behind the point are cut off.               *)
Truncated(m, shift) == m \div 2^shift

(* m shifted right and rounded, a tie to the even word.                    *)
Rounded(m, shift) == IF RoundsUp(m, shift) THEN m \div 2^shift + 1 ELSE m \div 2^shift

(* Mutant of fl32_to_lin16: it saturates one binade too late, so that the   *)
(* mantissa wraps.                                                         *)
fl32_to_lin16_late(f, high, mode) ==
  LET shift == 150 - f.exp + Signed(mode, 5)
  IN  CASE f.sign + 2 * high # 0 -> 0
        [] f.sign + 2 * high = 0 /\ shift < 7 -> 65535
        [] f.sign + 2 * high = 0 /\ shift > 24 -> 0
        [] OTHER -> Rounded(Full(f), shift)

(* Mutant of fl32_to_lin16: it underflows while a bit is left.             *)
fl32_to_lin16_early(f, high, mode) ==
  LET shift == 150 - f.exp + Signed(mode, 5)
  IN  CASE f.sign + 2 * high # 0 -> 0
        [] f.sign + 2 * high = 0 /\ shift < 8 -> 65535
        [] f.sign + 2 * high = 0 /\ shift > 22 -> 0
        [] OTHER -> Rounded(Full(f), shift)

(* "high" are the bits of xin above the float: a negative number, that all  *)
(* of xin >> 31 is tested for, becomes 0.                                  *)
fl32_to_lin16(f, high, mode) ==
  LET shift == 150 - f.exp + Signed(mode, 5)
  IN  CASE f.sign + 2 * high # 0 -> 0
        [] f.sign + 2 * high = 0 /\ shift < 8 -> 65535
        [] f.sign + 2 * high = 0 /\ shift > 24 -> 0
        [] OTHER -> Rounded(Full(f), shift)

(* The exponent and magnitude of the Linear11 number nearest to f: below    *)
(* the least exponent it is not normalized, and a mantissa that rounding    *)
(* carries into the next binade is shifted back.                           *)
Nearest11(f) ==
  LET e == f.exp - 136
      shift == IF e < -16 THEN 14 - (e + 16) ELSE 14
      least == IF e < -16 THEN -16 ELSE e
      m == IF shift > 24 THEN 0 ELSE Rounded(Full(f), shift)
  IN  IF shift <= 24 /\ RoundsUp(Full(f), shift) /\ m % 512 = 0
        THEN [e |-> least + 1, m |-> m \div 2]
        ELSE [e |-> least, m |-> m]

(* -512 * 2^e becomes -1024 * 2^(e-1), a number too large saturates, and   *)
(* zero has exponent 0.                                                    *)
fl32_to_lin11(f) ==
  LET n == Nearest11(f)
      m == IF f.sign = 1 THEN -n.m ELSE n.m
      lowest == m = -512 /\ n.e > -16
      m1 == IF lowest THEN -1024 ELSE m
      e1 == IF lowest THEN n.e - 1 ELSE n.e
      m2 == IF e1 <= 15 THEN m1 ELSE IF f.sign = 1 THEN -1024 ELSE 1023
      e2 == IF m2 = 0 THEN 0 ELSE IF e1 > 15 THEN 15 ELSE e1
  IN  ((e2 % 32) * 2048) + (m2 % 2048)

-----------------------------------------------------------------------------
VARIABLES
  format,    \* of the register, "L16" or "L11"
  mode,      \* VOUT_MODE of the chip
  long,      \* the size of unsigned long in this build
  register,  \* the word in the chip
  stored,    \* the float last written to it, or NoFloat
  held,      \* the float that the caller has
  fresh      \* held was read from the register as it is

vars == <<format, mode, long, register, stored, held, fresh>>

Init == /\ \/ format = "L16" /\ register \in Words16 /\ mode \in Modes
           \/ format = "L11" /\ register \in Words11 /\ mode = 0
        /\ long \in LongBytes
        /\ stored = NoFloat /\ held = Normalized(0, 0, 0, 15) /\ fresh = FALSE

Read == IF format = "L16" THEN lin16_to_fl32(register, mode) ELSE lin11_to_fl32(register)

(* A getter of a voltage.                                                  *)
GetVoltage == /\ format = "L16"
              /\ held' = Read /\ fresh' = TRUE
              /\ UNCHANGED <<format, mode, long, register, stored>>

(* A getter of a current, a power, a temperature or a time.                *)
GetLimit == /\ format = "L11"
            /\ held' = Read /\ fresh' = TRUE
            /\ UNCHANGED <<format, mode, long, register, stored>>

(* float_to_lin16 reads an unsigned long at the place of a float: if that   *)
(* is longer, it finds above the float whatever lies there.                *)
HighBits == IF long = 8 THEN {0, 1} ELSE {0}

(* A setter of a voltage; VOUT_COMMAND and the limits are uint16_t.        *)
SetVoltage == /\ format = "L16"
              /\ \E high \in HighBits : register' = fl32_to_lin16(held, high, mode) % 65536
              /\ stored' = held /\ fresh' = FALSE
              /\ UNCHANGED <<format, mode, long, held>>

(* A setter of a current, a temperature or a time: it masks what it reads. *)
SetLimit == /\ format = "L11"
            /\ register' = fl32_to_lin11(held)
            /\ stored' = held /\ fresh' = FALSE
            /\ UNCHANGED <<format, mode, long, held>>

(* The caller goes on to another value.                                    *)
Choose(f) == /\ fresh' = FALSE
             /\ held' = f
             /\ UNCHANGED <<format, mode, long, register, stored>>

Next == \/ GetVoltage \/ GetLimit \/ SetVoltage \/ SetLimit
        \/ \E f \in IF format = "L16" THEN Floats16 ELSE Floats11 : Choose(f)

Spec == Init /\ [][Next]_vars

-----------------------------------------------------------------------------
TypeOK == /\ format \in {"L16", "L11"} /\ mode \in 0..31 /\ long \in {4, 8}
          /\ register \in Word
          /\ held \in Float /\ stored \in Float \cup {NoFloat}
          /\ fresh \in BOOLEAN

(* A build in which the setter of this register reads a float as a float.  *)
Narrow == format = "L16" => long = 4

(* The register as mantissa and exponent.                                  *)
Mantissa == IF format = "L16" THEN register ELSE Signed(register % 2048, 11)
Exponent == IF format = "L16" THEN Signed(mode, 5) ELSE Signed(register \div 2048, 5)

Abs(n) == IF n < 0 THEN -n ELSE n

(* "All Linear11 numbers map to normalized Float32 floating point numbers", *)
(* and Linear16 ones: what a getter returns is the value of the register,   *)
(* without any error.                                                      *)
ReadsExactly ==
  fresh =>
    IF Mantissa = 0
      THEN held.exp = 0 /\ held.mant = 0
      ELSE \E shift \in 0..23 : /\ Exponent + 150 = held.exp + shift
                                /\ Full(held) = Abs(Mantissa) * 2^shift
                                /\ held.sign = 1 <=> Mantissa < 0

(* In units of the last bit of stored: what lies above 25 bits is out of    *)
(* reach of it.                                                            *)
Distance(m, shift) == Abs(Full(stored) - m * 2^shift)

Nearest16(m) ==
  LET shift == Exponent + 150 - stored.exp
  IN  IF stored.sign = 1 \/ shift > 25 THEN m = 0
      ELSE IF shift < 0 THEN m = 65535
      ELSE \A other \in {m - 1, m + 1} \cap Word :
             /\ Distance(m, shift) <= Distance(other, shift)
             /\ Distance(m, shift) = Distance(other, shift) => m % 2 = 0

(* The numbers of Linear11 near stored are step apart, up to the largest.  *)
NearestOf11(m) ==
  LET step == IF stored.exp >= 120 THEN 14 ELSE 134 - stored.exp
      shift == Exponent + 150 - stored.exp
      size == Full(stored) \div 2^step
      largest == \/ stored.exp > 151
                 \/ stored.exp = 151 /\ stored.sign = 0 /\ Full(stored) >= 1023 * 2^14
  IN  IF largest THEN Exponent = 15 /\ m = IF stored.sign = 1 THEN -1024 ELSE 1023
      ELSE IF step > 25 THEN m = 0
      ELSE /\ m # 0 => m < 0 <=> stored.sign = 1
           /\ \A other \in {size, size + 1} :
                Distance(Abs(m), IF m = 0 THEN 0 ELSE shift) <= Distance(other, step)

(* What a setter writes is the number of the format that is nearest to the  *)
(* float: no word is nearer, a voltage on a tie is even, a number out of    *)
(* range becomes the last of the range, and a negative voltage 0.          *)
WritesNearest ==
  Narrow /\ stored # NoFloat =>
    IF format = "L16" THEN Nearest16(register) ELSE NearestOf11(Mantissa)

(* Read, modify, write without a modification: the register keeps its       *)
(* value, though a Linear11 value may get another word.                    *)
WriteBackKeeps == [][Narrow /\ fresh /\ (SetVoltage \/ SetLimit) => Read' = Read]_vars

(* A voltage at most half a step below 2^16: it rounds up to 2^16, which the *)
(* uint16_t of VOUT_COMMAND does not hold.                                 *)
ToTheTop(f, v) == f.sign = 0 /\ f.exp = 142 + Signed(v, 5) /\ f.mant >= 2^23 - 128

(* The order of floats: that of their exponents and mantissas, by sign.    *)
Below(f, g) == f.exp < g.exp \/ (f.exp = g.exp /\ f.mant <= g.mant)
AtMost(f, g) == CASE f.sign = 0 /\ g.sign = 0 -> Below(f, g)
                  [] f.sign = 1 /\ g.sign = 1 -> Below(g, f)
                  [] f.sign = 0 /\ g.sign = 1 -> Below(f, Normalized(0, 0, 0, 15)) /\ Below(g, f)
                  [] OTHER -> TRUE

(* A caller that writes a number not below the last one never reads back a  *)
(* number below: limits that are ordered as floats stay ordered in the chip.*)
KeepsOrder ==
  [][Narrow /\ stored # NoFloat /\ AtMost(stored, held) /\ (SetVoltage \/ SetLimit) =>
       AtMost(Read, Read')]_vars
=============================================================================
