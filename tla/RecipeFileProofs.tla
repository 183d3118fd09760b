-------------------------- MODULE RecipeFileProofs --------------------------
(***************************************************************************)
(* Proofs about RecipeFile.  The parser delivers what the file holds: the   *)
(* bytes it took so far are those of the records delivered and the first    *)
(* ones of the record under way, wherever the lines cut them.  With that,   *)
(* what the handlers do is what the records of the recipe ask.             *)
(***************************************************************************)
EXTENDS RecipeFile, SequenceTheorems, SumLemmas, TLAPS

(* The ranges, with their bounds only.                                     *)
LEMMA ByteType == \A x : x \in Byte <=> x \in Nat /\ x <= 255
<1> DEFINE m == 255
<1>1. m \in Nat /\ Byte = 0..m
  BY SMT DEF Byte
<1> HIDE DEF m
<1>2. \A x : x \in Byte <=> x \in Nat /\ x <= m
  BY <1>1
<1>3. QED BY <1>2 DEF m

LEMMA WordType == \A x : x \in Word <=> x \in Nat /\ x <= 65535
<1> DEFINE m == 65535
<1>1. m \in Nat /\ Word = 0..m
  BY SMT DEF Word
<1> HIDE DEF m
<1>2. \A x : x \in Word <=> x \in Nat /\ x <= m
  BY <1>1
<1>3. QED BY <1>2 DEF m

-----------------------------------------------------------------------------
(* Numbers and their bits.                                                 *)
Doubles(s, n) == s = [k \in 0..n |-> IF k = 0 THEN 1 ELSE 2 * s[k - 1]]

LEMMA DoublesExist ==
  ASSUME NEW n \in Nat
  PROVE  \E s : Doubles(s, n)
<1> DEFINE S == {m \in Nat : \E s : Doubles(s, m)}
<1>1. 0 \in S
  <2>1. Doubles([k \in 0..0 |-> 1], 0)
    BY DEF Doubles
  <2>2. QED BY <2>1
<1>2. ASSUME NEW m \in Nat, m \in S PROVE m + 1 \in S
  <2>1. PICK s : Doubles(s, m)
    BY <1>2
  <2>2. DEFINE t == [k \in 0..(m + 1) |-> IF k = m + 1 THEN 2 * s[m] ELSE s[k]]
  <2>3. ASSUME NEW k \in 0..(m + 1) PROVE t[k] = IF k = 0 THEN 1 ELSE 2 * t[k - 1]
    BY <2>1 DEF Doubles
  <2>4. Doubles(t, m + 1)
    BY <2>3 DEF Doubles
  <2>5. QED BY <2>4
<1>3. Nat \subseteq S
  <2> HIDE DEF S
  <2> QED BY <1>1, <1>2, SetInduction
<1>4. QED BY <1>3

LEMMA Pow2Doubles ==
  ASSUME NEW n \in Nat
  PROVE  \E s : Doubles(s, n) /\ Pow2(n) = s[n]
<1> DEFINE P(s) == s = [k \in 0..n |-> IF k = 0 THEN 1 ELSE 2 * s[k - 1]]
<1>1. \A s : Doubles(s, n) <=> P(s)
  BY DEF Doubles
<1>2. \E s : P(s)
  BY <1>1, DoublesExist
<1>3. P(CHOOSE s : P(s))
  <2> HIDE DEF P
  <2> QED BY <1>2, Zenon
<1>4. Pow2(n) = (CHOOSE s : P(s))[n]
  BY DEF Pow2
<1>5. QED BY <1>1, <1>3, <1>4

LEMMA Pow2Step ==
  /\ Pow2(0) = 1
  /\ \A n \in Nat : Pow2(n + 1) = 2 * Pow2(n)
<1>1. Pow2(0) = 1
  <2>1. PICK s : Doubles(s, 0) /\ Pow2(0) = s[0]
    BY Pow2Doubles
  <2>2. QED BY <2>1 DEF Doubles
<1>2. ASSUME NEW n \in Nat PROVE Pow2(n + 1) = 2 * Pow2(n)
  <2>1. PICK s : Doubles(s, n) /\ Pow2(n) = s[n]
    BY Pow2Doubles
  <2>2. PICK t : Doubles(t, n + 1) /\ Pow2(n + 1) = t[n + 1]
    BY Pow2Doubles
  <2>3. t[n + 1] = 2 * t[n]
    BY <2>2 DEF Doubles
  <2>4. s[0] = t[0]
    BY <2>1, <2>2 DEF Doubles
  <2>5. ASSUME NEW k \in 1..n, s[k - 1] = t[k - 1] PROVE s[k] = t[k]
    BY <2>1, <2>2, <2>5 DEF Doubles
  <2>6. s[n] = t[n]
    BY <2>4, <2>5, StepwiseEqual
  <2>7. QED BY <2>1, <2>2, <2>3, <2>6
<1>3. QED BY <1>1, <1>2

LEMMA Pow2Type == \A n \in Nat : Pow2(n) \in Nat /\ Pow2(n) > 0
<1> DEFINE S == {n \in Nat : Pow2(n) \in Nat /\ Pow2(n) > 0}
<1>1. 0 \in S
  BY Pow2Step
<1>2. ASSUME NEW n \in Nat, n \in S PROVE n + 1 \in S
  <2>1. Pow2(n) \in Nat /\ Pow2(n) > 0 /\ Pow2(n + 1) = 2 * Pow2(n) /\ n + 1 \in Nat
    BY <1>2, Pow2Step
  <2>2. QED BY <2>1
<1>3. Nat \subseteq S
  <2> HIDE DEF S
  <2> QED BY <1>1, <1>2, SetInduction
<1>4. QED BY <1>3

LEMMA Pow2Values == Pow2(8) = 256 /\ Pow2(16) = 65536
<1>1. \A n, m \in Nat : m = n + 1 => Pow2(m) = 2 * Pow2(n)
  BY Pow2Step
<1>2. /\ Pow2(1) = 2 * Pow2(0) /\ Pow2(2) = 2 * Pow2(1) /\ Pow2(3) = 2 * Pow2(2)
      /\ Pow2(4) = 2 * Pow2(3) /\ Pow2(5) = 2 * Pow2(4) /\ Pow2(6) = 2 * Pow2(5)
      /\ Pow2(7) = 2 * Pow2(6) /\ Pow2(8) = 2 * Pow2(7)
  BY <1>1
<1>3. /\ Pow2(9) = 2 * Pow2(8) /\ Pow2(10) = 2 * Pow2(9) /\ Pow2(11) = 2 * Pow2(10)
      /\ Pow2(12) = 2 * Pow2(11) /\ Pow2(13) = 2 * Pow2(12) /\ Pow2(14) = 2 * Pow2(13)
      /\ Pow2(15) = 2 * Pow2(14) /\ Pow2(16) = 2 * Pow2(15)
  BY <1>1
<1>4. QED BY <1>2, <1>3, Pow2Step

(* The sum over the lower bits of a word.                                  *)
Bit(bits, b) == IF b \in bits THEN 1 ELSE 0
Worth(bits) == [k \in 1..16 |-> IF k - 1 \in bits THEN Pow2(k - 1) ELSE 0]

LEMMA NumberSums ==
  ASSUME NEW bits
  PROVE  \E s : /\ s \in [0..16 -> Nat] /\ s[0] = 0 /\ AsNumber(bits) = s[16]
                /\ \A k \in 0..15 : s[k + 1] = s[k] + Pow2(k) * Bit(bits, k)
<1> DEFINE b == Worth(bits)
           P(s) == s = [k \in 0..16 |-> IF k = 0 THEN 0
                          ELSE s[k - 1] + (IF k - 1 \in bits THEN Pow2(k - 1) ELSE 0)]
<1>1. b \in [1..16 -> Nat]
  BY Pow2Type DEF Worth
<1>2. \A s : AddsUp(s, b, 16) <=> P(s)
  <2>1. SUFFICES ASSUME NEW s PROVE AddsUp(s, b, 16) <=> P(s)
    OBVIOUS
  <2>2. [k \in 0..16 |-> IF k = 0 THEN 0 ELSE s[k - 1] + b[k]]
        = [k \in 0..16 |-> IF k = 0 THEN 0
             ELSE s[k - 1] + (IF k - 1 \in bits THEN Pow2(k - 1) ELSE 0)]
    BY DEF Worth
  <2>3. QED BY <2>2 DEF AddsUp
<1> HIDE DEF b
<1>3. \E s : P(s)
  <2> HIDE DEF P
  <2>1. \E s : AddsUp(s, b, 16)
    BY <1>1, SumExists
  <2>2. QED BY <1>2, <2>1
<1>4. P(CHOOSE s : P(s))
  <2> HIDE DEF P
  <2> QED BY <1>3, Zenon
<1> DEFINE s == CHOOSE s : P(s)
<1>5. AsNumber(bits) = s[16]
  BY DEF AsNumber
<1>6. AddsUp(s, b, 16)
  <2> HIDE DEF P
  <2> QED BY <1>2, <1>4
<1> HIDE DEF s, P
<1>7. s \in [0..16 -> Nat] /\ s[0] = 0 /\ \A n \in 1..16 : s[n] = s[n - 1] + b[n]
  <2> DEFINE N == 16
  <2>1. N \in Nat /\ b \in [1..N -> Nat] /\ AddsUp(s, b, N)
    BY <1>1, <1>6
  <2> HIDE DEF N
  <2>2. s \in [0..N -> Nat] /\ s[0] = 0 /\ \A n \in 1..N : s[n] = s[n - 1] + b[n]
    BY <2>1, SumValues
  <2>3. QED BY <2>2 DEF N
<1>8. ASSUME NEW k \in 0..15 PROVE s[k + 1] = s[k] + Pow2(k) * Bit(bits, k)
  <2>1. k + 1 \in 1..16 /\ (k + 1) - 1 = k
    OBVIOUS
  <2>2. s[k + 1] = s[k] + b[k + 1]
    BY <1>7, <2>1
  <2>3. b[k + 1] = Pow2(k) * Bit(bits, k)
    <3>1. Pow2(k) \in Nat
      BY Pow2Type
    <3>2. b[k + 1] = IF k \in bits THEN Pow2(k) ELSE 0
      BY <2>1 DEF b, Worth
    <3>3. QED BY <3>1, <3>2 DEF Bit
  <2>4. QED BY <2>2, <2>3
<1>9. QED BY <1>5, <1>7, <1>8

LEMMA NumberParts ==
  ASSUME NEW bits, NEW s \in [0..16 -> Nat], s[0] = 0,
         \A k \in 0..15 : s[k + 1] = s[k] + Pow2(k) * Bit(bits, k)
  PROVE  /\ \A k \in 0..16 : s[k] < Pow2(k)
         /\ \A k \in 0..16 : \E h \in Nat : s[16] = s[k] + Pow2(k) * h
<1> DEFINE S == {k \in Nat : k <= 16 => s[k] < Pow2(k)}
           T == {j \in Nat : j <= 16 => \E h \in Nat : s[16] = s[16 - j] + Pow2(16 - j) * h}
<1>1. 0 \in S
  BY Pow2Step
<1>2. ASSUME NEW k \in Nat, k \in S PROVE k + 1 \in S
  <2>1. SUFFICES ASSUME k + 1 <= 16 PROVE s[k + 1] < Pow2(k + 1)
    OBVIOUS
  <2>2. s[k] \in Nat /\ s[k] < Pow2(k) /\ k \in 0..15
    BY <1>2, <2>1
  <2>3. Pow2(k) \in Nat /\ Pow2(k + 1) = 2 * Pow2(k)
    BY Pow2Step, Pow2Type
  <2>4. s[k + 1] = s[k] \/ s[k + 1] = s[k] + Pow2(k)
    BY <2>2, <2>3 DEF Bit
  <2>5. QED BY <2>2, <2>3, <2>4
<1>3. Nat \subseteq S
  <2> HIDE DEF S
  <2> QED BY <1>1, <1>2, SetInduction
<1>4. 0 \in T
  <2>1. s[16] \in Nat /\ Pow2(16) \in Nat
    BY Pow2Type
  <2>2. s[16] = s[16] + Pow2(16) * 0
    BY <2>1
  <2>3. QED BY <2>2
<1>5. ASSUME NEW j \in Nat, j \in T PROVE j + 1 \in T
  <2>1. SUFFICES ASSUME j + 1 <= 16
                 PROVE  \E h \in Nat : s[16] = s[16 - (j + 1)] + Pow2(16 - (j + 1)) * h
    OBVIOUS
  <2> DEFINE k == 16 - (j + 1)
  <2>2. k \in 0..15 /\ 16 - j = k + 1 /\ j <= 16
    BY <2>1
  <2>3. PICK h \in Nat : s[16] = s[16 - j] + Pow2(16 - j) * h
    BY <1>5, <2>2
  <2> HIDE DEF k
  <2>4. Pow2(k) \in Nat /\ Pow2(k + 1) = 2 * Pow2(k) /\ s[k] \in Nat /\ Bit(bits, k) \in Nat
    BY <2>2, Pow2Step, Pow2Type, SMTT(30) DEF Bit
  <2>5. s[16] = s[k] + Pow2(k) * Bit(bits, k) + 2 * Pow2(k) * h
    BY <2>2, <2>3, <2>4
  <2>6. \A p, x, y \in Nat : p * x + 2 * p * y = p * (x + 2 * y)
    OBVIOUS
  <2>7. s[16] = s[k] + Pow2(k) * (Bit(bits, k) + 2 * h)
    BY <2>4, <2>5, <2>6
  <2>8. Bit(bits, k) + 2 * h \in Nat
    BY <2>4
  <2>9. QED BY <2>7, <2>8 DEF k
<1>6. Nat \subseteq T
  <2> HIDE DEF T
  <2> QED BY <1>4, <1>5, SetInduction
<1>7. ASSUME NEW k \in 0..16 PROVE \E h \in Nat : s[16] = s[k] + Pow2(k) * h
  <2> DEFINE j == 16 - k
  <2>1. j \in Nat /\ j <= 16 /\ 16 - j = k
    OBVIOUS
  <2> HIDE DEF j
  <2>2. j \in T
    BY <1>6, <2>1
  <2>3. QED BY <2>1, <2>2
<1>8. QED BY <1>3, <1>7

LEMMA NumberType ==
  ASSUME NEW bits \in SUBSET Bits
  PROVE  /\ AsNumber(bits) \in Word
         /\ bits \subseteq 0..7 => AsNumber(bits) \in Byte
<1>1. PICK s : /\ s \in [0..16 -> Nat] /\ s[0] = 0 /\ AsNumber(bits) = s[16]
               /\ \A k \in 0..15 : s[k + 1] = s[k] + Pow2(k) * Bit(bits, k)
  BY NumberSums
<1>2. \A k \in 0..16 : s[k] < Pow2(k)
  BY <1>1, NumberParts
<1>3. AsNumber(bits) \in Word
  <2>1. s[16] \in Nat /\ s[16] < Pow2(16)
    BY <1>1, <1>2
  <2>2. QED BY <1>1, <2>1, Pow2Values, WordType
<1>4. ASSUME bits \subseteq 0..7 PROVE AsNumber(bits) \in Byte
  <2>1. \A k \in 0..15 : k >= 8 => s[k + 1] = s[k]
    <3>1. \A k \in 0..15 : Pow2(k) \in Nat /\ s[k] \in Nat
      BY <1>1, Pow2Type
    <3>2. \A k \in 0..15 : k >= 8 => Bit(bits, k) = 0
      BY <1>4 DEF Bit
    <3>3. SUFFICES ASSUME NEW k \in 0..15, k >= 8 PROVE s[k + 1] = s[k]
      OBVIOUS
    <3>4. s[k + 1] = s[k] + Pow2(k) * Bit(bits, k) /\ Bit(bits, k) = 0
      BY <1>1, <3>2, <3>3
    <3>5. QED BY <3>1, <3>4
  <2>2. /\ s[9] = s[8] /\ s[10] = s[9] /\ s[11] = s[10] /\ s[12] = s[11]
        /\ s[13] = s[12] /\ s[14] = s[13] /\ s[15] = s[14] /\ s[16] = s[15]
    BY <2>1
  <2>3. s[8] < 256 /\ s[8] \in Nat
    BY <1>1, <1>2, Pow2Values
  <2>4. QED BY <1>1, <2>2, <2>3, ByteType
<1>5. QED BY <1>3, <1>4

(* The digit at a power.                                                   *)
LEMMA Digit ==
  ASSUME NEW p \in Nat, p > 0, NEW low \in 0..(p - 1), NEW x \in 0..1, NEW h \in Nat,
         NEW n \in Nat, n = low + p * (x + 2 * h)
  PROVE  (n \div p) % 2 = x
<1> DEFINE m == x + 2 * h
<1>1. m \in Nat /\ m % 2 = x
  OBVIOUS
<1>2. n = low + p * m
  OBVIOUS
<1> HIDE DEF m
<1>3. n \div p = m
  BY <1>1, <1>2
<1>4. QED BY <1>1, <1>3

LEMMA BitsBack ==
  ASSUME NEW bits \in SUBSET Bits
  PROVE  AsBits(AsNumber(bits)) = bits
<1>1. PICK s : /\ s \in [0..16 -> Nat] /\ s[0] = 0 /\ AsNumber(bits) = s[16]
               /\ \A k \in 0..15 : s[k + 1] = s[k] + Pow2(k) * Bit(bits, k)
  BY NumberSums
<1>2. /\ \A k \in 0..16 : s[k] < Pow2(k)
      /\ \A k \in 0..16 : \E h \in Nat : s[16] = s[k] + Pow2(k) * h
  BY <1>1, NumberParts
<1>3. ASSUME NEW k \in Bits PROVE (AsNumber(bits) \div Pow2(k)) % 2 = 1 <=> k \in bits
  <2>1. k \in 0..15 /\ k + 1 \in 0..16 /\ k \in 0..16 /\ k \in Nat
    BY DEF Bits
  <2>2. PICK h \in Nat : s[16] = s[k + 1] + Pow2(k + 1) * h
    BY <1>2, <2>1
  <2> DEFINE p == Pow2(k)
             low == s[k]
             x == Bit(bits, k)
             n == s[16]
  <2>3. /\ p \in Nat /\ p > 0 /\ Pow2(k + 1) = 2 * p /\ n \in Nat
        /\ low \in Nat /\ low < p /\ x \in 0..1 /\ s[k + 1] = low + p * x
    <3>1. p \in Nat /\ p > 0 /\ Pow2(k + 1) = 2 * p
      BY <2>1, Pow2Step, Pow2Type
    <3>2. n \in Nat /\ low \in Nat
      BY <1>1, <2>1
    <3>3. low < p
      BY <1>2, <2>1
    <3>4. x \in 0..1
      BY DEF Bit
    <3>5. s[k + 1] = low + p * x
      BY <1>1, <2>1
    <3>6. QED BY <3>1, <3>2, <3>3, <3>4, <3>5
  <2>4. n = low + p * x + 2 * p * h
    BY <2>2, <2>3
  <2> HIDE DEF p, low, x, n
  <2>5. n = low + p * (x + 2 * h)
    <3>1. p * x + 2 * p * h = p * (x + 2 * h) /\ p * x \in Nat /\ 2 * p * h \in Nat
      BY <2>3
    <3>2. QED BY <2>3, <2>4, <3>1
  <2>6. (n \div p) % 2 = x
    BY <2>3, <2>5, Digit
  <2>7. AsNumber(bits) = n
    BY <1>1 DEF n
  <2>8. x = 1 <=> k \in bits
    BY DEF x, Bit
  <2>9. QED BY <2>6, <2>7, <2>8 DEF p
<1>4. QED BY <1>3 DEF AsBits

LEMMA NoBits == AsBits(0) = {}
<1>1. ASSUME NEW k \in Bits PROVE (0 \div Pow2(k)) % 2 # 1
  <2>1. Pow2(k) \in Nat /\ Pow2(k) > 0
    BY Pow2Type DEF Bits
  <2>2. 0 = 0 + Pow2(k) * (0 + 2 * 0)
    BY <2>1
  <2>3. QED BY <2>1, <2>2, Digit
<1>2. QED BY <1>1 DEF AsBits

(* A word in the file, low byte first.                                     *)
LEMMA LowHighWord ==
  ASSUME NEW n \in Word
  PROVE  /\ LowHigh(n) \in Seq(Byte) /\ Len(LowHigh(n)) = 2
         /\ LowHigh(n)[1] + 256 * LowHigh(n)[2] = n
<1> DEFINE low == n % 256
           high == n \div 256
<1>1. n \in Nat /\ n <= 65535
  BY WordType
<1>2. low \in Nat /\ low <= 255 /\ high \in Nat /\ high <= 255 /\ low + 256 * high = n
  BY <1>1
<1>3. LowHigh(n) = <<low, high>>
  BY DEF LowHigh
<1> HIDE DEF low, high
<1>4. low \in Byte /\ high \in Byte
  BY <1>2, ByteType
<1>5. <<low, high>> \in Seq(Byte) /\ Len(<<low, high>>) = 2
      /\ <<low, high>>[1] = low /\ <<low, high>>[2] = high
  BY <1>4
<1>6. QED BY <1>2, <1>3, <1>5

-----------------------------------------------------------------------------
(* The structs.  The field at place i of the bytes d of a record of type t. *)
FieldAt(d, i, t) == AsBits(IF t \in Wide THEN d[i] + 256 * d[i + 1] ELSE d[i])

LEMMA FieldBytes ==
  ASSUME NEW t, NEW bits \in SUBSET Bits, t \in Wide \/ bits \subseteq 0..7
  PROVE  /\ Field(t, bits) \in Seq(Byte) /\ Len(Field(t, bits)) = Width(t)
         /\ FieldAt(Field(t, bits), 1, t) = bits
<1> DEFINE n == AsNumber(bits)
<1>1. n \in Word /\ AsBits(n) = bits /\ (bits \subseteq 0..7 => n \in Byte)
  BY NumberType, BitsBack
<1> HIDE DEF n
<1>2. CASE t \in Wide
  <2>1. Field(t, bits) = LowHigh(n) /\ Width(t) = 2
    BY <1>2 DEF Field, Width, n
  <2>2. /\ LowHigh(n) \in Seq(Byte) /\ Len(LowHigh(n)) = 2
        /\ LowHigh(n)[1] + 256 * LowHigh(n)[2] = n
    BY <1>1, LowHighWord
  <2>3. FieldAt(LowHigh(n), 1, t) = AsBits(LowHigh(n)[1] + 256 * LowHigh(n)[2])
    BY <1>2 DEF FieldAt
  <2>4. QED BY <1>1, <2>1, <2>2, <2>3
<1>3. CASE t \notin Wide
  <2>1. Field(t, bits) = <<n>> /\ Width(t) = 1 /\ n \in Byte
    BY <1>1, <1>3 DEF Field, Width, n
  <2>2. <<n>> \in Seq(Byte) /\ Len(<<n>>) = 1 /\ <<n>>[1] = n
    BY <2>1
  <2>3. FieldAt(<<n>>, 1, t) = AsBits(<<n>>[1])
    BY <1>3 DEF FieldAt
  <2>4. QED BY <1>1, <2>1, <2>2, <2>3
<1>4. QED BY <1>2, <1>3

LEMMA FieldShift ==
  ASSUME NEW d, NEW f, NEW t, NEW i \in Nat,
         \A j \in 1..Width(t) : d[i + j] = f[j]
  PROVE  FieldAt(d, i + 1, t) = FieldAt(f, 1, t)
<1>1. CASE t \in Wide
  <2>1. d[i + 1] = f[1] /\ d[(i + 1) + 1] = f[1 + 1]
    BY <1>1 DEF Width
  <2>2. QED BY <1>1, <2>1 DEF FieldAt
<1>2. CASE t \notin Wide
  <2>1. d[i + 1] = f[1]
    BY <1>2 DEF Width
  <2>2. QED BY <1>2, <2>1 DEF FieldAt
<1>3. QED BY <1>1, <1>2

(* w consists of four parts, one behind the other.                         *)
InParts(w, a, b, c, d) ==
  /\ w \in Seq(Byte) /\ Len(w) = Len(a) + Len(b) + Len(c) + Len(d)
  /\ \A i \in 1..Len(a) : w[i] = a[i]
  /\ \A i \in 1..Len(b) : w[Len(a) + i] = b[i]
  /\ \A i \in 1..Len(c) : w[Len(a) + Len(b) + i] = c[i]
  /\ \A i \in 1..Len(d) : w[Len(a) + Len(b) + Len(c) + i] = d[i]

LEMMA FourParts ==
  ASSUME NEW a \in Seq(Byte), NEW b \in Seq(Byte), NEW c \in Seq(Byte), NEW d \in Seq(Byte)
  PROVE  InParts(a \o b \o c \o d, a, b, c, d)
<1>1. /\ a \o b \in Seq(Byte) /\ Len(a \o b) = Len(a) + Len(b)
      /\ \A i \in 1..(Len(a) + Len(b)) : (a \o b)[i] = IF i <= Len(a) THEN a[i] ELSE b[i - Len(a)]
  BY ConcatProperties
<1> DEFINE e == a \o b
<1> HIDE DEF e
<1>2. /\ e \o c \in Seq(Byte) /\ Len(e \o c) = Len(e) + Len(c)
      /\ \A i \in 1..(Len(e) + Len(c)) : (e \o c)[i] = IF i <= Len(e) THEN e[i] ELSE c[i - Len(e)]
  BY <1>1, ConcatProperties DEF e
<1> DEFINE f == e \o c
<1> HIDE DEF f
<1>3. /\ f \o d \in Seq(Byte) /\ Len(f \o d) = Len(f) + Len(d)
      /\ \A i \in 1..(Len(f) + Len(d)) : (f \o d)[i] = IF i <= Len(f) THEN f[i] ELSE d[i - Len(f)]
  BY <1>2, ConcatProperties DEF f
<1> DEFINE g == f \o d
<1>4. g = a \o b \o c \o d
  BY DEF e, f
<1> HIDE DEF g
<1>5. /\ Len(a) \in Nat /\ Len(b) \in Nat /\ Len(c) \in Nat /\ Len(d) \in Nat
      /\ Len(e) = Len(a) + Len(b) /\ Len(f) = Len(e) + Len(c) /\ Len(g) = Len(f) + Len(d)
      /\ \A i \in 1..(Len(a) + Len(b)) : e[i] = IF i <= Len(a) THEN a[i] ELSE b[i - Len(a)]
      /\ \A i \in 1..(Len(e) + Len(c)) : f[i] = IF i <= Len(e) THEN e[i] ELSE c[i - Len(e)]
      /\ \A i \in 1..(Len(f) + Len(d)) : g[i] = IF i <= Len(f) THEN f[i] ELSE d[i - Len(f)]
  <2>1. Len(a) \in Nat /\ Len(b) \in Nat /\ Len(c) \in Nat /\ Len(d) \in Nat
    OBVIOUS
  <2>2. QED BY <1>1, <1>2, <1>3, <2>1 DEF e, f, g
<1>6. /\ \A i \in 1..Len(a) : g[i] = a[i]
      /\ \A i \in 1..Len(b) : g[Len(a) + i] = b[i]
  BY <1>5, SMTT(20)
<1>7. \A i \in 1..Len(c) : g[Len(a) + Len(b) + i] = c[i]
  BY <1>5
<1>8. \A i \in 1..Len(d) : g[Len(a) + Len(b) + Len(c) + i] = d[i]
  BY <1>5
<1>9. g \in Seq(Byte) /\ Len(g) = Len(a) + Len(b) + Len(c) + Len(d)
  BY <1>3, <1>5 DEF g
<1>10. InParts(g, a, b, c, d)
  BY <1>6, <1>7, <1>8, <1>9, Zenon DEF InParts
<1>11. QED BY <1>4, <1>10

(* How the kinds of records lie to each other.                             *)
LEMMA Kinds ==
  /\ PecRead \subseteq Addressed /\ WithMask \subseteq WithValue /\ WithValue \subseteq Addressed
  /\ \A t \in OneWord \cup TwoWords : t \notin Addressed
  /\ \A t \in TwoWords : t \notin OneWord
  /\ EndOfRecords \in PecRead /\ EndOfRecords \notin WithValue
  /\ EndOfRecords \notin PecUnread \cup {SwappedMask, NvmData, WriteEeData, VerifyEeData}
  /\ MetaData \in TwoWords
  /\ Writes \cap WithMask = {} /\ Modifies \subseteq WithMask /\ Writes \subseteq WithValue
  /\ Expects \subseteq WithValue /\ MaskedExpects \subseteq WithMask
<1> USE DEF WithPec, PecUnread, PecRead, Addressed, WithMask, WithValue, Writes, Sends, Expects,
            MaskedExpects, Loops, Modifies, PollAck, EndOfRecords, OneWord, TwoWords, MetaData,
            SwappedMask, NvmData, WriteEeData, VerifyEeData
<1>1. PecRead \subseteq Addressed
  OBVIOUS
<1>2. WithMask \subseteq WithValue /\ WithValue \subseteq Addressed
  OBVIOUS
<1>3. /\ \A t \in OneWord \cup TwoWords : t \notin Addressed
      /\ \A t \in TwoWords : t \notin OneWord
  OBVIOUS
<1>4. /\ EndOfRecords \in PecRead /\ EndOfRecords \notin WithValue
      /\ EndOfRecords \notin PecUnread \cup {SwappedMask, NvmData, WriteEeData, VerifyEeData}
      /\ MetaData \in TwoWords
  OBVIOUS
<1>5. /\ Writes \cap WithMask = {} /\ Modifies \subseteq WithMask /\ Writes \subseteq WithValue
      /\ Expects \subseteq WithValue /\ MaskedExpects \subseteq WithMask
  OBVIOUS
<1>6. QED BY <1>1, <1>2, <1>3, <1>4, <1>5

(* A record that fits its struct and is taken as it declares.              *)
Fits(q) == Packable(q) /\ q.type \notin PecUnread \cup {SwappedMask}

(* d has the bytes of record q, as parse_record takes them.                *)
PecBytes(t) == IF t \in PecRead THEN 1 ELSE 0
MaskBytes(t) == IF t \in WithMask THEN Width(t) ELSE 0
ValueBytes(t) == IF t \in WithValue THEN Width(t) ELSE 0

Encodes(d, q) ==
  /\ d \in Seq(Byte) /\ Len(d) >= 6
  /\ d[3] + 256 * d[4] = q.type
  /\ Len(d) = Taken(q.type, d[1] + 256 * d[2])
  /\ q.type \in Addressed =>
       /\ d[5] + 256 * d[6] = q.address /\ d[7] = q.command
       /\ q.type \in PecRead => (d[8] # 0 <=> q.pec)
       /\ q.type \in WithMask => FieldAt(d, 8 + PecBytes(q.type), q.type) = q.mask
       /\ q.type \in WithValue =>
            FieldAt(d, 8 + PecBytes(q.type) + MaskBytes(q.type), q.type) = q.value
  /\ q.type \notin Addressed =>
       /\ d[5] = q.command
       /\ q.value = IF Len(d) >= 8 THEN AsBits(d[7] + 256 * d[8]) ELSE {}

(* The body of a record with an address.                                   *)
LEMMA AddressedBody ==
  ASSUME NEW q \in Record, Fits(q), q.type \in Addressed
  PROVE  /\ Body(q) \in Seq(Byte)
         /\ Len(Body(q)) = 3 + PecBytes(q.type) + MaskBytes(q.type) + ValueBytes(q.type)
         /\ Body(q)[1] + 256 * Body(q)[2] = q.address /\ Body(q)[3] = q.command
         /\ q.type \in PecRead => (Body(q)[4] # 0 <=> q.pec)
         /\ q.type \in WithMask => FieldAt(Body(q), 4 + PecBytes(q.type), q.type) = q.mask
         /\ q.type \in WithValue =>
              FieldAt(Body(q), 4 + PecBytes(q.type) + MaskBytes(q.type), q.type) = q.value
<1> DEFINE t == q.type
           a == LowHigh(q.address) \o <<q.command>>
           P == IF q.type \in WithPec THEN <<IF q.pec THEN 1 ELSE 0>> ELSE <<>>
           M == IF q.type \in WithMask THEN Field(q.type, q.mask) ELSE <<>>
           V == IF q.type \in WithValue THEN Field(q.type, q.value) ELSE <<>>
           w == a \o P \o M \o V
<1>1. /\ q.type \in Word /\ q.address \in Word /\ q.command \in Byte /\ q.pec \in BOOLEAN
      /\ q.mask \in SUBSET Bits /\ q.value \in SUBSET Bits
  BY DEF Record
<1>2. /\ a \in Seq(Byte) /\ Len(a) = 3 /\ a[1] + 256 * a[2] = q.address /\ a[3] = q.command
  <2> DEFINE l == LowHigh(q.address)
             c == <<q.command>>
  <2>1. l \in Seq(Byte) /\ Len(l) = 2 /\ l[1] + 256 * l[2] = q.address
    BY <1>1, LowHighWord
  <2>2. c \in Seq(Byte) /\ Len(c) = 1 /\ c[1] = q.command
    BY <1>1
  <2> HIDE DEF l, c
  <2>3. /\ l \o c \in Seq(Byte) /\ Len(l \o c) = Len(l) + Len(c)
        /\ \A i \in 1..(Len(l) + Len(c)) : (l \o c)[i] = IF i <= Len(l) THEN l[i] ELSE c[i - Len(l)]
    BY <2>1, <2>2, ConcatProperties
  <2>4. (l \o c)[1] = l[1] /\ (l \o c)[2] = l[2] /\ (l \o c)[3] = c[1] /\ Len(l \o c) = 3
    BY <2>1, <2>2, <2>3
  <2>5. a = l \o c
    BY DEF l, c
  <2>6. QED BY <2>1, <2>2, <2>3, <2>4, <2>5
<1>3. /\ P \in Seq(Byte) /\ Len(P) = PecBytes(t)
      /\ t \in PecRead => (P[1] # 0 <=> q.pec)
  <2>1. 0 \in Byte /\ 1 \in Byte
    BY ByteType
  <2>2. t \in WithPec <=> t \in PecRead
    BY DEF Fits, PecRead
  <2>3. QED BY <1>1, <2>1, <2>2 DEF PecBytes
<1>4. /\ M \in Seq(Byte) /\ Len(M) = MaskBytes(t)
      /\ t \in WithMask => FieldAt(M, 1, t) = q.mask
  <2>1. t \in Wide \/ q.mask \subseteq 0..7
    BY DEF Fits, Packable
  <2>2. CASE t \in WithMask
    <3>1. M = Field(t, q.mask) /\ MaskBytes(t) = Width(t)
      BY <2>2 DEF MaskBytes
    <3> HIDE DEF M, t
    <3>2. QED BY <1>1, <2>1, <3>1, FieldBytes
  <2>3. CASE t \notin WithMask
    BY <2>3 DEF MaskBytes
  <2>4. QED BY <2>2, <2>3
<1>5. /\ V \in Seq(Byte) /\ Len(V) = ValueBytes(t)
      /\ t \in WithValue => FieldAt(V, 1, t) = q.value
  <2>1. t \in Wide \/ q.value \subseteq 0..7
    BY DEF Fits, Packable
  <2>2. CASE t \in WithValue
    <3>1. V = Field(t, q.value) /\ ValueBytes(t) = Width(t)
      BY <2>2 DEF ValueBytes
    <3> HIDE DEF V, t
    <3>2. QED BY <1>1, <2>1, <3>1, FieldBytes
  <2>3. CASE t \notin WithValue
    BY <2>3 DEF ValueBytes
  <2>4. QED BY <2>2, <2>3
<1>6. Body(q) = w
  BY DEF Body
<1> HIDE DEF a, P, M, V
<1>7. InParts(w, a, P, M, V)
  <2>1. a \in Seq(Byte) /\ P \in Seq(Byte) /\ M \in Seq(Byte) /\ V \in Seq(Byte)
    BY <1>2, <1>3, <1>4, <1>5
  <2>2. QED BY <2>1, FourParts, Zenon
<1> HIDE DEF w
<1>8. PecBytes(t) \in Nat /\ MaskBytes(t) \in Nat /\ ValueBytes(t) \in Nat /\ Width(t) \in Nat
  BY DEF PecBytes, MaskBytes, ValueBytes, Width
<1>9. /\ w \in Seq(Byte) /\ Len(w) = 3 + PecBytes(t) + MaskBytes(t) + ValueBytes(t)
      /\ w[1] = a[1] /\ w[2] = a[2] /\ w[3] = a[3]
  BY <1>2, <1>3, <1>4, <1>5, <1>7 DEF InParts
<1>10. t \in PecRead => w[4] = P[1]
  <2>1. t \in PecRead => Len(P) = 1
    BY <1>3 DEF PecBytes
  <2>2. QED BY <1>2, <1>7, <2>1 DEF InParts
<1>11. t \in WithMask => FieldAt(w, 4 + PecBytes(t), t) = q.mask
  <2>1. SUFFICES ASSUME t \in WithMask PROVE FieldAt(w, 4 + PecBytes(t), t) = q.mask
    OBVIOUS
  <2> DEFINE k == 3 + PecBytes(t)
  <2>2. k \in Nat /\ k + 1 = 4 + PecBytes(t) /\ k = Len(a) + Len(P)
    BY <1>2, <1>3, <1>8
  <2>3. \A j \in 1..Width(t) : w[k + j] = M[j]
    BY <1>4, <1>7, <2>1, <2>2 DEF MaskBytes, InParts
  <2> HIDE DEF k, t
  <2>4. FieldAt(w, k + 1, t) = FieldAt(M, 1, t)
    BY <2>2, <2>3, FieldShift
  <2>5. QED BY <1>4, <2>1, <2>2, <2>4
<1>12. t \in WithValue => FieldAt(w, 4 + PecBytes(t) + MaskBytes(t), t) = q.value
  <2>1. SUFFICES ASSUME t \in WithValue
                 PROVE  FieldAt(w, 4 + PecBytes(t) + MaskBytes(t), t) = q.value
    OBVIOUS
  <2> DEFINE k == 3 + PecBytes(t) + MaskBytes(t)
  <2>2. /\ k \in Nat /\ k + 1 = 4 + PecBytes(t) + MaskBytes(t)
        /\ k = Len(a) + Len(P) + Len(M)
    BY <1>2, <1>3, <1>4, <1>8
  <2>3. \A j \in 1..Width(t) : w[k + j] = V[j]
    BY <1>5, <1>7, <2>1, <2>2 DEF ValueBytes, InParts
  <2> HIDE DEF k, t
  <2>4. FieldAt(w, k + 1, t) = FieldAt(V, 1, t)
    BY <2>2, <2>3, FieldShift
  <2>5. QED BY <1>5, <2>1, <2>2, <2>4
<1>13. QED BY <1>2, <1>3, <1>6, <1>9, <1>10, <1>11, <1>12

(* The body of a record without: one word or two.                          *)
LEMMA PlainBody ==
  ASSUME NEW q \in Record, Fits(q), q.type \notin Addressed
  PROVE  /\ Body(q) \in Seq(Byte)
         /\ Len(Body(q)) = IF q.type \in OneWord THEN 2 ELSE 4
         /\ Body(q)[1] = q.command
         /\ q.value = IF q.type \in OneWord THEN {} ELSE AsBits(Body(q)[3] + 256 * Body(q)[4])
<1> DEFINE l == LowHigh(q.command)
           v == LowHigh(AsNumber(q.value))
<1>1. q.command \in Byte /\ q.value \in SUBSET Bits
  BY DEF Record
<1>2. q.command \in Word
  BY <1>1, ByteType, WordType
<1>3. /\ l \in Seq(Byte) /\ Len(l) = 2 /\ l[1] + 256 * l[2] = q.command
  BY <1>2, LowHighWord
<1>4. l[1] = q.command
  <2> DEFINE x == l[1]
             y == l[2]
  <2>1. x \in Byte /\ y \in Byte /\ x + 256 * y = q.command
    BY <1>3
  <2> HIDE DEF x, y
  <2>2. x \in Nat /\ y \in Nat /\ q.command \in Nat /\ q.command <= 255
    BY <1>1, <2>1, ByteType
  <2>3. x = q.command
    BY <2>1, <2>2
  <2>4. QED BY <2>3 DEF x
<1>5. /\ v \in Seq(Byte) /\ Len(v) = 2 /\ v[1] + 256 * v[2] = AsNumber(q.value)
      /\ AsBits(AsNumber(q.value)) = q.value
  BY <1>1, NumberType, BitsBack, LowHighWord
<1>6. CASE q.type \in OneWord
  <2>1. Body(q) = l \o <<>>
    BY <1>6 DEF Body
  <2> HIDE DEF l
  <2>2. l \o <<>> = l
    BY <1>3, ConcatEmptySeq
  <2>3. q.value = {}
    BY <1>6 DEF Fits, Packable
  <2>4. QED BY <1>3, <1>4, <1>6, <2>1, <2>2, <2>3
<1>7. CASE q.type \notin OneWord
  <2>1. Body(q) = l \o v
    BY <1>7 DEF Body
  <2> HIDE DEF l, v
  <2>2. /\ l \o v \in Seq(Byte) /\ Len(l \o v) = Len(l) + Len(v)
        /\ \A i \in 1..(Len(l) + Len(v)) : (l \o v)[i] = IF i <= Len(l) THEN l[i] ELSE v[i - Len(l)]
    BY <1>3, <1>5, ConcatProperties, ZenonT(60)
  <2>3. (l \o v)[1] = l[1] /\ (l \o v)[3] = v[1] /\ (l \o v)[4] = v[2] /\ Len(l \o v) = 4
    BY <1>3, <1>5, <2>2
  <2>4. QED BY <1>4, <1>5, <1>7, <2>1, <2>2, <2>3
<1>8. QED BY <1>6, <1>7

(* The header before a body.                                               *)
Headed(d, t, body) == /\ d \in Seq(Byte) /\ Len(d) = 4 + Len(body)
                      /\ d[1] + 256 * d[2] = Len(d) /\ d[3] + 256 * d[4] = t
                      /\ \A i \in 1..Len(body) : d[4 + i] = body[i]

LEMMA HeaderBefore ==
  ASSUME NEW t \in Word, NEW body \in Seq(Byte), Len(body) <= 12
  PROVE  Headed(LowHigh(4 + Len(body)) \o LowHigh(t) \o body, t, body)
<1> DEFINE l == LowHigh(4 + Len(body))
           k == LowHigh(t)
           h == l \o k
           d == h \o body
<1>1. Len(body) \in Nat /\ 4 + Len(body) \in Word
  <2>1. Len(body) \in Nat /\ 4 + Len(body) \in Nat /\ 4 + Len(body) <= 65535
    OBVIOUS
  <2>2. QED BY <2>1, WordType
<1>2. /\ l \in Seq(Byte) /\ Len(l) = 2 /\ l[1] + 256 * l[2] = 4 + Len(body)
      /\ k \in Seq(Byte) /\ Len(k) = 2 /\ k[1] + 256 * k[2] = t
  BY <1>1, LowHighWord
<1> HIDE DEF l, k
<1>3. /\ h \in Seq(Byte) /\ Len(h) = Len(l) + Len(k)
      /\ \A i \in 1..(Len(l) + Len(k)) : h[i] = IF i <= Len(l) THEN l[i] ELSE k[i - Len(l)]
  <2>1. l \in Seq(Byte) /\ k \in Seq(Byte)
    BY <1>2
  <2>2. QED BY <2>1, ConcatProperties, Zenon
<1> HIDE DEF h
<1>4. /\ h \in Seq(Byte) /\ Len(h) = 4
      /\ h[1] = l[1] /\ h[2] = l[2] /\ h[3] = k[1] /\ h[4] = k[2]
  BY <1>2, <1>3
<1>5. /\ d \in Seq(Byte) /\ Len(d) = Len(h) + Len(body)
      /\ \A i \in 1..(Len(h) + Len(body)) : d[i] = IF i <= Len(h) THEN h[i] ELSE body[i - Len(h)]
  BY <1>4, ConcatProperties, Zenon
<1> HIDE DEF d
<1>6. /\ d \in Seq(Byte) /\ Len(d) = 4 + Len(body)
      /\ d[1] = h[1] /\ d[2] = h[2] /\ d[3] = h[3] /\ d[4] = h[4]
  BY <1>1, <1>4, <1>5
<1>7. ASSUME NEW i \in 1..Len(body) PROVE d[4 + i] = body[i]
  BY <1>1, <1>4, <1>5
<1>8. d[1] + 256 * d[2] = Len(d) /\ d[3] + 256 * d[4] = t
  BY <1>2, <1>4, <1>6
<1>9. Headed(d, t, body)
  BY <1>6, <1>7, <1>8 DEF Headed
<1>10. QED BY <1>9 DEF d, h, l, k

(* Every struct encodes its record.                                        *)
LEMMA StructEncodes ==
  ASSUME NEW q \in Record, Fits(q)
  PROVE  Encodes(Struct(q), q)
<1> DEFINE t == q.type
           body == Body(q)
           d == Struct(q)
<1>1. t \in Word /\ d = LowHigh(4 + Len(body)) \o LowHigh(t) \o body
  BY DEF Record, Struct
<1>2. /\ PecBytes(t) \in 0..1 /\ MaskBytes(t) \in 0..2 /\ ValueBytes(t) \in 0..2
      /\ Width(t) \in 1..2
  BY DEF PecBytes, MaskBytes, ValueBytes, Width
<1>3. CASE t \in Addressed
  <2>1. /\ body \in Seq(Byte)
        /\ Len(body) = 3 + PecBytes(t) + MaskBytes(t) + ValueBytes(t)
        /\ body[1] + 256 * body[2] = q.address /\ body[3] = q.command
        /\ t \in PecRead => (body[4] # 0 <=> q.pec)
        /\ t \in WithMask => FieldAt(body, 4 + PecBytes(t), t) = q.mask
        /\ t \in WithValue => FieldAt(body, 4 + PecBytes(t) + MaskBytes(t), t) = q.value
    BY <1>3, AddressedBody
  <2> HIDE DEF body, d, t
  <2>2. Headed(d, t, body)
    <3>1. Len(body) <= 12
      BY <1>2, <2>1
    <3>2. QED BY <1>1, <2>1, <3>1, HeaderBefore
  <2>3. /\ d[5] + 256 * d[6] = q.address /\ d[7] = q.command
        /\ t \in PecRead => (d[8] # 0 <=> q.pec)
    <3>1. t \in PecRead => Len(body) >= 4
      BY <1>2, <2>1 DEF PecBytes
    <3>2. d[5] = body[1] /\ d[6] = body[2] /\ d[7] = body[3] /\ (t \in PecRead => d[8] = body[4])
      BY <1>2, <2>1, <2>2, <3>1 DEF Headed
    <3>3. QED BY <2>1, <3>2
  <2>4. t \in WithMask => FieldAt(d, 8 + PecBytes(t), t) = q.mask
    <3>1. SUFFICES ASSUME t \in WithMask PROVE FieldAt(d, 8 + PecBytes(t), t) = q.mask
      OBVIOUS
    <3> DEFINE k == 7 + PecBytes(t)
               m == 3 + PecBytes(t)
    <3>2. /\ k \in Nat /\ m \in Nat /\ k + 1 = 8 + PecBytes(t) /\ m + 1 = 4 + PecBytes(t)
          /\ k = 4 + m
      BY <1>2
    <3>3. \A j \in 1..Width(t) : d[k + j] = body[m + j]
      <4>1. SUFFICES ASSUME NEW j \in 1..Width(t) PROVE d[k + j] = body[m + j]
        OBVIOUS
      <4>2. Width(t) = MaskBytes(t)
        BY <3>1 DEF MaskBytes
      <4>3. m + j \in 1..Len(body) /\ k + j = 4 + (m + j)
        BY <1>2, <2>1, <3>2, <4>1, <4>2, SMTT(20)
      <4>4. QED BY <2>2, <4>3 DEF Headed
    <3> DEFINE f == [j \in 1..Width(t) |-> body[m + j]]
    <3>4. \A j \in 1..Width(t) : d[k + j] = f[j] /\ body[m + j] = f[j]
      BY <3>3
    <3> HIDE DEF k, m, f
    <3>5. FieldAt(d, k + 1, t) = FieldAt(f, 1, t) /\ FieldAt(body, m + 1, t) = FieldAt(f, 1, t)
      BY <3>2, <3>4, FieldShift, SMTT(20)
    <3>6. QED BY <2>1, <3>1, <3>2, <3>5
  <2>5. t \in WithValue => FieldAt(d, 8 + PecBytes(t) + MaskBytes(t), t) = q.value
    <3>1. SUFFICES ASSUME t \in WithValue
                   PROVE  FieldAt(d, 8 + PecBytes(t) + MaskBytes(t), t) = q.value
      OBVIOUS
    <3> DEFINE k == 7 + PecBytes(t) + MaskBytes(t)
               m == 3 + PecBytes(t) + MaskBytes(t)
    <3>2. /\ k \in Nat /\ m \in Nat /\ k + 1 = 8 + PecBytes(t) + MaskBytes(t)
          /\ m + 1 = 4 + PecBytes(t) + MaskBytes(t) /\ k = 4 + m
      BY <1>2
    <3>3. \A j \in 1..Width(t) : d[k + j] = body[m + j]
      <4>1. SUFFICES ASSUME NEW j \in 1..Width(t) PROVE d[k + j] = body[m + j]
        OBVIOUS
      <4>2. Width(t) = ValueBytes(t)
        BY <3>1 DEF ValueBytes
      <4>3. m + j \in 1..Len(body) /\ k + j = 4 + (m + j)
        BY <1>2, <2>1, <3>2, <4>1, <4>2, SMTT(20)
      <4>4. QED BY <2>2, <4>3 DEF Headed
    <3> DEFINE f == [j \in 1..Width(t) |-> body[m + j]]
    <3>4. \A j \in 1..Width(t) : d[k + j] = f[j] /\ body[m + j] = f[j]
      BY <3>3
    <3> HIDE DEF k, m, f
    <3>5. FieldAt(d, k + 1, t) = FieldAt(f, 1, t) /\ FieldAt(body, m + 1, t) = FieldAt(f, 1, t)
      BY <3>2, <3>4, FieldShift, SMTT(20)
    <3>6. QED BY <2>1, <3>1, <3>2, <3>5
  <2>6. Len(d) = Taken(t, d[1] + 256 * d[2]) /\ Len(d) >= 6
    <3>1. CASE t = NvmData
      <4>1. Taken(t, d[1] + 256 * d[2]) = d[1] + 256 * d[2]
        BY <3>1 DEF Taken, NvmData, OneWord, TwoWords, MetaData
      <4>2. QED BY <1>2, <2>1, <2>2, <4>1 DEF Headed
    <3>2. CASE t # NvmData
      <4>1. Taken(t, d[1] + 256 * d[2]) = 7 + PecBytes(t) + MaskBytes(t) + ValueBytes(t)
        BY <1>3, <3>2 DEF Taken, PecBytes, MaskBytes, ValueBytes
      <4>2. QED BY <1>2, <2>1, <2>2, <4>1 DEF Headed
    <3>3. QED BY <3>1, <3>2
  <2>7. q.type = t
    BY DEF t
  <2>8. QED BY <1>3, <2>2, <2>3, <2>4, <2>5, <2>6, <2>7 DEF Encodes, Headed, d
<1>4. CASE t \notin Addressed
  <2>1. /\ body \in Seq(Byte)
        /\ Len(body) = IF t \in OneWord THEN 2 ELSE 4
        /\ body[1] = q.command
        /\ q.value = IF t \in OneWord THEN {} ELSE AsBits(body[3] + 256 * body[4])
    BY <1>4, PlainBody
  <2> HIDE DEF body, d, t
  <2>2. Headed(d, t, body)
    <3>1. Len(body) <= 12
      BY <2>1
    <3>2. QED BY <1>1, <2>1, <3>1, HeaderBefore
  <2>3. d[5] = q.command /\ q.value = IF Len(d) >= 8 THEN AsBits(d[7] + 256 * d[8]) ELSE {}
    <3>1. d[5] = body[1] /\ (t \notin OneWord => d[7] = body[3] /\ d[8] = body[4])
      BY <2>1, <2>2 DEF Headed
    <3>2. Len(d) >= 8 <=> t \notin OneWord
      BY <2>1, <2>2 DEF Headed
    <3>3. QED BY <2>1, <3>1, <3>2
  <2>4. Len(d) = Taken(t, d[1] + 256 * d[2]) /\ Len(d) >= 6
    <3>1. Taken(t, d[1] + 256 * d[2]) = IF t \in OneWord THEN 6
                                        ELSE IF t \in TwoWords THEN 8 ELSE d[1] + 256 * d[2]
      BY <1>4 DEF Taken
    <3>2. QED BY <2>1, <2>2, <3>1 DEF Headed
  <2>5. q.type = t
    BY DEF t
  <2>6. QED BY <1>4, <2>2, <2>3, <2>4, <2>5 DEF Encodes, Headed, d
<1>5. QED BY <1>3, <1>4

(* The record that the end line stands for.                                *)
End0 == [NoRecord EXCEPT !.type = EndOfRecords]

LEMMA EndEncodes ==
  /\ End0 \in Record /\ Fits(End0) /\ End0.type = EndOfRecords
  /\ Encodes(EndRecord, End0) /\ Len(EndRecord) = 8
<1>1. /\ End0.type = EndOfRecords /\ End0.address = 0 /\ End0.command = 0 /\ End0.pec = FALSE
      /\ End0.mask = {} /\ End0.value = {}
      /\ End0 = [type |-> 34, address |-> 0, command |-> 0, pec |-> FALSE, mask |-> {}, value |-> {}]
  <2>1. End0 = [type |-> 34, address |-> 0, command |-> 0, pec |-> FALSE, mask |-> {}, value |-> {}]
    <3> DEFINE no == FALSE
    <3>1. NoRecord = [type |-> 0, address |-> 0, command |-> 0, pec |-> no, mask |-> {}, value |-> {}]
      BY Zenon DEF NoRecord
    <3> HIDE DEF no
    <3>2. End0 = [type |-> 34, address |-> 0, command |-> 0, pec |-> no, mask |-> {}, value |-> {}]
      BY <3>1 DEF End0, EndOfRecords
    <3>3. QED BY <3>2, Zenon DEF no
  <2>2. QED BY <2>1 DEF EndOfRecords
<1>2. 0 \in Byte /\ 4 \in Byte /\ 34 \in Byte /\ 0 \in Word /\ 34 \in Word
  BY ByteType, WordType
<1>3. End0 \in Record
  BY <1>1, <1>2 DEF Record
<1>4. /\ EndOfRecords \in Addressed /\ EndOfRecords \in PecRead
      /\ EndOfRecords \notin WithValue /\ EndOfRecords \notin WithMask
      /\ EndOfRecords \notin OneWord /\ EndOfRecords \notin Expects
      /\ EndOfRecords \notin PecUnread \cup {SwappedMask, NvmData, WriteEeData, VerifyEeData}
  <2>1. EndOfRecords \notin Expects
    BY DEF EndOfRecords, Expects
  <2>2. QED BY <2>1, Kinds
<1>5. Fits(End0)
  BY <1>1, <1>4 DEF Fits, Packable
<1>6. /\ EndRecord = <<4, 0, 34, 0, 0, 0, 0, 0>>
      /\ EndRecord \in Seq(Byte) /\ Len(EndRecord) = 8
      /\ EndRecord[1] = 4 /\ EndRecord[2] = 0 /\ EndRecord[3] = 34 /\ EndRecord[4] = 0
      /\ EndRecord[5] = 0 /\ EndRecord[6] = 0 /\ EndRecord[7] = 0 /\ EndRecord[8] = 0
  BY <1>2 DEF EndRecord, EndOfRecords
<1>7. Taken(EndOfRecords, 4) = 8
  BY <1>4 DEF Taken
<1> HIDE DEF EndRecord
<1>8. /\ EndRecord[1] + 256 * EndRecord[2] = 4 /\ EndRecord[3] + 256 * EndRecord[4] = EndOfRecords
      /\ EndRecord[5] + 256 * EndRecord[6] = 0
  BY <1>6 DEF EndOfRecords
<1>9. Encodes(EndRecord, End0)
  BY <1>1, <1>4, <1>6, <1>7, <1>8 DEF Encodes
<1>10. QED BY <1>1, <1>3, <1>5, <1>6, <1>9

(* The record that the parser makes of its bytes.                          *)
LEMMA ParsedRecord ==
  ASSUME NEW q \in Record, Fits(q), Encodes(data, q)
  PROVE  Parsed = q
<1> DEFINE t == q.type
           first == 8 + PecBytes(t)
           second == 8 + PecBytes(t) + MaskBytes(t)
<1>1. WordAt(3) = t /\ WordAt(5) = data[5] + 256 * data[6] /\ WordAt(7) = data[7] + 256 * data[8]
  BY DEF Encodes, WordAt
<1>2. /\ first = (IF t \in PecRead THEN 9 ELSE 8)
      /\ second = (IF t \in PecRead THEN 9 ELSE 8) + (IF t \in WithMask THEN Width(t) ELSE 0)
  BY DEF PecBytes, MaskBytes
<1>3. /\ q.pec \in BOOLEAN
      /\ q = [type |-> q.type, address |-> q.address, command |-> q.command, pec |-> q.pec,
              mask |-> q.mask, value |-> q.value]
  BY DEF Record
<1>4. CASE t \in Addressed
  <2> DEFINE v(i) == AsBits(IF t \in Wide THEN WordAt(i) ELSE data[i])
  <2>1. Parsed = [type |-> t, address |-> WordAt(5), command |-> data[7],
                  pec |-> t \in PecRead /\ data[8] # 0,
                  mask |-> IF t \in WithMask THEN v(first) ELSE {},
                  value |-> IF t \in WithValue THEN v(second) ELSE {}]
    <3>1. t # SwappedMask
      BY DEF Fits
    <3>2. QED BY <1>1, <1>2, <1>4, <3>1, ZenonT(60) DEF Parsed
  <2>2. \A i : v(i) = FieldAt(data, i, t)
    BY DEF FieldAt, WordAt
  <2> HIDE DEF v
  <2>3. /\ WordAt(5) = q.address /\ data[7] = q.command
        /\ (t \in PecRead /\ data[8] # 0) = q.pec
    BY <1>1, <1>3, <1>4 DEF Encodes, Fits, Packable
  <2>4. (IF t \in WithMask THEN v(first) ELSE {}) = q.mask
    BY <1>4, <2>2 DEF Encodes, Fits, Packable
  <2>5. (IF t \in WithValue THEN v(second) ELSE {}) = q.value
    BY <1>4, <2>2 DEF Encodes, Fits, Packable
  <2>6. QED BY <1>3, <2>1, <2>3, <2>4, <2>5
<1>5. CASE t \notin Addressed
  <2>1. Parsed = [type |-> t, address |-> 0, command |-> data[5], pec |-> FALSE, mask |-> {},
                  value |-> IF Len(data) >= 8 THEN AsBits(WordAt(7)) ELSE {}]
    BY <1>1, <1>5 DEF Parsed
  <2>2. t \notin PecRead /\ t \notin WithMask
    BY <1>5, Kinds
  <2>3. /\ data[5] = q.command /\ q.value = (IF Len(data) >= 8 THEN AsBits(WordAt(7)) ELSE {})
        /\ q.address = 0 /\ q.pec = FALSE /\ q.mask = {}
    BY <1>1, <1>3, <1>5, <2>2 DEF Encodes, Fits, Packable
  <2>4. QED BY <1>3, <2>1, <2>3
<1>6. QED BY <1>4, <1>5

(* The parser notices the end of a record, and no earlier.                 *)
LEMMA CompleteAtEnd ==
  ASSUME NEW q, NEW d, Encodes(d, q), data \in Seq(Byte), Len(data) <= Len(d),
         \A i \in 1..Len(data) : data[i] = d[i]
  PROVE  /\ Complete <=> Len(data) = Len(d)
         /\ Complete => data = d
<1>1. /\ Len(d) \in Nat /\ Len(data) \in Nat /\ Len(d) >= 6 /\ d \in Seq(Byte)
      /\ Len(d) = Taken(q.type, d[1] + 256 * d[2]) /\ d[3] + 256 * d[4] = q.type
  BY DEF Encodes
<1>2. CASE Len(data) >= 4
  <2>1. data[1] = d[1] /\ data[2] = d[2] /\ data[3] = d[3] /\ data[4] = d[4]
    BY <1>1, <1>2
  <2>2. WordAt(3) = q.type /\ WordAt(1) = d[1] + 256 * d[2]
    <3>1. 3 + 1 = 4 /\ 1 + 1 = 2
      OBVIOUS
    <3>2. QED BY <1>1, <2>1, <3>1 DEF WordAt
  <2>3. Complete <=> Len(data) = Len(d)
    BY <1>1, <1>2, <2>2 DEF Complete
  <2>4. Len(data) = Len(d) => data = d
    BY <1>1, SeqEqual
  <2>5. QED BY <2>3, <2>4
<1>3. CASE Len(data) < 4
  BY <1>1, <1>3 DEF Complete
<1>4. QED BY <1>1, <1>2, <1>3

-----------------------------------------------------------------------------
(* The bytes of a recipe.                                                  *)
Cat(s, p, n) == IF n = 0 THEN <<>> ELSE s[n - 1] \o Struct(p[n])
Joined(s, p, N) == s = [n \in 0..N |-> Cat(s, p, n)]

Fitting(p) == /\ p \in Seq(Record)
              /\ \A i \in DOMAIN p : p[i].type # EndOfRecords /\ Fits(p[i])

(* None of the recipes has a record 0x1A, 0x1C or 0x1D.                     *)
AllParsed == \A p \in Recipes : ParsedAsDeclared(p)

LEMMA FittingRecipes ==
  ASSUME AllParsed
  PROVE  \A p \in Recipes : Fitting(p)
  BY RecipesAssumption DEF AllParsed, ParsedAsDeclared, Fitting, Fits

LEMMA JoinedExists ==
  ASSUME NEW p, NEW N \in Nat
  PROVE  \E s : Joined(s, p, N)
<1> DEFINE S == {m \in Nat : \E s : Joined(s, p, m)}
<1>1. 0 \in S
  <2>1. Joined([n \in 0..0 |-> <<>>], p, 0)
    BY DEF Joined, Cat
  <2>2. QED BY <2>1
<1>2. ASSUME NEW m \in Nat, m \in S PROVE m + 1 \in S
  <2>1. PICK s : Joined(s, p, m)
    BY <1>2
  <2>2. DEFINE t == [n \in 0..(m + 1) |-> IF n = m + 1 THEN s[m] \o Struct(p[m + 1]) ELSE s[n]]
  <2> HIDE DEF Struct
  <2>3. ASSUME NEW n \in 0..(m + 1)
        PROVE  t[n] = Cat(t, p, n)
    <3>1. \A k \in 0..m : s[k] = Cat(s, p, k)
      BY <2>1 DEF Joined
    <3>2. \A k \in 0..m : t[k] = s[k]
      OBVIOUS
    <3>3. CASE n = m + 1
      <4>1. t[n] = s[m] \o Struct(p[m + 1])
        BY <3>3
      <4>2. n # 0 /\ n - 1 = m /\ t[m] = s[m]
        BY <3>2, <3>3
      <4> HIDE DEF t
      <4>3. QED BY <3>3, <4>1, <4>2, Zenon DEF Cat
    <3>4. CASE n # m + 1
      <4>1. n \in 0..m /\ (n # 0 => n - 1 \in 0..m)
        BY <3>4
      <4>2. t[n] = Cat(s, p, n) /\ (n # 0 => t[n - 1] = s[n - 1])
        BY <3>1, <3>2, <4>1
      <4> HIDE DEF t
      <4>3. QED BY <4>2, Zenon DEF Cat
    <3>5. QED BY <3>3, <3>4
  <2>4. Joined(t, p, m + 1)
    BY <2>3 DEF Joined
  <2>5. QED BY <2>4
<1>3. Nat \subseteq S
  <2> HIDE DEF S
  <2> QED BY <1>1, <1>2, SetInduction
<1>4. QED BY <1>3

LEMMA AllBytesJoined ==
  ASSUME NEW p, Len(p) \in Nat
  PROVE  \E s : Joined(s, p, Len(p)) /\ AllBytes(p) = s[Len(p)]
<1> DEFINE P(s) == s = [n \in 0..Len(p) |-> IF n = 0 THEN <<>> ELSE s[n - 1] \o Struct(p[n])]
<1>1. \A s : Joined(s, p, Len(p)) <=> P(s)
  BY Zenon DEF Joined, Cat
<1>2. \E s : P(s)
  <2> HIDE DEF P
  <2> QED BY <1>1, JoinedExists
<1>3. P(CHOOSE s : P(s))
  <2> HIDE DEF P
  <2> QED BY <1>2, Zenon
<1>4. AllBytes(p) = (CHOOSE s : P(s))[Len(p)]
  BY Zenon DEF AllBytes
<1>5. QED
  <2> HIDE DEF P
  <2> QED BY <1>1, <1>3, <1>4

(* Where the bytes of each record of p end, the end record included.       *)
Stream(p) == AllBytes(p) \o EndRecord
Packed(p, k) == IF k <= Len(p) THEN Struct(p[k]) ELSE EndRecord

RecordsAt(p, o) ==
  /\ o \in [0..(Len(p) + 1) -> Nat] /\ o[0] = 0
  /\ \A k \in 0..(Len(p) + 1) : o[k] <= Len(Stream(p))
  /\ \A k \in 1..(Len(p) + 1) : o[k] = o[k - 1] + Len(Packed(p, k))
  /\ \A k \in 1..(Len(p) + 1) : \A i \in 1..Len(Packed(p, k)) :
       Stream(p)[o[k - 1] + i] = Packed(p, k)[i]

LEMMA JoinedParts ==
  ASSUME NEW p, Fitting(p), NEW s, Joined(s, p, Len(p))
  PROVE  /\ s[0] = <<>>
         /\ \A n \in 0..Len(p) : s[n] \in Seq(Byte)
         /\ \A n \in 1..Len(p) : Struct(p[n]) \in Seq(Byte) /\ s[n] = s[n - 1] \o Struct(p[n])
<1> DEFINE N == Len(p)
<1>1. N \in Nat /\ \A n \in 1..N : p[n] \in Record /\ Fits(p[n])
  BY DEF Fitting
<1>2. \A n \in 1..N : Struct(p[n]) \in Seq(Byte)
  BY <1>1, StructEncodes DEF Encodes
<1> DEFINE b == [n \in 1..N |-> Struct(p[n])]
<1>3. s[0] = <<>> /\ \A n \in 1..N : s[n] = s[n - 1] \o b[n]
  <2>1. \A n \in 0..N : s[n] = Cat(s, p, n)
    BY DEF Joined
  <2>2. \A n \in 1..N : n \in 0..N /\ n # 0 /\ b[n] = Struct(p[n])
    BY <1>1
  <2>3. 0 \in 0..N
    BY <1>1
  <2> HIDE DEF b, N
  <2>4. QED BY <2>1, <2>2, <2>3, Zenon DEF Cat
<1>4. \A n \in 1..N : b[n] \in Seq(Byte) /\ b[n] = Struct(p[n])
  BY <1>2
<1> DEFINE S == {n \in Nat : n <= N => s[n] \in Seq(Byte)}
<1> HIDE DEF b, N
<1>5. 0 \in S
  <2>1. <<>> \in Seq(Byte) /\ s[0] = <<>>
    BY <1>3
  <2>2. QED BY <2>1
<1>6. ASSUME NEW n \in Nat, n \in S PROVE n + 1 \in S
  <2>1. SUFFICES ASSUME n + 1 <= N PROVE s[n + 1] \in Seq(Byte)
    OBVIOUS
  <2>2. s[n] \in Seq(Byte) /\ n + 1 \in 1..N /\ (n + 1) - 1 = n
    BY <1>1, <1>6, <2>1
  <2>3. s[n + 1] = s[n] \o b[n + 1] /\ b[n + 1] \in Seq(Byte)
    BY <1>3, <1>4, <2>2
  <2>4. QED BY <2>2, <2>3, ConcatProperties
<1>7. Nat \subseteq S
  <2> HIDE DEF S
  <2> QED BY <1>5, <1>6, SetInduction
<1>8. \A n \in 0..N : s[n] \in Seq(Byte)
  BY <1>1, <1>7
<1>9. QED
  <2>1. \A n \in 1..N : s[n] = s[n - 1] \o Struct(p[n])
    BY <1>3, <1>4
  <2>2. QED BY <1>2, <1>3, <1>8, <2>1 DEF N

Begins(a, w) == Len(a) <= Len(w) /\ \A i \in 1..Len(a) : w[i] = a[i]

LEMMA JoinedGrows ==
  ASSUME NEW N \in Nat, NEW s, NEW b, \A n \in 0..N : s[n] \in Seq(Byte),
         \A n \in 1..N : b[n] \in Seq(Byte) /\ s[n] = s[n - 1] \o b[n],
         NEW k \in 0..N
  PROVE  Begins(s[k], s[N])
<1> DEFINE S == {j \in Nat : k + j <= N =>
                   Len(s[k]) <= Len(s[k + j]) /\ \A i \in 1..Len(s[k]) : s[k + j][i] = s[k][i]}
<1>1. 0 \in S
  <2>1. k + 0 = k /\ Len(s[k]) \in Nat
    OBVIOUS
  <2>2. QED BY <2>1
<1>2. ASSUME NEW j \in Nat, j \in S PROVE j + 1 \in S
  <2> DEFINE u == s[k + j]
             v == b[k + j + 1]
             w == s[k + (j + 1)]
             a == s[k]
  <2>1. SUFFICES ASSUME k + (j + 1) <= N
                 PROVE  Len(a) <= Len(w) /\ \A i \in 1..Len(a) : w[i] = a[i]
    OBVIOUS
  <2>2. Len(a) <= Len(u) /\ \A i \in 1..Len(a) : u[i] = a[i]
    BY <1>2, <2>1
  <2>3. u \in Seq(Byte) /\ v \in Seq(Byte) /\ w = u \o v /\ a \in Seq(Byte)
    <3>1. k + j \in 0..N /\ k + j + 1 \in 1..N /\ k + (j + 1) = k + j + 1
          /\ (k + j + 1) - 1 = k + j
      BY <2>1
    <3>2. QED BY <3>1
  <2> HIDE DEF u, v, w, a
  <2>4. /\ Len(w) = Len(u) + Len(v)
        /\ \A i \in 1..(Len(u) + Len(v)) : w[i] = IF i <= Len(u) THEN u[i] ELSE v[i - Len(u)]
    BY <2>3, ConcatProperties
  <2>5. Len(u) \in Nat /\ Len(v) \in Nat /\ Len(a) \in Nat
    BY <2>3
  <2>6. QED BY <2>2, <2>4, <2>5
<1>3. Nat \subseteq S
  <2> HIDE DEF S
  <2> QED BY <1>1, <1>2, SetInduction
<1> DEFINE j == N - k
<1>4. j \in Nat /\ k + j = N
  OBVIOUS
<1> HIDE DEF j
<1>5. k + j <= N => Len(s[k]) <= Len(s[k + j]) /\ \A i \in 1..Len(s[k]) : s[k + j][i] = s[k][i]
  BY <1>3, <1>4
<1>6. s[k + j] = s[N] /\ k + j <= N
  <2>1. k + j = N /\ N <= N
    BY <1>4
  <2>2. QED BY <2>1, Zenon
<1> DEFINE a == s[k]
           u == s[k + j]
           w == s[N]
<1>7. (Len(a) <= Len(u) /\ \A i \in 1..Len(a) : u[i] = a[i]) /\ u = w
  BY <1>5, <1>6
<1> HIDE DEF a, u, w
<1>8. Len(a) <= Len(w) /\ \A i \in 1..Len(a) : w[i] = a[i]
  BY <1>7
<1>9. QED BY <1>8 DEF a, w, Begins

(* The k-th record that the parser delivers.                               *)
Delivered(p, k) == IF k <= Len(p) THEN p[k] ELSE End0

LEMMA PackedEncodes ==
  ASSUME NEW p, Fitting(p), NEW k \in 1..(Len(p) + 1)
  PROVE  /\ Delivered(p, k) \in Record /\ Fits(Delivered(p, k))
         /\ Encodes(Packed(p, k), Delivered(p, k))
         /\ Packed(p, k) \in Seq(Byte) /\ Len(Packed(p, k)) >= 6
         /\ Delivered(p, k).type = EndOfRecords <=> k = Len(p) + 1
<1>1. Len(p) \in Nat /\ \A n \in 1..Len(p) : p[n] \in Record /\ Fits(p[n]) /\ p[n].type # EndOfRecords
  BY DEF Fitting
<1>2. CASE k <= Len(p)
  <2>1. k \in 1..Len(p) /\ k # Len(p) + 1
    BY <1>1, <1>2
  <2>2. Delivered(p, k) = p[k] /\ Packed(p, k) = Struct(p[k])
    BY <1>2 DEF Delivered, Packed
  <2>3. p[k] \in Record /\ Fits(p[k]) /\ p[k].type # EndOfRecords
    BY <1>1, <2>1
  <2> DEFINE q == p[k]
  <2> HIDE DEF q
  <2>4. Encodes(Struct(q), q)
    BY <2>3, StructEncodes DEF q
  <2>5. Struct(q) \in Seq(Byte) /\ Len(Struct(q)) >= 6
    BY <2>4 DEF Encodes
  <2>6. QED BY <2>1, <2>2, <2>3, <2>4, <2>5 DEF q
<1>3. CASE ~(k <= Len(p))
  <2>1. Delivered(p, k) = End0 /\ Packed(p, k) = EndRecord /\ k = Len(p) + 1
    BY <1>1, <1>3 DEF Delivered, Packed
  <2>2. EndRecord \in Seq(Byte) /\ Len(EndRecord) >= 6
    BY EndEncodes DEF Encodes
  <2>3. QED BY <2>1, <2>2, EndEncodes
<1>4. QED BY <1>2, <1>3

LEMMA RecipeBytes ==
  ASSUME NEW p, Fitting(p)
  PROVE  /\ AllBytes(p) \in Seq(Byte) /\ Stream(p) \in Seq(Byte)
         /\ Len(Stream(p)) = Len(AllBytes(p)) + 8
         /\ \A i \in 1..Len(AllBytes(p)) : Stream(p)[i] = AllBytes(p)[i]
         /\ \A i \in 1..Len(EndRecord) : Stream(p)[Len(AllBytes(p)) + i] = EndRecord[i]
         /\ \E o : RecordsAt(p, o)
<1> DEFINE N == Len(p)
           B == AllBytes(p)
           D == Stream(p)
<1>1. N \in Nat
  BY DEF Fitting
<1>2. PICK s : Joined(s, p, N) /\ B = s[N]
  BY <1>1, AllBytesJoined
<1>3. /\ s[0] = <<>>
      /\ \A n \in 0..N : s[n] \in Seq(Byte)
      /\ \A n \in 1..N : Struct(p[n]) \in Seq(Byte) /\ s[n] = s[n - 1] \o Struct(p[n])
  BY <1>2, JoinedParts
<1>4. EndRecord \in Seq(Byte) /\ Len(EndRecord) = 8
  BY EndEncodes DEF Encodes
<1>5. D = B \o EndRecord
  BY DEF Stream
<1> HIDE DEF B, D, N
<1>6. B \in Seq(Byte) /\ Len(B) \in Nat
  BY <1>1, <1>2, <1>3
<1>7. /\ D \in Seq(Byte) /\ Len(D) = Len(B) + Len(EndRecord)
      /\ \A i \in 1..(Len(B) + Len(EndRecord)) :
           D[i] = IF i <= Len(B) THEN B[i] ELSE EndRecord[i - Len(B)]
  BY <1>4, <1>5, <1>6, ConcatProperties
<1> HIDE DEF EndRecord
<1>8. /\ D \in Seq(Byte) /\ Len(D) = Len(B) + 8
      /\ \A i \in 1..Len(B) : D[i] = B[i]
      /\ \A i \in 1..Len(EndRecord) : D[Len(B) + i] = EndRecord[i]
  <2> DEFINE m == Len(EndRecord)
  <2>1. m = 8 /\ m \in Nat
    BY <1>4
  <2>2. D \in Seq(Byte) /\ Len(D) = Len(B) + 8
    BY <1>7, <2>1
  <2> HIDE DEF m
  <2>3. ASSUME NEW i \in 1..Len(B) PROVE D[i] = B[i]
    <3>1. i \in 1..(Len(B) + m) /\ i <= Len(B)
      BY <1>6, <2>1
    <3>2. QED BY <1>7, <3>1 DEF m
  <2>4. ASSUME NEW i \in 1..m PROVE D[Len(B) + i] = EndRecord[i]
    <3>1. Len(B) + i \in 1..(Len(B) + m) /\ ~(Len(B) + i <= Len(B)) /\ (Len(B) + i) - Len(B) = i
      BY <1>6, <2>1
    <3>2. QED BY <1>7, <3>1 DEF m
  <2>5. QED BY <2>2, <2>3, <2>4 DEF m
<1> DEFINE b == [n \in 1..N |-> Struct(p[n])]
<1>9. \A n \in 1..N : b[n] \in Seq(Byte) /\ s[n] = s[n - 1] \o b[n] /\ b[n] = Struct(p[n])
  <2> HIDE DEF Struct
  <2>1. \A n \in 1..N : b[n] = Struct(p[n])
    OBVIOUS
  <2> HIDE DEF b
  <2>2. QED BY <1>3, <2>1
<1> HIDE DEF b
<1>10. ASSUME NEW k \in 0..N
       PROVE  Len(s[k]) <= Len(B) /\ \A i \in 1..Len(s[k]) : B[i] = s[k][i]
  <2>1. Begins(s[k], s[N])
    <3>1. \A n \in 1..N : b[n] \in Seq(Byte) /\ s[n] = s[n - 1] \o b[n]
      BY <1>9
    <3>2. \A n \in 0..N : s[n] \in Seq(Byte)
      BY <1>3
    <3>3. QED BY <1>1, <3>1, <3>2, JoinedGrows
  <2>2. QED BY <1>2, <2>1, Zenon DEF Begins
<1> DEFINE o == [k \in 0..(N + 1) |-> IF k <= N THEN Len(s[k]) ELSE Len(D)]
<1>11. /\ o \in [0..(N + 1) -> Nat] /\ o[0] = 0 /\ o[N] = Len(B) /\ o[N + 1] = Len(D)
  <2>1. Len(D) \in Nat /\ \A k \in 0..(N + 1) : k <= N => Len(s[k]) \in Nat
    BY <1>1, <1>3, <1>8
  <2>2. Len(s[0]) = 0
    BY <1>3
  <2>3. QED BY <1>1, <1>2, <2>1, <2>2
<1>12. \A k \in 0..N : o[k] = Len(s[k])
  BY <1>1
<1> HIDE DEF o
<1>13. ASSUME NEW k \in 1..(N + 1)
       PROVE  /\ o[k] = o[k - 1] + Len(Packed(p, k))
              /\ \A i \in 1..Len(Packed(p, k)) : D[o[k - 1] + i] = Packed(p, k)[i]
  <2>1. CASE k \in 1..N
    <3> DEFINE a == s[k - 1]
               c == b[k]
               e == s[k]
    <3>1. k - 1 \in 0..N /\ k \in 0..N
      BY <1>1, <2>1
    <3>2. a \in Seq(Byte) /\ c \in Seq(Byte) /\ e = a \o c
      BY <1>3, <1>9, <2>1, <3>1
    <3>3. o[k - 1] = Len(a) /\ o[k] = Len(e) /\ Packed(p, k) = c
      <4>1. o[k - 1] = Len(a) /\ o[k] = Len(e)
        BY <1>12, <3>1
      <4>2. k <= N /\ c = Struct(p[k])
        <5>1. k <= N
          BY <1>1, <2>1
        <5>2. QED BY <1>9, <2>1, <5>1, Zenon
      <4>3. QED BY <4>1, <4>2, Zenon DEF Packed, N
    <3>4. Len(e) <= Len(B) /\ \A i \in 1..Len(e) : B[i] = e[i]
      BY <1>10, <3>1
    <3> HIDE DEF a, c, e
    <3>5. /\ Len(e) = Len(a) + Len(c)
          /\ \A i \in 1..(Len(a) + Len(c)) : e[i] = IF i <= Len(a) THEN a[i] ELSE c[i - Len(a)]
      BY <3>2, ConcatProperties
    <3>6. Len(a) \in Nat /\ Len(c) \in Nat
      BY <3>2
    <3>7. \A i \in 1..Len(c) : D[Len(a) + i] = c[i]
      <4>1. SUFFICES ASSUME NEW i \in 1..Len(c) PROVE D[Len(a) + i] = c[i]
        OBVIOUS
      <4>2. /\ Len(a) + i \in 1..(Len(a) + Len(c)) /\ ~(Len(a) + i <= Len(a))
            /\ (Len(a) + i) - Len(a) = i
        BY <3>6
      <4>3. e[Len(a) + i] = c[i] /\ Len(a) + i \in 1..Len(e)
        BY <3>5, <4>2
      <4>4. B[Len(a) + i] = c[i] /\ Len(a) + i \in 1..Len(B)
        BY <1>6, <3>4, <3>5, <3>6, <4>3
      <4>5. QED BY <1>8, <4>4
    <3>8. QED BY <3>3, <3>5, <3>7
  <2>2. CASE k = N + 1
    <3>1. Packed(p, k) = EndRecord /\ k - 1 = N
      BY <1>1, <2>2 DEF Packed, N
    <3>2. o[k] = o[k - 1] + Len(EndRecord) /\ o[k - 1] = Len(B)
      BY <1>4, <1>8, <1>11, <2>2, <3>1
    <3>3. QED BY <1>8, <3>1, <3>2, Zenon
  <2>3. QED BY <1>1, <2>1, <2>2
<1>14. RecordsAt(p, o)
  <2>1. /\ o \in [0..(N + 1) -> Nat] /\ o[0] = 0 /\ o[N] = Len(B) /\ o[N + 1] = Len(D)
        /\ \A k \in 0..(N + 1) : o[k] <= Len(D)
        /\ \A k \in 1..(N + 1) : o[k] = o[k - 1] + Len(Packed(p, k))
        /\ \A k \in 1..(N + 1) : \A i \in 1..Len(Packed(p, k)) :
             D[o[k - 1] + i] = Packed(p, k)[i]
    <3>1. ASSUME NEW k \in 0..(N + 1) PROVE o[k] <= Len(D)
      <4>1. CASE k \in 0..N
        <5>1. o[k] = Len(s[k]) /\ Len(s[k]) <= Len(B) /\ Len(s[k]) \in Nat
          BY <1>3, <1>10, <1>12, <4>1
        <5>2. QED BY <1>6, <1>8, <5>1
      <4>2. CASE k = N + 1
        BY <1>6, <1>8, <1>11, <4>2
      <4>3. QED BY <1>1, <4>1, <4>2
    <3>2. QED BY <1>11, <1>13, <3>1
  <2>2. QED BY <2>1, Zenon DEF RecordsAt, N, B, D
<1>15. QED BY <1>6, <1>8, <1>14 DEF B, D

-----------------------------------------------------------------------------
(* The lines of a file.                                                    *)
Line == [type : {0, 1}, data : Seq(Byte)]

Cut(lines, bytes, from) ==
  /\ lines \in Seq(Line) /\ Len(lines) >= 1 /\ lines[Len(lines)] = EndLine
  /\ from \in [1..Len(lines) -> Nat] /\ from[1] = 0 /\ from[Len(lines)] = Len(bytes)
  /\ \A i \in 1..(Len(lines) - 1) :
       /\ lines[i].type = 0 /\ from[i] < from[i + 1] /\ from[i + 1] <= Len(bytes)
       /\ Len(lines[i].data) = from[i + 1] - from[i]
       /\ \A j \in 1..Len(lines[i].data) : lines[i].data[j] = bytes[from[i] + j]

LEMMA Ceiling ==
  ASSUME NEW m \in Nat, NEW n \in Nat, n > 0
  PROVE  /\ (m + n - 1) \div n \in Nat
         /\ m <= ((m + n - 1) \div n) * n
         /\ \A i \in 1..((m + n - 1) \div n) : (i - 1) * n < m /\ (i - 1) * n \in Nat
<1> DEFINE x == m + n - 1
           c == x \div n
           r == x % n
<1>1. x \in Nat
  OBVIOUS
<1> HIDE DEF x
<1>2. x = n * c + r /\ c \in Nat /\ r \in Nat /\ r < n
  BY <1>1
<1> HIDE DEF c, r
<1>3. n * c = c * n /\ n * c \in Nat
  BY <1>2
<1>4. m <= c * n
  BY <1>2, <1>3 DEF x
<1>5. ASSUME NEW i \in 1..c PROVE (i - 1) * n < m /\ (i - 1) * n \in Nat
  <2> DEFINE j == i - 1
             k == c - i
  <2>1. j \in Nat /\ k \in Nat /\ c = j + k + 1
    BY <1>2
  <2> HIDE DEF j, k
  <2>2. c * n = j * n + k * n + n /\ j * n \in Nat /\ k * n \in Nat
    BY <2>1
  <2>3. j * n < m
    BY <1>2, <1>3, <2>2 DEF x
  <2>4. QED BY <2>2, <2>3 DEF j
<1>6. QED BY <1>2, <1>4, <1>5 DEF c, x

LEMMA LinesCut ==
  ASSUME NEW p, Fitting(p), NEW n \in Nat, n > 0
  PROVE  \E from : Cut(Lines(p, n), AllBytes(p), from)
<1> DEFINE B == AllBytes(p)
           m == Len(B)
           c == (m + n - 1) \div n
           end(i) == LineEnd(B, i, n)
           piece(i) == SubSeq(B, (i - 1) * n + 1, end(i))
           L == [i \in 1..c |-> DataLine(piece(i))]
           from == [i \in 1..(c + 1) |-> end(i - 1)]
<1>1. B \in Seq(Byte) /\ m \in Nat
  <2>1. B \in Seq(Byte)
    BY RecipeBytes
  <2> HIDE DEF B
  <2>2. QED BY <2>1
<1>2. Lines(p, n) = L \o <<EndLine>>
  BY Zenon DEF Lines
<1> HIDE DEF B
<1> HIDE DEF m
<1>3. /\ c \in Nat /\ m <= c * n
      /\ \A i \in 1..c : (i - 1) * n < m /\ (i - 1) * n \in Nat
  BY <1>1, Ceiling
<1> HIDE DEF c
<1>4. \A i : end(i) = IF i * n < m THEN i * n ELSE m
  BY DEF LineEnd, m
<1> HIDE DEF end
<1>5. ASSUME NEW i \in 1..c
      PROVE  /\ end(i - 1) = (i - 1) * n /\ end(i) \in Nat /\ end(i - 1) < end(i) /\ end(i) <= m
             /\ end(i - 1) \in Nat
  <2> DEFINE j == i - 1
             x == j * n
  <2>1. j \in Nat /\ i = j + 1 /\ x < m /\ x \in Nat
    BY <1>3
  <2>2. i * n = x + n
    BY <2>1
  <2>3. end(j) = x /\ (end(i) = IF i * n < m THEN i * n ELSE m)
    BY <1>4, <2>1
  <2> HIDE DEF x
  <2>4. end(i) \in Nat /\ x < end(i) /\ end(i) <= m
    BY <1>1, <2>1, <2>2, <2>3
  <2>5. QED BY <2>1, <2>3, <2>4 DEF x
<1>6. end(0) = 0 /\ end(c) = m
  <2>1. 0 * n = 0 /\ c * n \in Nat
    BY <1>3
  <2>2. QED BY <1>1, <1>3, <1>4, <2>1
<1>7. ASSUME NEW i \in 1..c
      PROVE  /\ piece(i) \in Seq(Byte) /\ Len(piece(i)) = end(i) - end(i - 1)
             /\ \A j \in 1..Len(piece(i)) : piece(i)[j] = B[end(i - 1) + j]
  <2> DEFINE x == end(i - 1)
             y == end(i)
             w == SubSeq(B, x + 1, y)
  <2>1. piece(i) = w
    BY <1>5
  <2>2. x \in Nat /\ y \in Nat /\ x < y /\ y <= m
    BY <1>5
  <2> HIDE DEF x, y
  <2>3. x + 1 \in Int /\ y \in Int /\ \A k \in (x + 1)..y : B[k] \in Byte
    BY <1>1, <2>2 DEF m
  <2>4. /\ w \in Seq(Byte)
        /\ Len(w) = IF x + 1 <= y THEN y - (x + 1) + 1 ELSE 0
        /\ \A k \in 1..(y - (x + 1) + 1) : w[k] = B[(x + 1) + k - 1]
    BY <2>3, SubSeqProperties
  <2> HIDE DEF w
  <2>5. Len(w) = y - x /\ \A k \in 1..Len(w) : w[k] = B[x + k]
    BY <2>2, <2>4
  <2>6. w \in Seq(Byte) /\ Len(w) = y - x /\ \A j \in 1..Len(w) : w[j] = B[x + j]
    BY <2>4, <2>5
  <2> HIDE DEF piece
  <2>7. QED BY <2>1, <2>6, Zenon DEF x, y
<1> HIDE DEF piece
<1>8. /\ L \in Seq(Line) /\ Len(L) = c
      /\ \A i \in 1..c : L[i].type = 0 /\ L[i].data = piece(i)
  <2>1. \A i \in 1..c : DataLine(piece(i)) \in Line /\ L[i] = DataLine(piece(i))
    BY <1>7 DEF DataLine, Line
  <2>2. \A i \in 1..c : DataLine(piece(i)).type = 0 /\ DataLine(piece(i)).data = piece(i)
    BY DEF DataLine
  <2>3. L \in [1..c -> Line]
    BY <2>1
  <2> HIDE DEF L
  <2>4. QED BY <1>3, <2>1, <2>2, <2>3
<1> HIDE DEF L
<1>9. EndLine \in Line /\ <<EndLine>> \in Seq(Line) /\ Len(<<EndLine>>) = 1 /\ <<EndLine>>[1] = EndLine
  BY DEF EndLine, Line
<1> DEFINE e == <<EndLine>>
           W == L \o e
<1> HIDE DEF e
<1>10. /\ W \in Seq(Line) /\ Len(W) = Len(L) + Len(e)
       /\ \A i \in 1..(Len(L) + Len(e)) : W[i] = IF i <= Len(L) THEN L[i] ELSE e[i - Len(L)]
  <2>1. L \in Seq(Line) /\ e \in Seq(Line)
    BY <1>8, <1>9 DEF e
  <2>2. QED BY <2>1, ConcatProperties, Zenon
<1> HIDE DEF W
<1>11. Len(W) = c + 1 /\ W[c + 1] = EndLine /\ \A i \in 1..c : W[i] = L[i]
  <2>1. Len(e) = 1 /\ e[1] = EndLine
    BY <1>9 DEF e
  <2>2. QED BY <1>3, <1>8, <1>10, <2>1
<1>12. /\ from \in [1..(c + 1) -> Nat] /\ from[1] = 0 /\ from[c + 1] = m
       /\ \A i \in 1..c : from[i] = end(i - 1) /\ from[i + 1] = end(i)
  <2>1. \A i \in 1..(c + 1) : end(i - 1) \in Nat /\ from[i] = end(i - 1)
    <3>1. ASSUME NEW i \in 1..(c + 1) PROVE end(i - 1) \in Nat
      <4>1. CASE i = 1
        BY <1>6, <4>1
      <4>2. CASE i # 1
        <5>1. i - 1 \in 1..c
          BY <1>3, <4>2
        <5>2. QED BY <1>5, <5>1
      <4>3. QED BY <4>1, <4>2
    <3>2. QED BY <3>1
  <2>2. from \in [1..(c + 1) -> Nat]
    BY <2>1
  <2> HIDE DEF from
  <2>3. /\ 1 \in 1..(c + 1) /\ 1 - 1 = 0 /\ c + 1 \in 1..(c + 1) /\ (c + 1) - 1 = c
        /\ \A i \in 1..c : i \in 1..(c + 1) /\ i + 1 \in 1..(c + 1) /\ (i + 1) - 1 = i
    BY <1>3
  <2>4. QED BY <1>6, <2>1, <2>2, <2>3
<1> HIDE DEF from
<1>13. Cut(W, B, from)
  <2>1. /\ W \in Seq(Line) /\ Len(W) >= 1 /\ W[Len(W)] = EndLine
        /\ from \in [1..Len(W) -> Nat] /\ from[1] = 0 /\ from[Len(W)] = Len(B)
    BY <1>3, <1>10, <1>11, <1>12 DEF m
  <2>2. ASSUME NEW i \in 1..(Len(W) - 1)
        PROVE  /\ W[i].type = 0 /\ from[i] < from[i + 1] /\ from[i + 1] <= Len(B)
               /\ Len(W[i].data) = from[i + 1] - from[i]
               /\ \A j \in 1..Len(W[i].data) : W[i].data[j] = B[from[i] + j]
    <3>1. i \in 1..c
      BY <1>3, <1>11
    <3>2. W[i].type = 0 /\ W[i].data = piece(i)
      BY <1>8, <1>11, <3>1
    <3>3. from[i] = end(i - 1) /\ from[i + 1] = end(i)
      BY <1>12, <3>1
    <3>4. end(i - 1) < end(i) /\ end(i) <= Len(B)
      BY <1>5, <3>1 DEF m
    <3>5. /\ Len(piece(i)) = end(i) - end(i - 1)
          /\ \A j \in 1..Len(piece(i)) : piece(i)[j] = B[end(i - 1) + j]
      BY <1>7, <3>1
    <3>6. QED BY <3>2, <3>3, <3>4, <3>5, Zenon
  <2>3. QED BY <2>1, <2>2 DEF Cut
<1>14. QED BY <1>2, <1>13 DEF W, e, B

-----------------------------------------------------------------------------
(* The parser has taken T bytes of the file.                               *)
Placed(from, T) ==
  \/ /\ flashLocation = 0 /\ parse_data = <<>> /\ parse_data_position = 0
     /\ T = 0
  \/ /\ flashLocation \in 1..Len(icpData) /\ parse_data = Loaded(flashLocation)
     /\ parse_data_position \in 1..Len(parse_data)
     /\ T = from[flashLocation] + parse_data_position

LEMMA LoadedBytes ==
  ASSUME Fitting(recipe), NEW from, Cut(icpData, AllBytes(recipe), from),
         NEW f \in 1..Len(icpData)
  PROVE  /\ Loaded(f) \in Seq(Byte) /\ Len(Loaded(f)) >= 1
         /\ f < Len(icpData) => from[f + 1] = from[f] + Len(Loaded(f))
         /\ f = Len(icpData) => from[f] + Len(Loaded(f)) = Len(Stream(recipe))
         /\ \A j \in 1..Len(Loaded(f)) : Loaded(f)[j] = Stream(recipe)[from[f] + j]
<1> DEFINE B == AllBytes(recipe)
           D == Stream(recipe)
           N == Len(icpData)
<1>1. /\ B \in Seq(Byte) /\ D \in Seq(Byte) /\ Len(D) = Len(B) + 8
      /\ \A i \in 1..Len(B) : D[i] = B[i]
      /\ \A i \in 1..Len(EndRecord) : D[Len(B) + i] = EndRecord[i]
  BY RecipeBytes
<1>2. Cut(icpData, B, from)
  OBVIOUS
<1>3. EndRecord \in Seq(Byte) /\ Len(EndRecord) = 8
  BY EndEncodes DEF Encodes
<1> HIDE DEF B, D
<1>4. N \in Nat /\ N >= 1 /\ from \in [1..N -> Nat] /\ from[N] = Len(B) /\ icpData \in Seq(Line)
  BY <1>2 DEF Cut
<1>5. CASE f < N
  <2> DEFINE w == icpData[f].data
  <2>1. f \in 1..(N - 1) /\ f + 1 \in 1..N
    BY <1>4, <1>5
  <2>2. /\ icpData[f].type = 0 /\ from[f] < from[f + 1] /\ from[f + 1] <= Len(B)
        /\ Len(w) = from[f + 1] - from[f]
        /\ \A j \in 1..Len(w) : w[j] = B[from[f] + j]
    BY <1>2, <2>1, Zenon DEF Cut, N
  <2>3. w \in Seq(Byte)
    <3>1. icpData[f] \in Line
      BY <1>4, ElementOfSeq DEF N
    <3>2. QED BY <3>1 DEF Line
  <2>4. Loaded(f) = w
    BY <1>4, <1>5, <2>2 DEF Loaded
  <2> HIDE DEF w
  <2>5. from[f] \in Nat /\ from[f + 1] \in Nat /\ Len(B) \in Nat
    BY <1>1, <1>4, <2>1, SMTT(30)
  <2>6. ASSUME NEW j \in 1..Len(w) PROVE w[j] = D[from[f] + j]
    <3>1. from[f] + j \in 1..Len(B)
      BY <2>2, <2>5, <2>6
    <3>2. QED BY <1>1, <2>2, <3>1
  <2>7. Len(w) >= 1 /\ from[f + 1] = from[f] + Len(w)
    BY <2>2, <2>5
  <2>8. QED BY <1>5, <2>3, <2>4, <2>6, <2>7 DEF D
<1>6. CASE f = N
  <2>1. icpData[f] = EndLine
    BY <1>2, <1>6 DEF Cut
  <2>2. Loaded(f) = EndRecord
    BY <1>4, <1>6, <2>1 DEF Loaded, EndLine
  <2>3. from[f] = Len(B) /\ Len(B) \in Nat
    BY <1>1, <1>4, <1>6
  <2> HIDE DEF EndRecord
  <2>4. \A j \in 1..Len(EndRecord) : EndRecord[j] = D[from[f] + j]
    BY <1>1, <2>3
  <2>5. Len(EndRecord) >= 1 /\ from[f] + Len(EndRecord) = Len(D)
    BY <1>1, <1>3, <2>3
  <2>6. EndRecord \in Seq(Byte) /\ ~(f < N)
    BY <1>3, <1>4, <1>6
  <2>7. QED BY <2>2, <2>4, <2>5, <2>6, Zenon DEF D, N
<1>7. QED BY <1>4, <1>5, <1>6

(* The next byte that the parser takes is the next one of the file.        *)
LEMMA NextByte ==
  ASSUME Fitting(recipe), NEW from, Cut(icpData, AllBytes(recipe), from),
         NEW T \in Nat, Placed(from, T), T < Len(Stream(recipe)),
         parse_hex, icpData' = icpData
  PROVE  /\ Placed(from, T + 1)'
         /\ flashLocation' \in 1..Len(icpData)
         /\ parse_data' \in Seq(Byte) /\ parse_data_position' \in 1..Len(parse_data')
         /\ parse_data'[parse_data_position'] = Stream(recipe)[T + 1]
<1> DEFINE N == Len(icpData)
           g == flashLocation'
           q == parse_data_position'
           w == parse_data'
<1>1. N \in Nat /\ N >= 1 /\ from \in [1..N -> Nat] /\ from[1] = 0
  BY DEF Cut
<1>2. \A f : Loaded(f)' = Loaded(f)
  BY DEF Loaded
<1>3. SUFFICES g \in 1..N /\ w = Loaded(g) /\ q \in 1..Len(w) /\ T + 1 = from[g] + q
  <2>1. w \in Seq(Byte) /\ w[q] = Stream(recipe)[from[g] + q]
    BY <1>3, LoadedBytes
  <2>2. Placed(from, T + 1)'
    BY <1>2, <1>3 DEF Placed
  <2>3. QED BY <1>3, <2>1, <2>2
<1>4. CASE flashLocation = 0 /\ parse_data = <<>> /\ parse_data_position = 0 /\ T = 0
  <2>1. w = Loaded(0 + 1) /\ g = 0 + 1 /\ q = 1
    BY <1>4 DEF parse_hex
  <2>2. g = 1 /\ w = Loaded(1) /\ g \in 1..N
    BY <1>1, <2>1
  <2>3. Len(Loaded(1)) >= 1 /\ Loaded(1) \in Seq(Byte)
    BY <2>2, LoadedBytes
  <2>4. q \in 1..Len(w)
    BY <2>1, <2>2, <2>3
  <2>5. T + 1 = from[g] + q
    BY <1>1, <1>4, <2>1, <2>2
  <2>6. QED BY <2>2, <2>4, <2>5
<1>5. CASE /\ flashLocation \in 1..N /\ parse_data = Loaded(flashLocation)
           /\ parse_data_position \in 1..Len(parse_data)
           /\ T = from[flashLocation] + parse_data_position
  <2> DEFINE f == flashLocation
             v == Loaded(f)
  <2>1. /\ v \in Seq(Byte) /\ Len(v) >= 1 /\ Len(v) \in Nat
        /\ f < N => from[f + 1] = from[f] + Len(v)
        /\ f = N => from[f] + Len(v) = Len(Stream(recipe))
    BY <1>5, LoadedBytes
  <2>2. from[f] \in Nat
    BY <1>1, <1>5
  <2>3. CASE parse_data_position = Len(parse_data)
    <3>1. w = Loaded(f + 1) /\ g = f + 1 /\ q = 1
      BY <2>3 DEF parse_hex
    <3>2. T = from[f] + Len(v)
      BY <1>5, <2>3
    <3>3. f # N
      BY <2>1, <3>2
    <3>4. g \in 1..N /\ from[g] = T
      BY <1>1, <1>5, <2>1, <3>1, <3>2, <3>3
    <3>5. Len(Loaded(g)) >= 1 /\ Loaded(g) \in Seq(Byte)
      BY <3>4, LoadedBytes
    <3>6. w = Loaded(g)
      BY <3>1
    <3>7. q \in 1..Len(w)
      BY <3>1, <3>5, <3>6
    <3>8. QED BY <3>1, <3>4, <3>6, <3>7
  <2>4. CASE parse_data_position # Len(parse_data)
    <3>1. w = v /\ g = f /\ q = parse_data_position + 1
      BY <1>5, <2>4 DEF parse_hex
    <3>2. parse_data_position \in 1..Len(v) /\ parse_data_position # Len(v)
      BY <1>5, <2>4
    <3>3. q \in 1..Len(v) /\ T + 1 = from[f] + q
      BY <1>5, <2>1, <2>2, <3>1, <3>2, SMTT(30)
    <3>4. QED BY <1>5, <3>1, <3>3
  <2>5. QED BY <2>3, <2>4
<1>6. QED BY <1>4, <1>5 DEF Placed

-----------------------------------------------------------------------------
(* The invariant of the parser: the records delivered are those of the       *)
(* recipe, the bytes in data are the first ones of the next record, and the  *)
(* parser stands behind them.                                              *)
Delivery == /\ got \in Seq(Record) /\ Len(got) <= Len(recipe) + 1
            /\ \A i \in 1..Len(got) : got[i] = Delivered(recipe, i)

Next1 == Packed(recipe, Len(got) + 1)

UnderWay ==
  /\ Len(got) <= Len(recipe)
  /\ Len(data) <= Len(Next1) /\ \A i \in 1..Len(data) : data[i] = Next1[i]
  /\ \E from, o : /\ Cut(icpData, AllBytes(recipe), from) /\ RecordsAt(recipe, o)
                  /\ Placed(from, o[Len(got)] + Len(data))

Handling == Len(got) >= 1 /\ rec = got[Len(got)] /\ data = <<>>

Parsing ==
  /\ AllParsed
  /\ recipe \in Recipes \cup {<<>>}
  /\ icpData \in Seq(Line) /\ flashLocation \in 0..Len(icpData)
  /\ parse_data \in Seq(Byte) /\ parse_data_position \in 0..Len(parse_data)
  /\ data \in Seq(Byte) /\ Delivery
  /\ run # "idle" => UnderWay
  /\ run = "idle" => step = "none"
  /\ step # "none" => Handling

LEMMA RecipeFits == Parsing => Fitting(recipe)
<1>1. Fitting(<<>>)
  BY DEF Fitting
<1>2. QED BY <1>1, FittingRecipes DEF Parsing

LEMMA ParsingInitially ==
  ASSUME AllParsed
  PROVE  Init => Parsing
<1>1. SUFFICES ASSUME Init PROVE Parsing
  OBVIOUS
<1>2. /\ recipe = <<>> /\ icpData = <<>> /\ flashLocation = 0 /\ parse_data = <<>>
      /\ parse_data_position = 0 /\ data = <<>> /\ got = <<>> /\ run = "idle" /\ step = "none"
  BY <1>1 DEF Init, HandlerInit
<1>3. Delivery
  BY <1>2 DEF Delivery
<1>4. QED BY <1>2, <1>3 DEF Parsing

LEMMA ParsingStart ==
  ASSUME Parsing, NEW loop \in {"program", "verify"}, NEW r \in Recipes, NEW n \in LineSizes,
         Start(loop, r, n)
  PROVE  Parsing'
<1>1. /\ recipe' = r /\ icpData' = Lines(r, n) /\ flashLocation' = 0 /\ parse_data' = <<>>
      /\ parse_data_position' = 0 /\ data' = <<>> /\ got' = <<>> /\ run' = loop /\ step' = step
      /\ step = "none"
  BY DEF Start, ResetParseHex, handler, Parsing
<1>2. Fitting(r)
  BY FittingRecipes DEF Parsing
<1>3. n \in Nat /\ n > 0
  BY RecipesAssumption
<1>4. PICK from : Cut(Lines(r, n), AllBytes(r), from)
  BY <1>2, <1>3, LinesCut
<1>5. PICK o : RecordsAt(r, o)
  BY <1>2, RecipeBytes
<1>6. /\ Lines(r, n) \in Seq(Line) /\ Len(Lines(r, n)) \in Nat /\ o[0] = 0 /\ Len(r) \in Nat
  BY <1>2, <1>4, <1>5 DEF Cut, RecordsAt, Fitting
<1>7. Placed(from, o[Len(got)] + Len(data))'
  BY <1>1, <1>6 DEF Placed
<1>8. Len(Next1') \in Nat
  <2>1. 1 \in 1..(Len(r) + 1) /\ Len(<<>>) + 1 = 1
    BY <1>6
  <2>2. Packed(r, 1) \in Seq(Byte)
    BY <1>2, <2>1, PackedEncodes
  <2>3. Next1' = Packed(r, 1)
    BY <1>1, <2>1 DEF Next1, Packed
  <2>4. QED BY <2>2, <2>3
<1>9. UnderWay'
  <2>1. Len(got') <= Len(recipe') /\ Len(data') <= Len(Next1')
        /\ \A i \in 1..Len(data') : data'[i] = Next1'[i]
    BY <1>1, <1>6, <1>8
  <2>2. Cut(icpData, AllBytes(recipe), from)' /\ RecordsAt(recipe, o)'
    BY <1>1, <1>4, <1>5
  <2>3. QED BY <1>7, <2>1, <2>2 DEF UnderWay
<1>10. Delivery'
  BY <1>1, <1>6 DEF Delivery
<1>11. QED BY <1>1, <1>6, <1>9, <1>10 DEF Parsing

LEMMA PlacedSame ==
  ASSUME UNCHANGED <<file, parser>>, NEW from, NEW T, Placed(from, T)
  PROVE  Placed(from, T)'
<1>1. UNCHANGED <<icpData, flashLocation, parse_data, parse_data_position>>
  BY DEF file, parser
<1>2. Loaded(flashLocation)' = Loaded(flashLocation)
  BY <1>1 DEF Loaded
<1>3. QED BY <1>1, <1>2 DEF Placed

LEMMA ParsingGetByte ==
  ASSUME Parsing, GetByte
  PROVE  Parsing'
<1> DEFINE k == Len(got) + 1
           d == Packed(recipe, k)
           m == Len(data)
<1>1. /\ run # "idle" /\ step = "none" /\ ~Complete /\ parse_hex
      /\ data' = Append(data, parse_data'[parse_data_position'])
      /\ UNCHANGED <<run, rec, step, recipe, icpData, got>>
  BY DEF GetByte, handlerVars, handler
<1>2. Fitting(recipe) /\ UnderWay /\ Delivery /\ data \in Seq(Byte) /\ icpData \in Seq(Line)
  BY <1>1, RecipeFits DEF Parsing
<1>3. Len(got) \in Nat /\ Len(recipe) \in Nat /\ m \in Nat /\ k \in 1..(Len(recipe) + 1) /\ k - 1 = Len(got)
  BY <1>2 DEF UnderWay, Delivery, Fitting
<1>4. d \in Seq(Byte) /\ Encodes(d, Delivered(recipe, k)) /\ Len(d) \in Nat
  BY <1>2, <1>3, PackedEncodes
<1>5. m <= Len(d) /\ \A i \in 1..m : data[i] = d[i]
  BY <1>2 DEF UnderWay, Next1
<1>6. m < Len(d)
  <2> HIDE DEF d
  <2>1. Complete <=> m = Len(d)
    BY <1>2, <1>4, <1>5, CompleteAtEnd
  <2>2. QED BY <1>1, <1>3, <1>4, <1>5, <2>1
<1>7. PICK from, o : /\ Cut(icpData, AllBytes(recipe), from) /\ RecordsAt(recipe, o)
                     /\ Placed(from, o[Len(got)] + m)
  BY <1>2 DEF UnderWay
<1> DEFINE D == Stream(recipe)
<1>8. /\ o[Len(got)] \in Nat /\ o[k] = o[Len(got)] + Len(d) /\ o[k] <= Len(D)
      /\ \A i \in 1..Len(d) : D[o[Len(got)] + i] = d[i]
  <2>1. k \in 0..(Len(recipe) + 1) /\ Len(got) \in 0..(Len(recipe) + 1)
    BY <1>3
  <2> HIDE DEF k
  <2>2. /\ o \in [0..(Len(recipe) + 1) -> Nat] /\ o[k] <= Len(D)
        /\ o[k] = o[k - 1] + Len(d) /\ \A i \in 1..Len(d) : D[o[k - 1] + i] = d[i]
    BY <1>3, <1>7, <2>1, Zenon DEF RecordsAt
  <2>3. QED BY <1>3, <2>1, <2>2
<1>9. Len(D) \in Nat
  <2>1. D \in Seq(Byte)
    BY <1>2, RecipeBytes
  <2> HIDE DEF D
  <2>2. QED BY <2>1
<1> HIDE DEF d, D
<1>10. PICK T \in Nat : T = o[Len(got)] + m
  BY <1>3, <1>8
<1>10a. T < Len(D) /\ T + 1 = o[Len(got)] + (m + 1) /\ m + 1 \in 1..Len(d)
  <2> DEFINE a == o[Len(got)]
             z == o[k]
             l == Len(D)
             w == Len(d)
  <2>1. a \in Nat /\ z = a + w /\ z <= l
    BY <1>8
  <2>2. m \in Nat /\ w \in Nat /\ l \in Nat /\ m < w /\ T = a + m
    BY <1>3, <1>4, <1>6, <1>9, <1>10
  <2> HIDE DEF a, z, l, w, m
  <2>3. T < l /\ T + 1 = a + (m + 1) /\ m + 1 \in 1..w
    BY <2>1, <2>2
  <2>4. QED BY <2>3 DEF a, l, w
<1>11. /\ Placed(from, T + 1)'
       /\ flashLocation' \in 1..Len(icpData)
       /\ parse_data' \in Seq(Byte) /\ parse_data_position' \in 1..Len(parse_data')
       /\ parse_data'[parse_data_position'] = D[T + 1]
  <2>1. T \in Nat /\ T < Len(Stream(recipe)) /\ Placed(from, T) /\ icpData' = icpData
    BY <1>1, <1>7, <1>10, <1>10a DEF D
  <2>2. QED BY <1>1, <1>2, <1>7, <2>1, NextByte DEF D
<1>12. D[T + 1] = d[m + 1] /\ d[m + 1] \in Byte
  BY <1>4, <1>8, <1>10, <1>10a
<1>13. /\ data' \in Seq(Byte) /\ Len(data') = m + 1
       /\ \A i \in 1..(m + 1) : data'[i] = d[i]
  <2> DEFINE x == d[m + 1]
  <2>1. data' = Append(data, x) /\ x \in Byte
    BY <1>1, <1>11, <1>12
  <2> HIDE DEF x
  <2>2. /\ Append(data, x) \in Seq(Byte) /\ Len(Append(data, x)) = m + 1
        /\ \A i \in 1..m : Append(data, x)[i] = data[i]
        /\ Append(data, x)[m + 1] = x
    BY <1>2, <2>1, AppendProperties
  <2>3. \A i \in 1..(m + 1) : i \in 1..m \/ i = m + 1
    BY <1>3
  <2>4. QED BY <1>5, <2>1, <2>2, <2>3 DEF x
<1>14. d' = d /\ Next1' = d /\ D' = D
  BY <1>1 DEF d, D, Next1, Packed, Stream
<1>15. UnderWay'
  <2>1. /\ Len(got') <= Len(recipe')
        /\ Len(data') <= Len(Next1') /\ \A i \in 1..Len(data') : data'[i] = Next1'[i]
    BY <1>1, <1>2, <1>3, <1>4, <1>6, <1>13, <1>14 DEF UnderWay
  <2>2. Cut(icpData, AllBytes(recipe), from)' /\ RecordsAt(recipe, o)'
    BY <1>1, <1>7
  <2>3. o[Len(got')] + Len(data') = T + 1
    BY <1>1, <1>10, <1>10a, <1>13
  <2>4. Placed(from, o[Len(got)] + Len(data))'
    BY <1>11, <2>3 DEF Placed
  <2>5. QED BY <2>1, <2>2, <2>4 DEF UnderWay
<1>16. Delivery'
  BY <1>1, <1>2 DEF Delivery
<1>17. QED
  <2>1. /\ recipe' \in Recipes \cup {<<>>} /\ icpData' \in Seq(Line)
        /\ flashLocation' \in 0..Len(icpData') /\ parse_data' \in Seq(Byte)
        /\ parse_data_position' \in 0..Len(parse_data')
    BY <1>1, <1>2, <1>11 DEF Parsing
  <2>2. run' # "idle" /\ step' = "none"
    BY <1>1
  <2>3. QED BY <1>13, <1>15, <1>16, <2>1, <2>2 DEF Parsing

(* A record that is complete is the next one of the recipe.                *)
LEMMA Fetched ==
  ASSUME Parsing, run # "idle", Complete,
         NEW k, k = Len(got) + 1
  PROVE  /\ k \in 1..(Len(recipe) + 1) /\ Len(recipe) \in Nat
         /\ data = Packed(recipe, k)
         /\ Parsed = Delivered(recipe, k) /\ Parsed \in Record
         /\ Parsed.type = EndOfRecords <=> k = Len(recipe) + 1
<1> DEFINE d == Packed(recipe, k)
           q == Delivered(recipe, k)
<1>1. Fitting(recipe) /\ UnderWay /\ Delivery /\ data \in Seq(Byte)
  BY RecipeFits DEF Parsing
<1>2. Len(got) \in Nat /\ Len(recipe) \in Nat /\ k \in 1..(Len(recipe) + 1)
  BY <1>1 DEF UnderWay, Delivery, Fitting
<1>3. q \in Record /\ Fits(q) /\ Encodes(d, q) /\ d \in Seq(Byte)
      /\ (q.type = EndOfRecords <=> k = Len(recipe) + 1)
  BY <1>1, <1>2, PackedEncodes
<1>4. Len(data) <= Len(d) /\ \A i \in 1..Len(data) : data[i] = d[i]
  BY <1>1 DEF UnderWay, Next1
<1> HIDE DEF d, q
<1>5. data = d
  BY <1>1, <1>3, <1>4, CompleteAtEnd
<1>6. Encodes(data, q)
  BY <1>3, <1>5
<1>7. Parsed = q
  BY <1>3, <1>6, ParsedRecord
<1>8. QED BY <1>2, <1>3, <1>5, <1>7 DEF d, q

LEMMA ParsingProcessRecord ==
  ASSUME Parsing, ProcessRecord
  PROVE  Parsing'
<1>1. /\ run # "idle" /\ step = "none" /\ Complete /\ data' = <<>>
      /\ got' = Append(got, Parsed)
      /\ UNCHANGED file
  BY DEF ProcessRecord, End
<1>2. PICK k : k = Len(got) + 1
  OBVIOUS
<1>3. /\ k \in 1..(Len(recipe) + 1) /\ Len(recipe) \in Nat
      /\ data = Packed(recipe, k)
      /\ Parsed = Delivered(recipe, k) /\ Parsed \in Record
      /\ (Parsed.type = EndOfRecords <=> k = Len(recipe) + 1)
  BY <1>1, <1>2, Fetched
<1>4. Delivery /\ UnderWay
  BY <1>1 DEF Parsing
<1>5. got \in Seq(Record) /\ Len(got) \in Nat
  BY <1>4 DEF Delivery
<1>6. UNCHANGED <<recipe, icpData, flashLocation>>
  BY <1>1 DEF file
<1>7. /\ got' \in Seq(Record) /\ Len(got') = k /\ got'[k] = Parsed
      /\ \A i \in 1..Len(got) : got'[i] = got[i]
  <2> DEFINE x == Parsed
  <2>1. got' = Append(got, x) /\ x \in Record
    BY <1>1, <1>3
  <2> HIDE DEF x
  <2>2. /\ got' \in Seq(Record) /\ Len(got') = Len(got) + 1 /\ got'[Len(got) + 1] = x
        /\ \A i \in 1..Len(got) : got'[i] = got[i]
    BY <1>5, <2>1, AppendProperties
  <2>3. QED BY <1>2, <2>2 DEF x
<1>8. Delivery'
  <2>1. ASSUME NEW i \in 1..k PROVE got'[i] = Delivered(recipe, i)
    <3>1. CASE i = k
      BY <1>3, <1>7, <3>1
    <3>2. CASE i # k
      <4>1. i \in 1..Len(got)
        BY <1>2, <1>3, <1>5, <3>2
      <4>2. QED BY <1>4, <1>7, <4>1 DEF Delivery
    <3>3. QED BY <3>1, <3>2
  <2>2. \A i : Delivered(recipe, i)' = Delivered(recipe, i)
    BY <1>6 DEF Delivered
  <2>3. QED BY <1>3, <1>6, <1>7, <2>1, <2>2 DEF Delivery
<1>9. /\ recipe' \in Recipes \cup {<<>>} /\ icpData' \in Seq(Line)
      /\ flashLocation' \in 0..Len(icpData') /\ data' \in Seq(Byte)
  BY <1>1, <1>6 DEF Parsing
<1>10. CASE run' = "idle"
  <2>1. parse_data' = <<>> /\ parse_data_position' = 0 /\ step' = "none"
    BY <1>1, <1>10 DEF ProcessRecord, End, ResetParseHex
  <2>2. parse_data' \in Seq(Byte) /\ parse_data_position' \in 0..Len(parse_data')
    BY <2>1
  <2>3. QED BY <1>8, <1>9, <1>10, <2>1, <2>2 DEF Parsing
<1>11. CASE run' # "idle"
  <2>1. /\ rec' = Parsed /\ UNCHANGED parser /\ Parsed.type # EndOfRecords
    BY <1>11 DEF ProcessRecord, End
  <2>2. k <= Len(recipe) /\ k \in 0..(Len(recipe) + 1) /\ k >= 1 /\ Len(got) = k - 1
    BY <1>2, <1>3, <1>5, <2>1
  <2>3. PICK from, o : /\ Cut(icpData, AllBytes(recipe), from) /\ RecordsAt(recipe, o)
                       /\ Placed(from, o[Len(got)] + Len(data))
    BY <1>4 DEF UnderWay
  <2>4. PICK T : T = o[Len(got)] + Len(data)
    OBVIOUS
  <2>5. T = o[k] /\ o[k] \in Nat
    <3> DEFINE d == Packed(recipe, k)
    <3>1. o \in [0..(Len(recipe) + 1) -> Nat] /\ o[k] = o[k - 1] + Len(d)
      BY <1>3, <2>3, Zenon DEF RecordsAt
    <3>2. data = d
      BY <1>3
    <3> HIDE DEF d
    <3>3. QED BY <2>2, <2>4, <3>1, <3>2
  <2>6. Placed(from, T)'
    BY <1>1, <2>1, <2>3, <2>4, PlacedSame
  <2>7. (o[Len(got)] + Len(data))' = T
    BY <1>1, <1>7, <2>5
  <2>8. Placed(from, o[Len(got)] + Len(data))'
    BY <2>6, <2>7 DEF Placed
  <2>9. (Len(data) <= Len(Next1) /\ \A i \in 1..Len(data) : data[i] = Next1[i])'
    <3>1. k + 1 \in 1..(Len(recipe) + 1) /\ Len(got') + 1 = k + 1
      BY <1>3, <1>7, <2>2
    <3>2. Fitting(recipe)
      BY RecipeFits
    <3>3. Packed(recipe, k + 1) \in Seq(Byte)
      BY <3>1, <3>2, PackedEncodes
    <3>4. Next1' = Packed(recipe, k + 1)
      BY <1>6, <3>1 DEF Next1, Packed
    <3>5. QED BY <1>1, <3>3, <3>4
  <2>10. Cut(icpData, AllBytes(recipe), from)' /\ RecordsAt(recipe, o)'
    BY <1>6, <2>3
  <2>11. UnderWay'
    BY <1>6, <1>7, <2>2, <2>8, <2>9, <2>10 DEF UnderWay
  <2>12. Handling'
    BY <1>1, <1>3, <1>7, <2>1 DEF Handling
  <2>13. parse_data' \in Seq(Byte) /\ parse_data_position' \in 0..Len(parse_data')
    BY <2>1 DEF parser, Parsing
  <2>14. QED BY <1>8, <1>9, <1>11, <2>11, <2>12, <2>13 DEF Parsing
<1>12. QED BY <1>10, <1>11

(* What the parser keeps when only the handlers, the registers or results    *)
(* change.                                                                 *)
LEMMA ParsingSame ==
  ASSUME Parsing, UNCHANGED <<file, parser, data, got>>,
         \/ UNCHANGED <<run, rec, step>>
         \/ UNCHANGED <<run, rec>> /\ run # "idle" /\ step # "none"
  PROVE  Parsing'
<1>1. UNCHANGED <<recipe, icpData, flashLocation, parse_data, parse_data_position, data, got, run, rec>>
  BY DEF file, parser
<1>2. Delivery' <=> Delivery
  BY <1>1 DEF Delivery, Delivered
<1>3. Handling' <=> Handling
  BY <1>1 DEF Handling
<1>4. UnderWay => UnderWay'
  <2>1. SUFFICES ASSUME UnderWay PROVE UnderWay'
    OBVIOUS
  <2>2. PICK from, o : /\ Cut(icpData, AllBytes(recipe), from) /\ RecordsAt(recipe, o)
                       /\ Placed(from, o[Len(got)] + Len(data))
    BY <2>1 DEF UnderWay
  <2>3. PICK T : T = o[Len(got)] + Len(data)
    OBVIOUS
  <2>4. Placed(from, T)'
    BY <2>2, <2>3, PlacedSame
  <2>5. Placed(from, o[Len(got)] + Len(data))'
    BY <1>1, <2>3, <2>4 DEF Placed
  <2>6. Next1' = Next1
    BY <1>1 DEF Next1, Packed
  <2>7. Cut(icpData, AllBytes(recipe), from)' /\ RecordsAt(recipe, o)'
    BY <1>1, <2>2
  <2>8. QED BY <1>1, <2>1, <2>5, <2>6, <2>7 DEF UnderWay
<1>5. QED BY <1>1, <1>2, <1>3, <1>4 DEF Parsing

(* A handler goes on, or returns.                                          *)
LEMMA HandleShape ==
  ASSUME Handle
  PROVE  /\ run # "idle" /\ step # "none" /\ UNCHANGED <<run, rec>>
         /\ step' \in {"none", "write", "poll"}
<1>1. CASE WriteRecord \/ ReadExpect \/ ReadExpectMask \/ ReadLoopMask \/ PassRecord
  BY <1>1 DEF WriteRecord, ReadExpect, ReadExpectMask, ReadLoopMask, PassRecord, At, Return
<1>2. CASE ReadToModify \/ WriteModified \/ ClearWriteProtect \/ SetBaseAddress \/ PassMetaData
  BY <1>2 DEF ReadToModify, WriteModified, ClearWriteProtect, SetBaseAddress, PassMetaData, At, Return
<1>3. CASE ProcessEvent \/ BufferNvmData \/ WriteNvmData \/ LockNvm
  BY <1>3 DEF ProcessEvent, BufferNvmData, WriteNvmData, LockNvm, At, AtAlways, Return
<1>4. CASE ReadThenVerifyNvmData \/ PollNotBusy \/ Unsupported
  BY <1>4 DEF ReadThenVerifyNvmData, PollNotBusy, Unsupported, At, Return
<1>5. QED BY <1>1, <1>2, <1>3, <1>4 DEF Handle

LEMMA IgnoreShape ==
  ASSUME Ignore
  PROVE  /\ run # "idle" /\ step = "start" /\ step' = "none" /\ status' = TRUE
         /\ old' = {} /\ UNCHANGED <<run, rec, reg, statics>>
  BY DEF Ignore, Return

LEMMA ParsingKept == Parsing /\ [Next]_vars => Parsing'
<1>1. SUFFICES ASSUME Parsing, [Next]_vars PROVE Parsing'
  OBVIOUS
<1>2. ASSUME NEW loop \in {"program", "verify"}, NEW r \in Recipes, NEW n \in LineSizes,
             Start(loop, r, n)
      PROVE  Parsing'
  BY <1>1, <1>2, ParsingStart
<1>3. CASE CantOpen
  <2>1. /\ run = "idle" /\ got' = <<>> /\ UNCHANGED <<run, rec, step, file, parser, data>>
    BY <1>3 DEF CantOpen, handlerVars, handler
  <2>2. UNCHANGED <<recipe, icpData, flashLocation, parse_data, parse_data_position, data>>
    BY <2>1 DEF file, parser
  <2>3. Len(recipe) \in Nat
    BY <1>1, RecipeFits DEF Fitting
  <2>4. Delivery'
    BY <2>1, <2>2, <2>3 DEF Delivery
  <2>5. step = "none"
    BY <1>1, <2>1 DEF Parsing
  <2>6. QED BY <1>1, <2>1, <2>2, <2>4, <2>5 DEF Parsing
<1>4. CASE GetByte
  BY <1>1, <1>4, ParsingGetByte
<1>5. CASE ProcessRecord
  BY <1>1, <1>5, ParsingProcessRecord
<1>6. CASE HandleRecord
  BY <1>1, <1>6, HandleShape, ParsingSame DEF HandleRecord
<1>6a. CASE SkipRecord
  BY <1>1, <1>6a, IgnoreShape, ParsingSame DEF SkipRecord
<1>7. ASSUME NEW r \in Status, NEW bits \in {{}, {NotBusy}},
             Settle(r, bits) /\ UNCHANGED <<file, parser, data, got, skipped, result, runs>>
      PROVE  Parsing'
  BY <1>1, <1>7, ParsingSame DEF Settle, handler
<1>8. CASE BusError
  <2>1. /\ recipe' = <<>> /\ icpData' = <<>> /\ flashLocation' = 0 /\ parse_data' = <<>>
        /\ parse_data_position' = 0 /\ data' = <<>> /\ got' = <<>> /\ run' = "idle" /\ step' = "none"
    BY <1>8 DEF BusError
  <2>2. Delivery'
    BY <2>1 DEF Delivery
  <2>3. QED BY <1>1, <2>1, <2>2 DEF Parsing
<1>9. CASE UNCHANGED vars
  BY <1>1, <1>9, ParsingSame DEF vars, handlerVars, handler
<1>10. QED BY <1>1, <1>2, <1>3, <1>4, <1>5, <1>6, <1>6a, <1>7, <1>8, <1>9 DEF Next, Quit

-----------------------------------------------------------------------------
(* InsideFile: the parser never reads behind the end of the file, if none of *)
(* the recipes has a record that it does not take as declared.             *)
THEOREM NeverBehindTheEnd ==
  ASSUME AllParsed
  PROVE  Spec => []InsideFile
<1>1. Parsing => InsideFile
  <2>1. SUFFICES ASSUME Parsing PROVE InsideFile
    OBVIOUS
  <2>2. icpData \in Seq(Line) /\ flashLocation \in 0..Len(icpData)
    BY <2>1 DEF Parsing
  <2>3. QED BY <2>2 DEF InsideFile
<1>2. QED BY <1>1, ParsingInitially, ParsingKept, PTL DEF Spec

(* RecordsAsWritten: the records that the parser delivers are those of the   *)
(* file, wherever its lines cut them and whatever run was broken off before, *)
(* if none of the recipes has a record 0x1A, 0x1C or 0x1D.                   *)
THEOREM DeliversTheFile ==
  ASSUME AllParsed
  PROVE  Spec => []RecordsAsWritten
<1>1. Parsing => RecordsAsWritten
  <2>1. SUFFICES ASSUME Parsing PROVE RecordsAsWritten
    OBVIOUS
  <2>2. Fitting(recipe) /\ Delivery
    BY <2>1, RecipeFits DEF Parsing
  <2>3. /\ got \in Seq(Record) /\ Len(got) \in Nat /\ recipe \in Seq(Record)
        /\ Len(recipe) \in Nat /\ Len(got) <= Len(recipe) + 1
    BY <2>2 DEF Delivery, Fitting
  <2>5. End0 \in Record /\ End0.type = EndOfRecords
    BY EndEncodes
  <2>6. /\ WithEnd = Append(recipe, End0)
        /\ WithEnd \in Seq(Record) /\ Len(WithEnd) = Len(recipe) + 1
        /\ \A i \in 1..Len(recipe) : WithEnd[i] = recipe[i]
        /\ WithEnd[Len(recipe) + 1] = End0
    <3>1. WithEnd = Append(recipe, End0)
      BY DEF WithEnd, End0
    <3> DEFINE e == End0
    <3>2. e \in Record
      BY <2>5
    <3> HIDE DEF e
    <3>3. /\ Append(recipe, e) \in Seq(Record) /\ Len(Append(recipe, e)) = Len(recipe) + 1
          /\ \A i \in 1..Len(recipe) : Append(recipe, e)[i] = recipe[i]
          /\ Append(recipe, e)[Len(recipe) + 1] = e
      BY <2>3, <3>2, AppendProperties
    <3>4. QED BY <3>1, <3>3 DEF e
  <2>7. ASSUME NEW i \in 1..Len(got) PROVE got[i] = WithEnd[i]
    <3>1. got[i] = Delivered(recipe, i) /\ i \in 1..(Len(recipe) + 1)
      BY <2>2, <2>3 DEF Delivery
    <3>2. Delivered(recipe, i) = WithEnd[i]
      BY <2>3, <2>6, <3>1 DEF Delivered
    <3>3. QED BY <3>1, <3>2
  <2>8. /\ Len(SubSeq(WithEnd, 1, Len(got))) = Len(got)
        /\ SubSeq(WithEnd, 1, Len(got)) \in Seq(Record)
        /\ \A i \in 1..Len(got) : SubSeq(WithEnd, 1, Len(got))[i] = WithEnd[i]
    <3> DEFINE W == WithEnd
               g == Len(got)
    <3>1. W \in Seq(Record) /\ g \in Nat /\ g <= Len(W)
      BY <2>3, <2>6
    <3> HIDE DEF W, g
    <3>2. /\ Len(SubSeq(W, 1, g)) = g /\ SubSeq(W, 1, g) \in Seq(Record)
          /\ \A i \in 1..g : SubSeq(W, 1, g)[i] = W[i]
      BY <3>1, SubSeqProperties
    <3>3. QED BY <3>2 DEF W, g
  <2>9. QED
    <3> DEFINE z == SubSeq(WithEnd, 1, Len(got))
    <3>1. z \in Seq(Record) /\ Len(z) = Len(got) /\ \A i \in 1..Len(got) : got[i] = z[i]
      BY <2>7, <2>8
    <3> HIDE DEF z
    <3>2. got = z
      BY <2>3, <3>1, SeqEqual
    <3>3. QED BY <3>2 DEF z, RecordsAsWritten
<1>2. QED BY <1>1, ParsingInitially, ParsingKept, PTL DEF Spec

-----------------------------------------------------------------------------
(* The record that a handler works on, as the parser read it.              *)
LEMMA AtHand ==
  ASSUME Parsing, step # "none"
  PROVE  /\ Len(got) \in 1..Len(recipe) /\ Len(recipe) \in Nat
         /\ recipe[Len(got)] \in Record /\ Packable(recipe[Len(got)])
         /\ rec = recipe[Len(got)]
         /\ recipe \in Recipes /\ DOMAIN recipe = 1..Len(recipe)
<1> DEFINE k == Len(got)
<1>1. Fitting(recipe) /\ UnderWay /\ Delivery /\ Handling
  BY RecipeFits DEF Parsing
<1>2. recipe \in Seq(Record) /\ Len(recipe) \in Nat /\ k \in 1..Len(recipe)
  BY <1>1 DEF UnderWay, Delivery, Handling, Fitting
<1>3. DOMAIN recipe = 1..Len(recipe)
  BY <1>2
<1> HIDE DEF k
<1>4. recipe[k] \in Record /\ Packable(recipe[k])
  BY <1>1, <1>2, <1>3, ElementOfSeq DEF Fitting, Fits
<1>5. rec = recipe[k]
  BY <1>1, <1>2 DEF Delivery, Handling, Delivered, k
<1>6. recipe # <<>>
  BY <1>2
<1>7. QED BY <1>2, <1>3, <1>4, <1>5, <1>6 DEF Parsing, k

SessionType == HandlerType /\ result \in {"none", "SUCCESS", "FAILURE"} /\ runs \in 0..MaxRuns

(* The records done: those delivered, but for the one that a handler works   *)
(* on.  Those ignored are among them.                                      *)
Done == IF step = "none" THEN Len(got) ELSE Len(got) - 1

Skipping == skipped \subseteq 1..Done

Typing == Parsing /\ SessionType /\ Skipping

LEMMA StoredType ==
  ASSUME HandlerType, NEW r, NEW pec, NEW bits \in SUBSET Bits
  PROVE  Stored(r, pec, bits) \in [Registers -> SUBSET Bits]
BY DEF HandlerType, Stored

LEMMA NoRecordType == NoRecord \in Record /\ NoRecord.type = 0
<1> DEFINE no == FALSE
<1>1. 0 \in Word /\ 0 \in Byte /\ no \in BOOLEAN
  BY ByteType, WordType
<1> HIDE DEF no
<1>2. [type |-> 0, address |-> 0, command |-> 0, pec |-> no, mask |-> {}, value |-> {}] \in Record
  BY <1>1 DEF Record
<1>3. QED BY <1>2 DEF NoRecord, no

StaticsType == /\ verification_in_progress \in BOOLEAN /\ ignore_records \in BOOLEAN
               /\ nWords \in {0, 1} /\ nvram_somethingToVerify \in BOOLEAN

(* What the handlers leave has the right types.                            *)
LEMMA HandledType ==
  ASSUME Typing, Handle
  PROVE  HandlerType'
<1>1. /\ run # "idle" /\ step # "none" /\ UNCHANGED <<run, rec>> /\ step' \in {"none", "write", "poll"}
  BY HandleShape
<1>2. HandlerType /\ Parsing
  BY DEF Typing, SessionType
<1>3. rec \in Record /\ rec.value \in SUBSET Bits /\ rec.mask \in SUBSET Bits /\ old \in SUBSET Bits
  BY <1>2 DEF HandlerType, Record
<1>4. rec.type \in Modifies => Of(rec) \in Registers
  <2>1. Packable(rec)
    BY <1>1, <1>2, AtHand
  <2>2. QED BY <2>1, Kinds DEF Packable
<1>5. Modified(rec, old) \in SUBSET Bits
  BY <1>3 DEF Modified
<1>6. {} \in SUBSET Bits
  OBVIOUS
<1>7. reg' \in [Registers -> SUBSET Bits] /\ old' \in SUBSET Bits /\ status' \in BOOLEAN
  <2>1. CASE WriteRecord
    <3> DEFINE lock == Stored(<<rec.address, EeUnlock>>, TRUE, {})
               stored == Stored(Of(rec), rec.pec, rec.value)
    <3>1. lock \in [Registers -> SUBSET Bits] /\ stored \in [Registers -> SUBSET Bits]
      BY <1>2, <1>3, <1>6, StoredType
    <3>2. (reg' = lock \/ reg' = stored) /\ status' = TRUE /\ old' = {}
      BY <2>1 DEF WriteRecord, Return
    <3> HIDE DEF lock, stored
    <3>3. QED BY <1>6, <3>1, <3>2
  <2>2. CASE ReadExpect \/ ReadExpectMask \/ ReadLoopMask \/ PassRecord \/ PassMetaData \/ Unsupported
    BY <1>2, <2>2 DEF ReadExpect, ReadExpectMask, ReadLoopMask, PassRecord, PassMetaData,
                      Unsupported, Return, HandlerType
  <2>2a. CASE ProcessEvent \/ BufferNvmData \/ PollNotBusy
    <3>1. reg' = reg /\ old' = {}
      BY <2>2a DEF ProcessEvent, BufferNvmData, PollNotBusy, Return
    <3>2. status' \in BOOLEAN
      <4>1. CASE ProcessEvent
        BY <4>1 DEF ProcessEvent, Return
      <4>2. CASE BufferNvmData
        BY <4>2 DEF BufferNvmData, Return
      <4>3. CASE PollNotBusy
        <5>1. PICK ok \in BOOLEAN : Return(ok)
          BY <4>3 DEF PollNotBusy
        <5>2. QED BY <5>1 DEF Return
      <4>4. QED BY <2>2a, <4>1, <4>2, <4>3
    <3>3. QED BY <1>2, <1>6, <3>1, <3>2 DEF HandlerType
  <2>2b. CASE WriteNvmData \/ ReadThenVerifyNvmData
    BY <1>2, <2>2b DEF WriteNvmData, ReadThenVerifyNvmData, Return, HandlerType
  <2>2c. CASE LockNvm
    <3> DEFINE lock == Stored(<<rec.address, EeUnlock>>, TRUE, {})
    <3>1. lock \in [Registers -> SUBSET Bits]
      BY <1>2, <1>6, StoredType
    <3>2. reg' = lock /\ status' = TRUE /\ old' = {}
      BY <2>2c DEF LockNvm, Return
    <3> HIDE DEF lock
    <3>3. QED BY <1>6, <3>1, <3>2
  <2>3. CASE ReadToModify
    BY <1>2, <1>4, <2>3 DEF ReadToModify, HandlerType, At
  <2>4. CASE WriteModified
    BY <1>2, <1>5, <2>4, StoredType DEF WriteModified, Return
  <2>5. CASE ClearWriteProtect
    BY <1>2, <1>6, <2>5, StoredType DEF ClearWriteProtect, HandlerType
  <2>6. CASE SetBaseAddress
    BY <1>2, <1>3, <2>6, StoredType DEF SetBaseAddress, Return
  <2>7. QED BY <2>1, <2>2, <2>2a, <2>2b, <2>2c, <2>3, <2>4, <2>5, <2>6 DEF Handle
<1>8. StaticsType'
  <2>1. CASE ProcessEvent \/ BufferNvmData
    BY <1>2, <2>1 DEF ProcessEvent, BufferNvmData, StaticsType, HandlerType
  <2>2. CASE WriteNvmData \/ ReadThenVerifyNvmData
    BY <1>2, <2>2 DEF WriteNvmData, ReadThenVerifyNvmData, StaticsType, HandlerType
  <2>3. CASE UNCHANGED statics
    BY <1>2, <2>3 DEF statics, StaticsType, HandlerType
  <2>4. QED
    <3>1. ProcessEvent \/ BufferNvmData \/ WriteNvmData \/ ReadThenVerifyNvmData \/ UNCHANGED statics
      BY DEF Handle, WriteRecord, ReadExpect, ReadExpectMask, ReadLoopMask, PassRecord, ReadToModify,
             WriteModified, ClearWriteProtect, SetBaseAddress, PassMetaData, LockNvm, PollNotBusy,
             Unsupported
    <3>2. QED BY <2>1, <2>2, <2>3, <3>1
<1>9. QED BY <1>1, <1>2, <1>7, <1>8 DEF HandlerType, StaticsType

LEMMA TypingInitially ==
  ASSUME AllParsed
  PROVE  Init => Typing
<1>1. SUFFICES ASSUME Init PROVE Typing
  OBVIOUS
<1>2. HandlerType
  BY <1>1, NoRecordType, RegistersAssumption DEF Init, HandlerInit, HandlerType
<1>3. Skipping
  BY <1>1 DEF Init, Skipping
<1>4. QED BY <1>1, <1>2, <1>3, ParsingInitially, RecipesAssumption DEF Init, Typing, SessionType

LEMMA SkippingKept == Typing /\ [Next]_vars => Skipping'
<1>1. SUFFICES ASSUME Typing, [Next]_vars PROVE Skipping'
  OBVIOUS
<1>2. Parsing /\ Skipping /\ Len(got) \in Nat
  BY <1>1 DEF Typing, Parsing, Delivery
<1>3. CASE skipped' = {}
  BY <1>3 DEF Skipping
<1>4. CASE UNCHANGED <<step, got, skipped>>
  BY <1>2, <1>4 DEF Skipping, Done
<1>5. CASE ProcessRecord
  <2>1. step = "none" /\ got' = Append(got, Parsed) /\ skipped' = skipped /\ step' \in {"none", "start"}
    BY <1>5 DEF ProcessRecord, End
  <2>2. Len(got') = Len(got) + 1
    <3> DEFINE x == Parsed
    <3>1. got \in Seq(Record) /\ got' = Append(got, x)
      BY <1>2, <2>1 DEF Parsing, Delivery
    <3> HIDE DEF x
    <3>2. QED BY <3>1
  <2>3. Done = Len(got) /\ Done' \in {Len(got), Len(got) + 1}
    BY <1>2, <2>1, <2>2 DEF Done
  <2>4. \A i : i \in 1..Done => i \in 1..Done'
    BY <1>2, <2>3
  <2>5. QED BY <1>2, <2>1, <2>4 DEF Skipping
<1>6. CASE HandleRecord
  <2>1. step # "none" /\ got' = got /\ skipped' = skipped
    BY <1>6, HandleShape DEF HandleRecord
  <2>2. \A i : i \in 1..Done => i \in 1..Done'
    BY <1>2, <2>1 DEF Done
  <2>3. QED BY <1>2, <2>1, <2>2 DEF Skipping
<1>7. CASE SkipRecord
  <2>1. step = "start" /\ step' = "none" /\ got' = got /\ skipped' = skipped \cup {Len(got)}
    BY <1>7, IgnoreShape DEF SkipRecord
  <2>2. Len(got) \in 1..Len(recipe) /\ Len(recipe) \in Nat
    BY <1>2, <2>1, AtHand
  <2>3. Done = Len(got) - 1 /\ Done' = Len(got)
    BY <2>1 DEF Done
  <2>4. Len(got) \in 1..Done' /\ \A i : i \in 1..Done => i \in 1..Done'
    BY <2>2, <2>3
  <2>5. QED BY <1>2, <2>1, <2>4 DEF Skipping
<1>8. QED BY <1>1, <1>3, <1>4, <1>5, <1>6, <1>7
     DEF Next, Start, CantOpen, GetByte, BusError, Settle, Quit, vars, handlerVars, handler

LEMMA TypingKept == Typing /\ [Next]_vars => Typing'
<1>1. SUFFICES ASSUME Typing, [Next]_vars PROVE Typing'
  OBVIOUS
<1>2. Parsing' /\ Skipping'
  BY <1>1, ParsingKept, SkippingKept DEF Typing
<1>3. Parsing /\ HandlerType /\ result \in {"none", "SUCCESS", "FAILURE"} /\ runs \in 0..MaxRuns
  BY <1>1 DEF Typing, SessionType
<1>4. MaxRuns \in Nat
  BY RecipesAssumption
<1>5. NoRecord \in Record
  BY NoRecordType
<1>6. SessionType'
  <2>1. ASSUME NEW loop \in {"program", "verify"}, NEW r \in Recipes, NEW n \in LineSizes,
               Start(loop, r, n)
        PROVE  SessionType'
    BY <1>3, <1>4, <2>1 DEF SessionType, Start, HandlerType, handler
  <2>2. CASE CantOpen
    BY <1>3, <1>4, <2>2 DEF SessionType, CantOpen, HandlerType, handlerVars, handler, statics
  <2>3. CASE GetByte
    BY <1>3, <2>3 DEF SessionType, GetByte, HandlerType, handlerVars, handler, statics
  <2>4. CASE ProcessRecord
    <3>1. Parsed \in Record
      <4>1. run # "idle" /\ Complete
        BY <2>4 DEF ProcessRecord
      <4>2. PICK k : k = Len(got) + 1
        OBVIOUS
      <4>3. QED BY <1>3, <4>1, <4>2, Fetched
    <3>2. /\ step' \in {"none", "start", "write", "poll"} /\ old' = old /\ status' = status
          /\ reg' = reg /\ runs' = runs /\ run' \in {run, "idle"} /\ rec' \in {NoRecord, Parsed}
          /\ result' \in {result, "SUCCESS", "FAILURE"}
      BY <1>3, <2>4 DEF ProcessRecord, End, HandlerType
    <3>3. StaticsType'
      BY <1>3, <2>4 DEF ProcessRecord, End, HandlerType, StaticsType, statics
    <3>4. QED BY <1>3, <1>5, <3>1, <3>2, <3>3 DEF SessionType, HandlerType, StaticsType
  <2>5. CASE HandleRecord
    BY <1>1, <1>3, <2>5, HandledType DEF SessionType, HandleRecord
  <2>6. CASE SkipRecord
    <3>1. /\ step' = "none" /\ status' = TRUE /\ old' = {}
          /\ UNCHANGED <<run, rec, reg, statics, result, runs>>
      BY <2>6, IgnoreShape DEF SkipRecord
    <3>2. QED BY <1>3, <3>1 DEF SessionType, HandlerType, statics
  <2>7. ASSUME NEW r \in Status, NEW bits \in {{}, {NotBusy}},
               Settle(r, bits) /\ UNCHANGED <<file, parser, data, got, skipped, result, runs>>
        PROVE  SessionType'
    <3>1. bits \in SUBSET Bits
      BY DEF Bits, NotBusy
    <3>2. /\ reg' = [reg EXCEPT ![r] = bits]
          /\ UNCHANGED <<run, rec, step, old, status, statics, result, runs>>
      BY <2>7 DEF Settle, handler
    <3>3. QED BY <1>3, <3>1, <3>2 DEF SessionType, HandlerType, statics
  <2>8. CASE BusError
    BY <1>3, <1>5, <2>8 DEF SessionType, BusError, HandlerType
  <2>9. CASE UNCHANGED vars
    BY <1>3, <2>9 DEF SessionType, vars, HandlerType, handlerVars, handler, statics
  <2>10. QED BY <1>1, <2>1, <2>2, <2>3, <2>4, <2>5, <2>6, <2>7, <2>8, <2>9 DEF Next, Quit
<1>7. QED BY <1>2, <1>6 DEF Typing

LEMMA TypingGives == Typing => TypeOK
<1>1. SUFFICES ASSUME Typing PROVE TypeOK
  OBVIOUS
<1>2. Parsing /\ Delivery
  BY <1>1 DEF Typing, Parsing
<1>3. \A i \in DOMAIN icpData : icpData[i].type \in {0, 1}
  <2>1. icpData \in Seq(Line)
    BY <1>2 DEF Parsing
  <2>2. ASSUME NEW i \in DOMAIN icpData PROVE icpData[i] \in Line
    BY <2>1, ElementOfSeq
  <2>3. QED BY <2>2 DEF Line
<1>4. /\ \A i \in DOMAIN parse_data : parse_data[i] \in Byte
      /\ \A i \in DOMAIN data : data[i] \in Byte
      /\ \A i \in DOMAIN got : got[i] \in Record
  <2>1. parse_data \in Seq(Byte) /\ data \in Seq(Byte) /\ got \in Seq(Record)
    BY <1>2 DEF Parsing, Delivery
  <2>2. QED BY <2>1, ElementOfSeq
<1>5. flashLocation \in Nat
  BY <1>2 DEF Parsing
<1>6. skipped \subseteq DOMAIN got
  <2>1. got \in Seq(Record) /\ Len(got) \in Nat /\ Skipping
    BY <1>1, <1>2 DEF Typing, Delivery
  <2>2. \A i : i \in 1..Done => i \in 1..Len(got)
    BY <2>1 DEF Done
  <2>3. QED BY <2>1, <2>2 DEF Skipping
<1>7. QED BY <1>1, <1>2, <1>3, <1>4, <1>5, <1>6 DEF Typing, SessionType, Parsing, TypeOK

(* TypeOK, for all recipes whose records fit their structs and are taken as  *)
(* these declare.                                                          *)
THEOREM TypeCorrect ==
  ASSUME AllParsed
  PROVE  Spec => []TypeOK
BY TypingInitially, TypingKept, TypingGives, PTL DEF Spec

-----------------------------------------------------------------------------
(* The types of the handlers exclude each other.                           *)
Others == Loops \cup Passed \cup Always \cup {MetaData, WriteEeData, VerifyEeData}

LEMMA Apart ==
  /\ \A t \in Expects : t \notin MaskedExpects \cup Writes \cup Modifies \cup Others
  /\ \A t \in MaskedExpects : t \notin Writes \cup Modifies \cup Others
  /\ \A t \in Writes : t \notin Modifies \cup Others
  /\ \A t \in Modifies : t \notin Others
  /\ 0 \notin Expects \cup MaskedExpects \cup Writes \cup Modifies
  /\ MetaData \in Others /\ Event \in Others /\ Event \in Always
  /\ Expects \cup MaskedExpects \cup Writes \cup Modifies \subseteq Handled
BY DEF Expects, MaskedExpects, Writes, Loops, Modifies, Passed, Sends, PollAck, MetaData, NvmData,
       Event, Always, WriteEeData, VerifyEeData, Others, Handled

(* The handlers of the records that expect, write or modify, and those that  *)
(* go on to a second transfer.                                             *)
LEMMA HandlerOf ==
  ASSUME Handle
  PROVE  /\ rec.type \in Expects => ReadExpect
         /\ rec.type \in MaskedExpects => ReadExpectMask
         /\ rec.type \in Writes => WriteRecord
         /\ rec.type \in Modifies => ReadToModify \/ WriteModified
         /\ rec.type = Event => ProcessEvent
         /\ step' = "write" => ReadToModify \/ ClearWriteProtect
<1> DEFINE Kind == Expects \cup MaskedExpects \cup Writes \cup Modifies
<1>1. CASE \/ ReadLoopMask \/ PassRecord \/ ClearWriteProtect \/ SetBaseAddress \/ PassMetaData
           \/ BufferNvmData \/ WriteNvmData \/ LockNvm \/ ReadThenVerifyNvmData \/ PollNotBusy
  <2>1. rec.type \in Others /\ rec.type # Event
    <3>1. rec.type \in Loops \cup Passed \cup {NvmData, MetaData, WriteEeData, VerifyEeData}
      BY <1>1 DEF ReadLoopMask, PassRecord, ClearWriteProtect, SetBaseAddress, PassMetaData,
                  BufferNvmData, WriteNvmData, LockNvm, ReadThenVerifyNvmData, PollNotBusy, At,
                  AtAlways
    <3>2. QED BY <3>1 DEF Others, Always, NvmData, Event, MetaData, WriteEeData, VerifyEeData,
                          Passed, Loops, Sends, PollAck
  <2>2. rec.type \notin Kind
    BY <2>1, Apart
  <2>3. step' = "write" => ClearWriteProtect
    BY <1>1 DEF ReadLoopMask, PassRecord, SetBaseAddress, PassMetaData, BufferNvmData,
                WriteNvmData, LockNvm, ReadThenVerifyNvmData, PollNotBusy, Return
  <2>4. QED BY <2>1, <2>2, <2>3
<1>2. CASE ProcessEvent
  <2>1. rec.type = Event /\ step' # "write"
    BY <1>2 DEF ProcessEvent, AtAlways, Return
  <2>2. QED BY <1>2, <2>1, Apart
<1>3. CASE Unsupported
  <2>1. rec.type \notin Handled /\ step' # "write"
    BY <1>3 DEF Unsupported, Return
  <2>2. rec.type \notin Kind /\ rec.type # Event
    BY <2>1, Apart DEF Handled
  <2>3. QED BY <2>1, <2>2
<1>4. CASE WriteRecord \/ ReadExpect \/ ReadExpectMask
  <2>1. step' # "write"
    BY <1>4 DEF WriteRecord, ReadExpect, ReadExpectMask, Return
  <2>2. \/ WriteRecord /\ rec.type \in Writes
        \/ ReadExpect /\ rec.type \in Expects
        \/ ReadExpectMask /\ rec.type \in MaskedExpects
    BY <1>4 DEF WriteRecord, ReadExpect, ReadExpectMask, At
  <2>3. QED BY <2>1, <2>2, Apart
<1>5. CASE ReadToModify \/ WriteModified
  <2>1. rec.type \in Modifies
    BY <1>5 DEF ReadToModify, WriteModified, At
  <2>2. step' = "write" => ReadToModify
    BY <1>5 DEF WriteModified, Return
  <2>3. QED BY <1>5, <2>1, <2>2, Apart
<1>6. QED BY <1>1, <1>2, <1>3, <1>4, <1>5 DEF Handle

(* FailIfDifferent: a record that expects a value, and is not ignored,       *)
(* succeeds only if the register holds it, if none of the recipes has a      *)
(* record 0x1A, 0x1C or 0x1D.                                              *)
THEOREM FailsIfDifferent ==
  ASSUME AllParsed
  PROVE  Spec => FailIfDifferent
<1> DEFINE q == WithEnd[Len(got)]
           Fails == step = "start" /\ step' = "none" /\ rec' = rec /\ status'
                      /\ Len(got) \notin skipped' =>
                        (q.type \in Expects \cup MaskedExpects => Expected(q))
<1>1. Typing /\ [Next]_vars => Fails
  <2>1. SUFFICES ASSUME Typing, [Next]_vars, step = "start", step' = "none", rec' = rec, status',
                        Len(got) \notin skipped', q.type \in Expects \cup MaskedExpects
                 PROVE  Expected(q)
    OBVIOUS
  <2>2. Parsing /\ HandlerType
    BY <2>1 DEF Typing, SessionType
  <2>3. /\ Len(got) \in 1..Len(recipe) /\ Len(recipe) \in Nat
        /\ recipe \in Seq(Record) /\ rec = recipe[Len(got)]
    <3>1. Fitting(recipe)
      BY <2>2, RecipeFits
    <3>2. QED BY <2>1, <2>2, <3>1, AtHand DEF Fitting
  <2>4. rec = q
    <3> DEFINE e == [NoRecord EXCEPT !.type = EndOfRecords]
    <3>1. WithEnd = Append(recipe, e)
      BY DEF WithEnd
    <3> HIDE DEF e
    <3>2. QED BY <2>3, <3>1
  <2> HIDE DEF q
  <2>5. Handle
    <3>1. ~BusError
      <4>1. rec.type # 0
        BY <2>1, <2>4, Apart
      <4>2. QED BY <2>1, <4>1, NoRecordType DEF BusError
    <3>2. step' # step
      BY <2>1
    <3>3. ~SkipRecord
      BY <2>1 DEF SkipRecord
    <3>4. QED BY <2>1, <3>1, <3>2, <3>3
         DEF Next, Quit, Start, CantOpen, GetByte, ProcessRecord, HandleRecord, Settle, vars, handlerVars, handler
  <2>6. CASE q.type \in Expects
    <3>1. ReadExpect
      BY <2>4, <2>5, <2>6, HandlerOf
    <3>2. reg[Of(q)] = q.value
      BY <2>1, <2>4, <3>1 DEF ReadExpect, Return
    <3>3. q.type \notin MaskedExpects
      BY <2>6, Apart
    <3>4. QED BY <3>2, <3>3 DEF Expected
  <2>7. CASE q.type \in MaskedExpects
    <3>1. ReadExpectMask
      BY <2>4, <2>5, <2>7, HandlerOf
    <3>2. reg[Of(q)] \cap q.mask = q.value \cap q.mask
      BY <2>1, <2>4, <3>1 DEF ReadExpectMask, Return
    <3>3. QED BY <2>7, <3>2 DEF Expected
  <2>8. QED BY <2>1, <2>6, <2>7
<1>2. Typing /\ [Next]_vars => [Fails]_vars
  BY <1>1
<1>3. Spec => [][Fails]_vars
  <2> HIDE DEF Fails
  <2>1. QED BY <1>2, TypingInitially, TypingKept, PTL DEF Spec
<1>4. QED BY <1>3 DEF FailIfDifferent

-----------------------------------------------------------------------------
(* A run that verifies has verification_in_progress set, and in a section    *)
(* that verifies a chip it does not ignore the next record.                *)
Sectioned == /\ run = "verify" => verification_in_progress
             /\ run = "verify" /\ InSection(recipe, Done + 1) => ~ignore_records
             /\ SectionsHeeded

LEMMA SectionedSame ==
  ASSUME Sectioned, UNCHANGED <<run, recipe, verification_in_progress, ignore_records, skipped>>,
         Done' = Done
  PROVE  Sectioned'
BY DEF Sectioned, SectionsHeeded, InSection

LEMMA SectionedKept == Typing /\ Sectioned /\ [Next]_vars => Sectioned'
<1>1. SUFFICES ASSUME Typing, Sectioned, [Next]_vars PROVE Sectioned'
  OBVIOUS
<1>2. Parsing /\ Delivery /\ Len(got) \in Nat
  BY <1>1 DEF Typing, Parsing, Delivery
<1>3. ASSUME NEW loop \in {"program", "verify"}, NEW r \in Recipes, NEW n \in LineSizes,
             Start(loop, r, n)
      PROVE  Sectioned'
  <2>1. /\ skipped' = {} /\ Done' = 0
        /\ run' = "verify" => verification_in_progress'
    BY <1>2, <1>3 DEF Start, Parsing, handler, Done
  <2>2. ~InSection(recipe', 1)
    BY DEF InSection
  <2>3. QED BY <2>1, <2>2 DEF Sectioned, SectionsHeeded
<1>4. CASE run' = "idle" /\ skipped' = {}
  BY <1>4 DEF Sectioned, SectionsHeeded
<1>5. CASE ProcessRecord
  <2>1. /\ step = "none" /\ got' = Append(got, Parsed) /\ skipped' = skipped /\ recipe' = recipe
    BY <1>5 DEF ProcessRecord, End, file
  <2>2. CASE run' = "idle"
    BY <1>1, <2>1, <2>2 DEF Sectioned, SectionsHeeded, InSection
  <2>3. CASE run' # "idle"
    <3>1. step' = "start" /\ UNCHANGED <<run, verification_in_progress, ignore_records>>
      BY <1>5, <2>3 DEF ProcessRecord, End, statics
    <3>2. Len(got') = Len(got) + 1
      <4> DEFINE x == Parsed
      <4>1. got \in Seq(Record) /\ got' = Append(got, x)
        BY <1>2, <2>1 DEF Delivery
      <4> HIDE DEF x
      <4>2. QED BY <4>1
    <3>3. Done' = Done
      BY <1>2, <2>1, <3>1, <3>2 DEF Done
    <3>4. QED BY <1>1, <2>1, <3>1, <3>3, SectionedSame
  <2>4. QED BY <2>2, <2>3
<1>6. CASE Handle /\ UNCHANGED <<file, got, skipped>>
  <2>1. step # "none" /\ run # "idle" /\ UNCHANGED <<run, rec, recipe, got, skipped>>
    BY <1>6, HandleShape DEF file
  <2>2. PICK k : k = Len(got)
    OBVIOUS
  <2>3. k \in Nat /\ rec = recipe[k] /\ k > 0
    BY <1>2, <2>1, <2>2, AtHand
  <2>4. Done = k - 1 /\ Done' \in {k - 1, k}
    BY <2>1, <2>2 DEF Done
  <2>5. CASE rec.type = Event
    <3>1. /\ step' = "none" /\ verification_in_progress' = verification_in_progress
          /\ ignore_records' = IF verification_in_progress /\ rec.command \in Sectioning \cup {ChipBeforeVerify}
                                 THEN rec.command # ChipBeforeVerify ELSE ignore_records
      BY <1>6, <2>5, HandlerOf DEF ProcessEvent, Return
    <3>2. Done' = k
      BY <2>1, <2>2, <3>1 DEF Done
    <3>3. ASSUME run = "verify", InSection(recipe, k + 1) PROVE ~ignore_records'
      <4>1. verification_in_progress
        BY <1>1, <3>3 DEF Sectioned
      <4>2. CASE rec.command = ChipBeforeVerify
        BY <3>1, <4>1, <4>2
      <4>3. CASE rec.command # ChipBeforeVerify
        <5>1. PICK e \in 1..k :
                /\ recipe[e].type = Event /\ recipe[e].command = ChipBeforeVerify
                /\ \A j \in (e + 1)..k : recipe[j].type = Event => recipe[j].command \notin Sectioning
          BY <2>3, <3>3 DEF InSection
        <5>2. e \in 1..(k - 1) /\ k \in (e + 1)..k
          BY <2>3, <4>3, <5>1
        <5>3. rec.command \notin Sectioning
          BY <2>3, <2>5, <5>1, <5>2
        <5>4. \A j \in (e + 1)..(k - 1) : j \in (e + 1)..k
          BY <2>3
        <5>5. InSection(recipe, k)
          BY <5>1, <5>2, <5>4 DEF InSection
        <5>6. ~ignore_records
          <6>1. Done + 1 = k
            BY <2>3, <2>4
          <6>2. QED BY <1>1, <3>3, <5>5, <6>1 DEF Sectioned
        <5>7. QED BY <3>1, <4>3, <5>3, <5>6
      <4>4. QED BY <4>2, <4>3
    <3>4. SectionsHeeded'
      BY <1>1, <2>1 DEF Sectioned, SectionsHeeded, InSection
    <3>5. QED BY <1>1, <2>1, <3>1, <3>2, <3>3, <3>4 DEF Sectioned
  <2>6. CASE rec.type # Event
    <3>1. UNCHANGED <<verification_in_progress, ignore_records>>
      <4>1. ~ProcessEvent
        BY <2>6 DEF ProcessEvent, AtAlways
      <4>2. QED BY <1>6, <4>1
           DEF Handle, WriteRecord, ReadExpect, ReadExpectMask, ReadLoopMask, PassRecord, ReadToModify,
               WriteModified, ClearWriteProtect, SetBaseAddress, PassMetaData, BufferNvmData,
               WriteNvmData, LockNvm, ReadThenVerifyNvmData, PollNotBusy, Unsupported, statics
    <3>2. ASSUME InSection(recipe, k + 1) PROVE InSection(recipe, k)
      <4>1. PICK e \in 1..k :
              /\ recipe[e].type = Event /\ recipe[e].command = ChipBeforeVerify
              /\ \A j \in (e + 1)..k : recipe[j].type = Event => recipe[j].command \notin Sectioning
        BY <2>3, <3>2 DEF InSection
      <4>2. e # k
        BY <2>3, <2>6, <4>1
      <4>3. e \in 1..(k - 1) /\ \A j \in (e + 1)..(k - 1) : j \in (e + 1)..k
        BY <2>3, <4>1, <4>2
      <4>4. QED BY <4>1, <4>3 DEF InSection
    <3>3. Done + 1 = k /\ (Done' = Done \/ Done' = k)
      BY <2>3, <2>4
    <3>4. run = "verify" /\ InSection(recipe, Done' + 1) => ~ignore_records
      BY <1>1, <3>2, <3>3 DEF Sectioned
    <3>5. SectionsHeeded'
      BY <1>1, <2>1 DEF Sectioned, SectionsHeeded, InSection
    <3>6. QED BY <1>1, <2>1, <3>1, <3>4, <3>5 DEF Sectioned
  <2>7. QED BY <2>5, <2>6
<1>7. CASE SkipRecord
  <2>1. /\ step = "start" /\ step' = "none" /\ run = "verify" /\ ignore_records
        /\ UNCHANGED <<run, rec, recipe, got, verification_in_progress, ignore_records>>
        /\ skipped' = skipped \cup {Len(got)} /\ rec.type \notin Always
    BY <1>7, IgnoreShape DEF SkipRecord, Ignore, file, statics
  <2>2. PICK k : k = Len(got)
    OBVIOUS
  <2>3. k \in Nat /\ rec = recipe[k] /\ k > 0
    BY <1>2, <2>1, <2>2, AtHand
  <2>4. Done = k - 1 /\ Done' = k
    BY <2>1, <2>2 DEF Done
  <2>5. ~InSection(recipe, k)
    <3>1. Done + 1 = k
      BY <2>3, <2>4
    <3>2. QED BY <1>1, <2>1, <3>1 DEF Sectioned
  <2>6. ASSUME InSection(recipe, k + 1) PROVE FALSE
    <3>1. PICK e \in 1..k :
            /\ recipe[e].type = Event /\ recipe[e].command = ChipBeforeVerify
            /\ \A j \in (e + 1)..k : recipe[j].type = Event => recipe[j].command \notin Sectioning
      BY <2>3, <2>6 DEF InSection
    <3>2. e # k
      BY <2>1, <2>3, <3>1, Apart
    <3>3. e \in 1..(k - 1) /\ \A j \in (e + 1)..(k - 1) : j \in (e + 1)..k
      BY <2>3, <3>1, <3>2
    <3>4. QED BY <2>5, <3>1, <3>3 DEF InSection
  <2>7. \A i \in skipped' : ~InSection(recipe, i)
    BY <1>1, <2>1, <2>2, <2>5 DEF Sectioned, SectionsHeeded
  <2>8. SectionsHeeded'
    BY <2>1, <2>7 DEF SectionsHeeded, InSection
  <2>9. QED BY <1>1, <2>1, <2>4, <2>6, <2>8 DEF Sectioned
<1>8. CASE UNCHANGED <<run, step, recipe, got, skipped, statics>>
  <2>1. Done' = Done
    BY <1>8 DEF Done
  <2>2. QED BY <1>1, <1>8, <2>1, SectionedSame DEF statics
<1>9. QED BY <1>1, <1>3, <1>4, <1>5, <1>6, <1>7, <1>8
     DEF Next, CantOpen, GetByte, HandleRecord, Settle, BusError, Quit, vars, handlerVars, handler, file

(* SectionsHeeded: no record of a section that verifies a chip is ignored,   *)
(* whatever earlier runs left in ignore_records, if none of the recipes has  *)
(* a record 0x1A, 0x1C or 0x1D.                                            *)
THEOREM HeedsSections ==
  ASSUME AllParsed
  PROVE  Spec => []SectionsHeeded
<1>1. Init => Sectioned
  BY DEF Init, HandlerInit, Sectioned, SectionsHeeded
<1>2. Sectioned => SectionsHeeded
  BY DEF Sectioned
<1>3. QED BY <1>1, <1>2, TypingInitially, TypingKept, SectionedKept, PTL DEF Spec

-----------------------------------------------------------------------------
(* Between its two transfers, a handler knows what the register holds,       *)
(* unless the chip changes it; of the meta data, one kind has two.          *)
Halfway == step = "write" => /\ rec.type \in Modifies /\ Of(rec) \notin Status => old = reg[Of(rec)]
                             /\ rec.type = MetaData => rec.command = SetGlobalBase

(* What the chips do with a write.                                         *)
LEMMA StoredBits ==
  ASSUME HandlerType, NEW r, NEW pec, NEW bits, NEW s \in Registers
  PROVE  /\ s # r => Stored(r, pec, bits)[s] = reg[s]
         /\ s = r /\ (pec \/ s[1] \notin NeedPec) => Stored(r, pec, bits)[s] = bits
         /\ Stored(r, pec, bits)[s] \in {reg[s], bits}
BY DEF HandlerType, Stored

(* A record leaves the bits that it does not name and does not override.    *)
LEMMA KeepsBit ==
  ASSUME HandlerType, Halfway, Handle,
         NEW r \in Registers \ Status, NEW b \in Bits, ~Names(rec, r, b), ~Overrides(rec, r)
  PROVE  b \in reg'[r] <=> b \in reg[r]
<1> DEFINE w == <<rec.address, EeUnlock>>
           o == Of(rec)
           yes == TRUE
           lock == Stored(w, yes, {})
<1>1. CASE WriteRecord
  <2> DEFINE stored == Stored(o, rec.pec, rec.value)
  <2>1. rec.type \in Writes
    BY <1>1 DEF WriteRecord, At
  <2>2. o # r
    BY <2>1 DEF Names, Asks, MaskOf
  <2> HIDE DEF w, o, yes
  <2>3. stored[r] = reg[r]
    BY <2>2, StoredBits
  <2>4. CASE run = "verify" /\ rec.type = 1 /\ rec.command = EeErase
    <3>1. w # r
      BY <2>4 DEF Overrides, w
    <3>2. lock[r] = reg[r]
      BY <3>1, StoredBits
    <3>3. reg' = lock
      BY <1>1, <2>4 DEF WriteRecord, w, yes
    <3>4. QED BY <3>2, <3>3
  <2>5. CASE ~(run = "verify" /\ rec.type = 1 /\ rec.command = EeErase)
    <3>1. reg' = stored
      BY <1>1, <2>5 DEF WriteRecord, o
    <3>2. QED BY <2>3, <3>1
  <2>6. QED BY <2>4, <2>5
<1>2. CASE ReadExpect \/ ReadExpectMask \/ ReadLoopMask \/ PassRecord \/ ReadToModify \/ PassMetaData \/ Unsupported
  BY <1>2 DEF ReadExpect, ReadExpectMask, ReadLoopMask, PassRecord, ReadToModify, PassMetaData, Unsupported
<1>3. CASE WriteModified
  <2> DEFINE stored == Stored(Of(rec), rec.pec, Modified(rec, old))
  <2>1. rec.type \in Modifies /\ step = "write" /\ reg' = stored
    BY <1>3 DEF WriteModified, At
  <2>2. CASE Of(rec) # r
    BY <2>1, <2>2, StoredBits
  <2>3. CASE Of(rec) = r
    <3>1. b \notin rec.mask
      BY <2>1, <2>3, Apart DEF Names, Asks, MaskOf
    <3>2. old = reg[r]
      BY <2>1, <2>3 DEF Halfway
    <3>3. b \in Modified(rec, old) <=> b \in reg[r]
      BY <3>1, <3>2 DEF Modified
    <3>4. stored[r] \in {reg[r], Modified(rec, old)}
      BY StoredBits
    <3> HIDE DEF stored
    <3>5. QED BY <2>1, <3>3, <3>4
  <2>4. QED BY <2>2, <2>3
<1>4. CASE ClearWriteProtect
  <2>1. r # WriteProtect
    BY <1>4 DEF ClearWriteProtect, At, Overrides
  <2> DEFINE p == WriteProtect
             cleared == Stored(p, yes, {})
  <2>2. reg' = cleared
    BY <1>4 DEF ClearWriteProtect
  <2>3. cleared[r] = reg[r]
    <3> HIDE DEF p, yes
    <3>1. p # r
      BY <2>1 DEF p
    <3>2. QED BY <3>1, StoredBits
  <2>4. QED BY <2>2, <2>3
<1>5. CASE SetBaseAddress
  <2> DEFINE a == BaseAddress
             no == FALSE
             based == Stored(a, no, rec.value)
  <2>1. reg' = based /\ rec.type = MetaData /\ step = "write"
    BY <1>5 DEF SetBaseAddress, At
  <2>2. r # a
    BY <2>1 DEF Overrides, Halfway
  <2>3. based[r] = reg[r]
    <3> HIDE DEF a, no
    <3>1. QED BY <2>2, StoredBits
  <2>4. QED BY <2>1, <2>3
<1>6. CASE ProcessEvent \/ BufferNvmData \/ WriteNvmData \/ ReadThenVerifyNvmData \/ PollNotBusy
  BY <1>6 DEF ProcessEvent, BufferNvmData, WriteNvmData, ReadThenVerifyNvmData, PollNotBusy
<1>7. CASE LockNvm
  <2>1. w # r
    BY <1>7 DEF LockNvm, At, Overrides
  <2>2. reg' = lock
    BY <1>7 DEF LockNvm
  <2> HIDE DEF w, yes
  <2>3. lock[r] = reg[r]
    BY <2>1, StoredBits
  <2>4. QED BY <2>2, <2>3
<1>8. QED BY <1>1, <1>2, <1>3, <1>4, <1>5, <1>6, <1>7 DEF Handle

(* A record that is obeyed sets the bits that it names.                    *)
LEMMA SetsBit ==
  ASSUME HandlerType, Handle, step' = "none",
         NEW r \in Registers \ Status, NEW b \in Bits, Names(rec, r, b), ~Overrides(rec, r),
         rec.pec \/ r[1] \notin NeedPec, ~(rec.type = ModifyByte /\ ~rec.pec)
  PROVE  b \in reg'[r] <=> b \in rec.value
<1>1. rec.type \in Writes \cup Modifies /\ Of(rec) = r
  BY DEF Names, Asks
<1> DEFINE o == Of(rec)
<1>2. o = r
  BY <1>1
<1>3. CASE rec.type \in Writes
  <2>1. WriteRecord
    BY <1>3, HandlerOf
  <2>2. ~(rec.type = 1 /\ rec.command = EeErase)
    BY <1>1 DEF Overrides
  <2>3. reg' = Stored(o, rec.pec, rec.value)
    BY <2>1, <2>2 DEF WriteRecord
  <2> HIDE DEF o
  <2>4. Stored(o, rec.pec, rec.value)[r] = rec.value
    BY <1>2, StoredBits
  <2>5. QED BY <2>3, <2>4
<1>4. CASE rec.type \in Modifies
  <2> DEFINE m == Modified(rec, old)
  <2>1. WriteModified
    <3>1. ~ReadToModify
      BY DEF ReadToModify
    <3>2. QED BY <1>4, <3>1, HandlerOf
  <2>2. reg' = Stored(o, rec.pec, m)
    BY <2>1 DEF WriteModified
  <2>3. b \in rec.mask
    BY <1>4, Apart DEF Names, MaskOf
  <2>4. b \in m <=> b \in rec.value
    BY <2>3 DEF Modified
  <2> HIDE DEF o, m
  <2>5. Stored(o, rec.pec, m)[r] = m
    BY <1>2, StoredBits
  <2>6. QED BY <2>2, <2>4, <2>5
<1>5. QED BY <1>1, <1>3, <1>4

(* A handler that is not done has changed no register, or WRITE_PROTECT for  *)
(* meta data that sets the base address.                                   *)
LEMMA GoesOn ==
  ASSUME Handle, step' # "none"
  PROVE  /\ step = "start"
         /\ reg' = reg \/ (rec.type = MetaData /\ step' = "write")
<1>1. step' = "write" \/ WriteNvmData \/ ReadThenVerifyNvmData
  BY DEF Handle, WriteRecord, ReadExpect, ReadExpectMask, ReadLoopMask, PassRecord, ReadToModify,
         WriteModified, ClearWriteProtect, SetBaseAddress, PassMetaData, ProcessEvent, BufferNvmData,
         LockNvm, PollNotBusy, Unsupported, Return
<1>2. CASE step' = "write"
  <2>1. ReadToModify \/ ClearWriteProtect
    BY <1>2, HandlerOf
  <2>2. QED BY <1>2, <2>1 DEF ReadToModify, ClearWriteProtect, At
<1>3. CASE WriteNvmData \/ ReadThenVerifyNvmData
  BY <1>3 DEF WriteNvmData, ReadThenVerifyNvmData, At
<1>4. QED BY <1>1, <1>2, <1>3

LEMMA HalfwayInitially == Init => Halfway
BY DEF Init, HandlerInit, Halfway

LEMMA HalfwayKept == Typing /\ Halfway /\ [Next]_vars => Halfway'
<1>1. SUFFICES ASSUME Typing, Halfway, [Next]_vars, step' = "write"
               PROVE  /\ (rec.type \in Modifies /\ Of(rec) \notin Status => old = reg[Of(rec)])'
                      /\ (rec.type = MetaData => rec.command = SetGlobalBase)'
  BY DEF Halfway
<1>2. HandlerType /\ Parsing
  BY <1>1 DEF Typing, SessionType
<1>3. CASE Handle
  <2>1. ReadToModify \/ ClearWriteProtect
    BY <1>1, <1>3, HandlerOf
  <2>2. CASE ReadToModify
    <3>1. /\ rec' = rec /\ reg' = reg /\ old' = reg[Of(rec)] /\ rec.type \in Modifies
      BY <2>2 DEF ReadToModify, At
    <3>2. Of(rec)' = Of(rec)
      BY <3>1 DEF Of
    <3>3. rec.type # MetaData
      BY <3>1, Apart
    <3>4. QED BY <3>1, <3>2, <3>3
  <2>3. CASE ClearWriteProtect
    <3>1. rec' = rec /\ rec.type = MetaData /\ rec.command = SetGlobalBase
      BY <2>3 DEF ClearWriteProtect, At
    <3>2. QED BY <3>1, Apart
  <2>4. QED BY <2>1, <2>2, <2>3
<1>4. ASSUME NEW r \in Status, NEW bits \in {{}, {NotBusy}}, Settle(r, bits)
      PROVE  /\ (rec.type \in Modifies /\ Of(rec) \notin Status => old = reg[Of(rec)])'
             /\ (rec.type = MetaData => rec.command = SetGlobalBase)'
  <2>1. reg' = [reg EXCEPT ![r] = bits] /\ UNCHANGED <<rec, step, old>>
    BY <1>4 DEF Settle, handler
  <2> DEFINE o == Of(rec)
  <2>2. Of(rec)' = o
    BY <2>1 DEF Of
  <2>3. step = "write" /\ (rec.type \in Modifies /\ o \notin Status => old = reg[o])
        /\ (rec.type = MetaData => rec.command = SetGlobalBase)
    BY <1>1, <2>1 DEF Halfway
  <2>4. rec.type \in Modifies => o \in Registers
    <3>1. Packable(rec)
      BY <1>2, <2>3, AtHand
    <3>2. QED BY <3>1, Kinds DEF Packable
  <2> HIDE DEF o
  <2>5. o \notin Status => reg'[o] = reg[o] \/ o \notin Registers
    BY <1>2, <2>1 DEF HandlerType
  <2>6. QED BY <2>1, <2>2, <2>3, <2>4, <2>5
<1>5. CASE UNCHANGED <<rec, step, old, reg>>
  <2>1. Of(rec)' = Of(rec)
    BY <1>5 DEF Of
  <2>2. QED BY <1>1, <1>5, <2>1 DEF Halfway
<1>6. ~ProcessRecord /\ ~BusError /\ ~SkipRecord
  BY <1>1, IgnoreShape DEF ProcessRecord, End, BusError, SkipRecord
<1>7. QED BY <1>1, <1>3, <1>4, <1>5, <1>6
     DEF Next, Start, CantOpen, GetByte, HandleRecord, Quit, vars, handlerVars, handler

(* The registers change when a handler or a chip writes to them.           *)
LEMMA RegistersSame ==
  ASSUME [Next]_vars
  PROVE  \/ Handle
         \/ \E r \in Status, bits \in {{}, {NotBusy}} : Settle(r, bits)
         \/ UNCHANGED reg
BY DEF Next, Start, CantOpen, GetByte, ProcessRecord, End, HandleRecord, SkipRecord, Ignore, BusError,
       Quit, vars, handlerVars, handler

(* Untouched: no bit that no recipe names or overrides ever changes, also in  *)
(* runs that fail, if none of the recipes has a record 0x1A, 0x1C or 0x1D.   *)
THEOREM LeavesTheRest ==
  ASSUME AllParsed
  PROVE  Spec => []Untouched
<1> DEFINE Inv == Typing /\ Halfway /\ Untouched
<1>1. Init => Inv
  <2>1. Init => Untouched
    BY DEF Init, HandlerInit, Untouched
  <2>2. QED BY <2>1, TypingInitially, HalfwayInitially
<1>2. Inv /\ [Next]_vars => Inv'
  <2>1. SUFFICES ASSUME Typing, Halfway, Untouched, [Next]_vars,
                        NEW r \in Registers \ Status, NEW b \in Unnamed[r]
                 PROVE  b \in reg'[r] <=> b \in Initial[r]
    BY TypingKept, HalfwayKept DEF Untouched
  <2>2. b \in reg[r] <=> b \in Initial[r]
    BY <2>1 DEF Untouched
  <2>3. Parsing /\ HandlerType
    BY <2>1 DEF Typing, SessionType
  <2>4. CASE Handle
    <3>1. step # "none"
      BY <2>4, HandleShape
    <3>2. PICK k : k = Len(got)
      OBVIOUS
    <3>3. k \in DOMAIN recipe /\ rec = recipe[k] /\ recipe \in Recipes
      BY <2>3, <3>1, <3>2, AtHand
    <3>4. b \in Bits /\ ~Names(rec, r, b) /\ ~Overrides(rec, r)
      BY <3>3 DEF Unnamed
    <3>5. b \in reg'[r] <=> b \in reg[r]
      BY <2>1, <2>3, <2>4, <3>4, KeepsBit
    <3>6. QED BY <2>2, <3>5
  <2>5. ASSUME NEW s \in Status, NEW bits \in {{}, {NotBusy}}, Settle(s, bits)
        PROVE  b \in reg'[r] <=> b \in Initial[r]
    BY <2>1, <2>2, <2>3, <2>5 DEF Settle, HandlerType
  <2>6. CASE UNCHANGED reg
    BY <2>2, <2>6
  <2>7. QED BY <2>1, <2>4, <2>5, <2>6, RegistersSame
<1>3. QED
  <2> HIDE DEF Inv
  <2>1. Inv => Untouched
    BY DEF Inv
  <2>2. QED BY <1>1, <1>2, <2>1, PTL DEF Spec

-----------------------------------------------------------------------------
(* The first n records are done: each bit is as the last of them, of those    *)
(* that were not ignored, that names it asks.  A record that is between its  *)
(* two transfers may have overridden a register already.                   *)
LastAmong(p, i, n, r, b) ==
  /\ i \notin skipped /\ Names(p[i], r, b) /\ ~Overrides(p[i], r)
  /\ \A j \in (i + 1)..n : j \notin skipped => ~Names(p[j], r, b) /\ ~Overrides(p[j], r)

Steady(r) == step = "write" => ~Overrides(rec, r)

SetUpTo(n) == \A r \in Registers \ Status : Steady(r) => \A b \in Bits : \A i \in 1..n :
                LastAmong(recipe, i, n, r, b) => (b \in reg[r] <=> b \in recipe[i].value)

Setting == /\ run # "idle" => SetUpTo(Done)
           /\ result = "SUCCESS" => run = "idle" /\ SetUpTo(Len(recipe))

LEMMA SetUpToSame ==
  ASSUME NEW n, SetUpTo(n), UNCHANGED <<recipe, skipped>>, \A r \in Registers \ Status : reg'[r] = reg[r],
         step = "write" => UNCHANGED <<step, rec>>
  PROVE  SetUpTo(n)'
<1>1. ASSUME NEW r, Steady(r)' PROVE Steady(r)
  BY <1>1 DEF Steady, Overrides, Of
<1>2. QED BY <1>1 DEF SetUpTo, LastAmong

(* A recipe that is obeyed has each bit as the last record done asks, after  *)
(* each step of a handler.                                                 *)
LEMMA HandlerSets ==
  ASSUME \A p \in Recipes : Obeyed(p),
         Typing, Halfway, Handle, UNCHANGED <<recipe, got, skipped>>, SetUpTo(Done)
  PROVE  SetUpTo(Done)'
<1>1. /\ step # "none" /\ UNCHANGED <<run, rec>> /\ step' \in {"none", "write", "poll"}
  BY HandleShape
<1>2. Parsing /\ HandlerType
  BY DEF Typing, SessionType
<1>3. PICK k : k = Len(got)
  OBVIOUS
<1>4. /\ k \in 1..Len(recipe) /\ Len(recipe) \in Nat /\ rec = recipe[k] /\ recipe \in Recipes
      /\ k \in DOMAIN recipe
  BY <1>1, <1>2, <1>3, AtHand
<1>5. Done = k - 1 /\ k \notin skipped
  <2>1. Done = k - 1
    BY <1>1, <1>3 DEF Done
  <2>2. k \notin 1..Done
    BY <1>4, <2>1
  <2>3. QED BY <2>1, <2>2 DEF Typing, Skipping
<1>6. SetUpTo(k - 1)
  BY <1>5
<1>7. CASE step' = "none"
  <2>1. ASSUME NEW r \in Registers \ Status, NEW b \in Bits, NEW i \in 1..k,
               LastAmong(recipe, i, k, r, b)
        PROVE  b \in reg'[r] <=> b \in recipe[i].value
    <3>1. CASE i = k
      <4>1. Names(rec, r, b) /\ ~Overrides(rec, r)
        BY <1>4, <2>1, <3>1 DEF LastAmong
      <4>2. rec.type \in Writes \cup Modifies /\ Of(rec) = r
        BY <4>1 DEF Names, Asks
      <4>3. (rec.pec \/ r[1] \notin NeedPec) /\ ~(rec.type = ModifyByte /\ ~rec.pec)
        <5>1. /\ rec.pec \/ rec.address \notin NeedPec
              /\ ~(rec.type = ModifyByte /\ ~rec.pec)
          BY <1>4, <4>2 DEF Obeyed
        <5>2. r[1] = rec.address
          BY <4>2 DEF Of
        <5>3. QED BY <5>1, <5>2
      <4>4. b \in reg'[r] <=> b \in rec.value
        BY <1>2, <1>7, <4>1, <4>3, SetsBit
      <4>5. QED BY <1>4, <3>1, <4>4
    <3>2. CASE i # k
      <4>1. i \in 1..(k - 1) /\ k \in (i + 1)..k /\ \A j \in (i + 1)..(k - 1) : j \in (i + 1)..k
        BY <1>4, <3>2
      <4>2. ~Names(rec, r, b) /\ ~Overrides(rec, r)
        BY <1>4, <1>5, <2>1, <4>1 DEF LastAmong
      <4>3. LastAmong(recipe, i, k - 1, r, b)
        BY <2>1, <4>1 DEF LastAmong
      <4>4. b \in reg[r] <=> b \in recipe[i].value
        BY <1>6, <4>1, <4>2, <4>3 DEF SetUpTo, Steady
      <4>5. b \in reg'[r] <=> b \in reg[r]
        BY <1>2, <4>2, KeepsBit
      <4>6. QED BY <4>4, <4>5
    <3>3. QED BY <3>1, <3>2
  <2>2. Done' = k
    BY <1>3, <1>7 DEF Done
  <2>3. QED BY <2>1, <2>2 DEF SetUpTo, LastAmong
<1>8. CASE step' # "none"
  <2>1. step = "start" /\ (reg' = reg \/ (rec.type = MetaData /\ step' = "write"))
    BY <1>8, GoesOn
  <2>2. PICK n : n = k - 1
    OBVIOUS
  <2>3. ASSUME NEW r \in Registers \ Status, Steady(r)', NEW b \in Bits, NEW i \in 1..n,
               LastAmong(recipe, i, n, r, b)
        PROVE  b \in reg'[r] <=> b \in recipe[i].value
    <3>1. b \in reg[r] <=> b \in recipe[i].value
      BY <1>6, <2>1, <2>2, <2>3 DEF SetUpTo, Steady
    <3>2. b \in reg'[r] <=> b \in reg[r]
      <4>1. CASE reg' = reg
        BY <4>1
      <4>2. CASE rec.type = MetaData /\ step' = "write"
        <5>1. ~Names(rec, r, b)
          BY <4>2, Apart DEF Names, Asks
        <5>2. ~Overrides(rec, r)
          BY <1>1, <2>3, <4>2 DEF Steady, Overrides, Of
        <5>3. QED BY <1>2, <5>1, <5>2, KeepsBit
      <4>3. QED BY <2>1, <4>1, <4>2
    <3>3. QED BY <3>1, <3>2
  <2>4. Done' = n
    BY <1>3, <1>8, <2>2 DEF Done
  <2>5. QED BY <2>3, <2>4 DEF SetUpTo, LastAmong
<1>9. QED BY <1>7, <1>8

LEMMA SettingInitially == Init => Setting
BY DEF Init, HandlerInit, Setting

LEMMA SettingKept ==
  ASSUME \A p \in Recipes : Obeyed(p)
  PROVE  Typing /\ Halfway /\ Setting /\ [Next]_vars => Setting'
<1>1. SUFFICES ASSUME Typing, Halfway, Setting, [Next]_vars PROVE Setting'
  OBVIOUS
<1>2. Parsing /\ HandlerType
  BY <1>1 DEF Typing, SessionType
<1>3. ASSUME NEW loop \in {"program", "verify"}, NEW r \in Recipes, NEW n \in LineSizes,
             Start(loop, r, n)
      PROVE  Setting'
  <2>1. got' = <<>> /\ step' = step /\ step = "none" /\ result' = "none"
    BY <1>2, <1>3 DEF Start, handler, Parsing
  <2>2. Done' = 0
    BY <2>1 DEF Done
  <2>3. SetUpTo(Done)'
    BY <2>2 DEF SetUpTo
  <2>4. QED BY <2>1, <2>3 DEF Setting
<1>4. CASE CantOpen
  BY <1>4 DEF CantOpen, handlerVars, Setting
<1>5. CASE GetByte \/ UNCHANGED vars
  <2>1. UNCHANGED <<run, step, rec, reg, recipe, got, skipped, result>>
    BY <1>5 DEF GetByte, vars, handlerVars, handler, file
  <2>2. \A r : Steady(r)' <=> Steady(r)
    BY <2>1 DEF Steady, Overrides, Of
  <2>3. QED BY <1>1, <2>1, <2>2 DEF Setting, SetUpTo, LastAmong, Done
<1>6. CASE ProcessRecord
  <2>1. /\ run # "idle" /\ step = "none" /\ Complete /\ got' = Append(got, Parsed)
        /\ UNCHANGED <<recipe, skipped, reg>> /\ result # "SUCCESS"
    BY <1>1, <1>6 DEF ProcessRecord, End, file, Setting
  <2>2. PICK k : k = Len(got) + 1
    OBVIOUS
  <2>3. /\ k \in 1..(Len(recipe) + 1) /\ Len(recipe) \in Nat
        /\ (Parsed.type = EndOfRecords <=> k = Len(recipe) + 1)
    BY <1>2, <2>1, <2>2, Fetched
  <2>4. Len(got) \in Nat /\ got \in Seq(Record)
    BY <1>2 DEF Parsing, Delivery
  <2>5. SetUpTo(k - 1)
    <3>1. Done = k - 1
      BY <2>1, <2>2, <2>4 DEF Done
    <3>2. SetUpTo(Done)
      BY <1>1, <2>1 DEF Setting
    <3>3. QED BY <3>1, <3>2
  <2>6. SetUpTo(k - 1)'
    BY <2>1, <2>5, SetUpToSame
  <2>7. CASE run' = "idle"
    <3>1. result' = "SUCCESS" => k - 1 = Len(recipe)
      BY <2>1, <2>3, <2>7, <1>6 DEF ProcessRecord, End
    <3>2. result' = "SUCCESS" => SetUpTo(Len(recipe))'
      BY <2>1, <2>6, <3>1 DEF SetUpTo
    <3>3. QED BY <2>7, <3>2 DEF Setting
  <2>8. CASE run' # "idle"
    <3>1. step' = "start" /\ result' = result
      BY <1>6, <2>8 DEF ProcessRecord, End
    <3>2. Len(got') = k
      <4> DEFINE x == Parsed
      <4>1. got' = Append(got, x)
        BY <2>1
      <4> HIDE DEF x
      <4>2. QED BY <2>2, <2>4, <4>1
    <3>3. Done' = k - 1
      BY <3>1, <3>2 DEF Done
    <3>4. SetUpTo(Done)'
      BY <2>6, <3>3 DEF SetUpTo
    <3>5. QED BY <2>1, <3>1, <3>4 DEF Setting
  <2>9. QED BY <2>7, <2>8
<1>7. CASE HandleRecord
  <2>1. Handle /\ UNCHANGED <<recipe, got, skipped, result>>
    BY <1>7 DEF HandleRecord, file
  <2>2. run # "idle" /\ run' = run
    BY <2>1, HandleShape
  <2>3. SetUpTo(Done) /\ result # "SUCCESS"
    BY <1>1, <2>2 DEF Setting
  <2>4. SetUpTo(Done)'
    BY <1>1, <2>1, <2>3, HandlerSets
  <2>5. QED BY <2>1, <2>3, <2>4 DEF Setting
<1>7a. CASE SkipRecord
  <2>1. /\ step = "start" /\ step' = "none" /\ run # "idle"
        /\ UNCHANGED <<run, reg, recipe, got, result>> /\ skipped' = skipped \cup {Len(got)}
    BY <1>7a, IgnoreShape DEF SkipRecord, file
  <2>2. PICK k : k = Len(got)
    OBVIOUS
  <2>3. k \in Nat
    BY <1>2, <2>2 DEF Parsing, Delivery
  <2>4. Done' = k /\ SetUpTo(k - 1) /\ result # "SUCCESS"
    <3>1. Done = k - 1 /\ Done' = k
      BY <2>1, <2>2 DEF Done
    <3>2. QED BY <1>1, <2>1, <3>1 DEF Setting
  <2>5. ASSUME NEW r \in Registers \ Status, NEW b \in Bits, NEW i \in 1..k,
               LastAmong(recipe, i, k, r, b)'
        PROVE  b \in reg[r] <=> b \in recipe[i].value
    <3>1. i # k
      BY <2>1, <2>2, <2>5 DEF LastAmong
    <3>2. i \in 1..(k - 1) /\ \A j \in (i + 1)..(k - 1) : j \in (i + 1)..k /\ j # k
      BY <2>3, <3>1
    <3>3. LastAmong(recipe, i, k - 1, r, b)
      BY <2>1, <2>2, <2>5, <3>2 DEF LastAmong
    <3>4. QED BY <2>1, <2>4, <3>2, <3>3 DEF SetUpTo, Steady
  <2>6. SetUpTo(Done)'
    BY <2>1, <2>4, <2>5 DEF SetUpTo
  <2>7. QED BY <2>1, <2>4, <2>6 DEF Setting
<1>8. ASSUME NEW s \in Status, NEW bits \in {{}, {NotBusy}},
             Settle(s, bits) /\ UNCHANGED <<file, parser, data, got, skipped, result, runs>>
      PROVE  Setting'
  <2>1. /\ UNCHANGED <<run, step, rec, recipe, got, skipped, result>>
        /\ reg' = [reg EXCEPT ![s] = bits]
    BY <1>8 DEF Settle, handler, file
  <2>2. \A r \in Registers \ Status : reg'[r] = reg[r]
    BY <1>2, <2>1 DEF HandlerType
  <2>3. PICK n : n = Done
    OBVIOUS
  <2>4. PICK m : m = Len(recipe)
    OBVIOUS
  <2>5. (SetUpTo(n) => SetUpTo(n)') /\ (SetUpTo(m) => SetUpTo(m)')
    BY <2>1, <2>2, SetUpToSame
  <2>6. Done' = n /\ Len(recipe)' = m
    BY <2>1, <2>3, <2>4 DEF Done
  <2>7. (SetUpTo(Done) => SetUpTo(Done)') /\ (SetUpTo(Len(recipe)) => SetUpTo(Len(recipe))')
    BY <2>3, <2>4, <2>5, <2>6 DEF SetUpTo
  <2>8. QED BY <1>1, <2>1, <2>7 DEF Setting
<1>9. CASE BusError
  BY <1>9 DEF BusError, Setting
<1>10. QED BY <1>1, <1>3, <1>4, <1>5, <1>6, <1>7, <1>7a, <1>8, <1>9 DEF Next, Quit

(* SuccessMeansSet: a run that returned success has left each bit of a       *)
(* register that the records it did not ignore name as the last of them      *)
(* asks, whatever the registers held and however often a run had been broken *)
(* off, if the recipes are obeyed and none has a record 0x1A, 0x1C or 0x1D.  *)
THEOREM SetsWhatItNames ==
  ASSUME AllParsed, \A p \in Recipes : Obeyed(p)
  PROVE  Spec => []SuccessMeansSet
<1> DEFINE Inv == Typing /\ Halfway /\ Setting
<1>1. Init => Inv
  BY TypingInitially, HalfwayInitially, SettingInitially
<1>2. Inv /\ [Next]_vars => Inv'
  BY TypingKept, HalfwayKept, SettingKept
<1>3. Inv => SuccessMeansSet
  <2>1. SUFFICES ASSUME Inv, result = "SUCCESS", NEW r \in Registers \ Status, NEW b \in Bits,
                        NEW i \in LastFor(recipe, r, b)
                 PROVE  b \in reg[r] <=> b \in recipe[i].value
    BY DEF SuccessMeansSet
  <2>2. SetUpTo(Len(recipe)) /\ step = "none"
    BY <2>1 DEF Setting, Typing, Parsing
  <2>3. DOMAIN recipe = 1..Len(recipe) /\ Len(recipe) \in Nat
    BY <2>1, RecipeFits DEF Typing, Fitting
  <2>4. i \in 1..Len(recipe) /\ LastAmong(recipe, i, Len(recipe), r, b)
    BY <2>3 DEF LastFor, LastAmong
  <2>5. QED BY <2>2, <2>4 DEF SetUpTo, Steady
<1>4. QED
  <2> HIDE DEF Inv
  <2>1. QED BY <1>1, <1>2, <1>3, PTL DEF Spec
=============================================================================
