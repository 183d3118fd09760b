------------------------- MODULE NumberFormatsProofs -------------------------
(***************************************************************************)
(* Proofs about NumberFormats, for any words, floats and VOUT_MODEs: what a  *)
(* getter returns is the value of the register, what a setter writes is the  *)
(* number nearest to the float, and writing back what was read changes       *)
(* nothing.  A float is an integer of 24 bits, times a power of two, and so  *)
(* is a register; the proofs compare the integers at a common power.        *)
(***************************************************************************)
EXTENDS NumberFormats, SumLemmas, TLAPS

(* The powers of two that the formats use.                                 *)
P(n) == 2^n

LEMMA PowerValues ==
  /\ P(0) = 1 /\ P(1) = 2 /\ P(2) = 4 /\ P(3) = 8 /\ P(4) = 16
  /\ P(5) = 32 /\ P(6) = 64 /\ P(7) = 128 /\ P(8) = 256 /\ P(9) = 512
  /\ P(10) = 1024 /\ P(11) = 2048 /\ P(12) = 4096 /\ P(13) = 8192 /\ P(14) = 16384
  /\ P(15) = 32768 /\ P(16) = 65536 /\ P(17) = 131072 /\ P(18) = 262144 /\ P(19) = 524288
  /\ P(20) = 1048576 /\ P(21) = 2097152 /\ P(22) = 4194304 /\ P(23) = 8388608 /\ P(24) = 16777216
  /\ P(25) = 33554432 /\ P(26) = 67108864
BY DEF P

LEMMA PowerStep ==
  ASSUME NEW n \in 0..25
  PROVE  P(n) \in Nat /\ P(n) > 0 /\ P(n + 1) = 2 * P(n)
BY PowerValues

LEMMA PowerType == \A n \in 0..26 : P(n) \in Nat /\ P(n) > 0
BY PowerValues

LEMMA PowerGrows ==
  ASSUME NEW a \in 0..26, NEW b \in a..26
  PROVE  P(a) <= P(b)
BY PowerValues

(* A product of powers.                                                    *)
LEMMA PowerProduct ==
  ASSUME NEW a \in 0..26, NEW b \in 0..26, a + b <= 26
  PROVE  P(a + b) = P(a) * P(b)
<1> DEFINE S == {n \in Nat : a + n <= 26 => P(a + n) = P(a) * P(n)}
<1>1. 0 \in S
  BY PowerValues, PowerType
<1>2. ASSUME NEW n \in Nat, n \in S PROVE n + 1 \in S
  <2>1. SUFFICES ASSUME a + (n + 1) <= 26 PROVE P(a + (n + 1)) = P(a) * P(n + 1)
    OBVIOUS
  <2>2. n \in 0..25 /\ a + n \in 0..25 /\ a + (n + 1) = (a + n) + 1
    BY <2>1
  <2>3. P(a + n) = P(a) * P(n)
    BY <1>2, <2>2
  <2>4. P(n + 1) = 2 * P(n) /\ P((a + n) + 1) = 2 * P(a + n) /\ P(n) \in Nat /\ P(a) \in Nat
    BY <2>2, PowerStep, PowerType
  <2> DEFINE x == P(a)
             y == P(n)
  <2>5. x \in Nat /\ y \in Nat /\ P(a + (n + 1)) = 2 * (x * y) /\ P(n + 1) = 2 * y
    BY <2>2, <2>3, <2>4
  <2> HIDE DEF x, y
  <2>6. 2 * (x * y) = x * (2 * y)
    BY <2>5
  <2>7. QED BY <2>5, <2>6 DEF x
<1>3. Nat \subseteq S
  <2> HIDE DEF S
  <2>1. QED BY <1>1, <1>2, SetInduction
<1>4. QED BY <1>3

(* The formats in these terms.                                             *)
LEMMA SignedBits ==
  /\ \A b \in 0..31 : Signed(b, 5) \in -16..15 /\ Signed(b, 5) = IF b >= 16 THEN b - 32 ELSE b
  /\ \A b \in 0..2047 : Signed(b, 11) = IF b >= 1024 THEN b - 2048 ELSE b
BY DEF Signed

LEMMA FullIs == \A f : Full(f) = f.mant + P(23)
BY DEF Full, P

LEMMA FloatIs ==
  /\ \A f \in Float : /\ f.sign \in {0, 1} /\ f.exp \in 0..255
                      /\ f.mant \in Nat /\ f.mant < P(23)
                      /\ Full(f) \in Nat /\ P(23) <= Full(f) /\ Full(f) < P(24)
  /\ \A sign \in {0, 1}, exp \in 0..255, mant \in Nat :
       mant < P(23) => [sign |-> sign, exp |-> exp, mant |-> mant] \in Float
<1> DEFINE top == 2^23 - 1
           exps == 0..255
<1>1. top = P(23) - 1 /\ P(23) \in Nat /\ P(24) = 2 * P(23)
  BY PowerValues DEF P
<1>2. Float = [sign : {0, 1}, exp : exps, mant : 0..top]
  BY DEF Float
<1> HIDE DEF top, exps
<1>3. \A f \in Float : f.sign \in {0, 1} /\ f.exp \in exps /\ f.mant \in 0..top
  BY <1>2
<1>4. \A sign \in {0, 1}, exp \in exps, mant \in 0..top :
        [sign |-> sign, exp |-> exp, mant |-> mant] \in Float
  BY <1>2
<1>5. \A x : x \in 0..top <=> x \in Nat /\ x < P(23)
  BY <1>1
<1>6. \A f \in Float : Full(f) \in Nat /\ P(23) <= Full(f) /\ Full(f) < P(24)
  BY <1>1, <1>3, <1>5, FullIs
<1>7. \A f \in Float : /\ f.sign \in {0, 1} /\ f.exp \in exps
                         /\ f.mant \in Nat /\ f.mant < P(23)
  BY <1>3, <1>5, Zenon
<1>8. \A sign \in {0, 1}, exp \in exps, mant \in Nat :
        mant < P(23) => [sign |-> sign, exp |-> exp, mant |-> mant] \in Float
  BY <1>4, <1>5, Zenon
<1>9. QED BY <1>6, <1>7, <1>8, Zenon DEF exps

LEMMA FloatParts ==
  ASSUME NEW f \in Float
  PROVE  /\ f.sign \in {0, 1} /\ f.exp \in Int /\ 0 <= f.exp /\ f.exp <= 255
         /\ f.mant \in Nat /\ f.mant < P(23) /\ Full(f) = f.mant + P(23)
         /\ Full(f) \in Nat /\ P(23) <= Full(f) /\ Full(f) < P(24)
<1>1. f.exp \in 0..255
  BY FloatIs
<1>2. f.exp \in Int /\ 0 <= f.exp /\ f.exp <= 255
  BY <1>1
<1>3. QED BY <1>2, FloatIs, FullIs

LEMMA SignedParts ==
  ASSUME NEW v \in 0..31
  PROVE  Signed(v, 5) \in Int /\ -16 <= Signed(v, 5) /\ Signed(v, 5) <= 15
<1>1. Signed(v, 5) \in -16..15
  BY SignedBits
<1>2. QED BY <1>1

(* Division: what lies between two multiples.                              *)
LEMMA Quotient ==
  ASSUME NEW n \in Nat, NEW p \in Nat, p > 0, NEW q \in Nat, NEW r \in 0..(p - 1), n = q * p + r
  PROVE  n \div p = q /\ n % p = r
OBVIOUS

LEMMA Division ==
  ASSUME NEW n \in Nat, NEW p \in Nat, p > 0
  PROVE  /\ n \div p \in Nat /\ n % p \in 0..(p - 1)
         /\ n = (n \div p) * p + (n % p)
OBVIOUS

-----------------------------------------------------------------------------
(* A number other than 0 can be shifted until it has w + 1 bits.           *)
LEMMA ShiftExists ==
  ASSUME NEW w \in 0..24, NEW m \in Nat, m > 0, m < P(w + 1)
  PROVE  \E k \in 0..w : m * P(k) \in P(w)..(P(w + 1) - 1)
<1> DEFINE S == {n \in Nat : n <= w => \/ \E k \in 0..n : m * P(k) \in P(w)..(P(w + 1) - 1)
                                       \/ m * P(n) < P(w)}
<1>1. P(w) \in Nat /\ P(w + 1) = 2 * P(w) /\ P(0) = 1
  BY PowerStep, PowerValues
<1>2. 0 \in S
  BY <1>1
<1>3. ASSUME NEW n \in Nat, n \in S PROVE n + 1 \in S
  <2>1. SUFFICES ASSUME n + 1 <= w
                 PROVE  \/ \E k \in 0..(n + 1) : m * P(k) \in P(w)..(P(w + 1) - 1)
                        \/ m * P(n + 1) < P(w)
    OBVIOUS
  <2>2. CASE \E k \in 0..n : m * P(k) \in P(w)..(P(w + 1) - 1)
    BY <2>2
  <2>3. CASE m * P(n) < P(w)
    <3> DEFINE y == P(n)
               z == P(n + 1)
    <3>1. y \in Nat /\ z = 2 * y
      BY <2>1, PowerStep
    <3> HIDE DEF y, z
    <3>2. m * y < P(w) /\ m * z = 2 * (m * y) /\ m * y \in Nat
      BY <2>3, <3>1 DEF y
    <3>3. m * z < P(w) \/ m * z \in P(w)..(P(w + 1) - 1)
      BY <1>1, <3>2
    <3>4. QED BY <3>3 DEF z
  <2>4. QED BY <1>3, <2>1, <2>2, <2>3
<1>4. w \in S
  <2> HIDE DEF S
  <2>1. QED BY <1>2, <1>3, SetInduction
<1>5. ~(m * P(w) < P(w))
  <2> DEFINE x == P(w)
  <2>1. x \in Nat /\ x > 0
    BY PowerType
  <2> HIDE DEF x
  <2>2. ~(m * x < x)
    BY <2>1
  <2>3. QED BY <2>2 DEF x
<1>6. QED BY <1>4, <1>5

(* m * 2^e as a float: m is shifted left by s, of which 23 - w are those     *)
(* that any number of w + 1 bits has.                                      *)
Shifted(f, sign, m, e, s) ==
  /\ f = [sign |-> sign, exp |-> 150 + e - s, mant |-> m * P(s) - P(23)]
  /\ m * P(s) \in Nat /\ P(23) <= m * P(s) /\ m * P(s) < P(24)

LEMMA NormalizedIs ==
  ASSUME NEW w \in 9..15, NEW m \in Nat, m > 0, m < P(w + 1), NEW sign, NEW e \in Int
  PROVE  \E s \in (23 - w)..23 : Shifted(Normalized(sign, m, e, w), sign, m, e, s)
<1> DEFINE k == CHOOSE k \in 0..w : m * P(k) \in P(w)..(P(w + 1) - 1)
           x == P(k)
           s == k + 23 - w
<1>1. k \in 0..w /\ m * P(k) \in P(w)..(P(w + 1) - 1)
  <2>1. \E i \in 0..w : m * P(i) \in P(w)..(P(w + 1) - 1)
    BY ShiftExists
  <2>2. QED BY <2>1, Zenon
<1>2. Normalized(sign, m, e, w) =
        [sign |-> sign, exp |-> 127 + w + e - k, mant |-> (m * P(k) - P(w)) * P(23 - w)]
  BY DEF Normalized, P
<1> HIDE DEF k
<1>3. s \in (23 - w)..23 /\ 127 + w + e - k = 150 + e - s /\ s = k + (23 - w)
  BY <1>1
<1>4. P(s) = x * P(23 - w) /\ P(23) = P(w) * P(23 - w) /\ P(24) = P(w + 1) * P(23 - w)
  <2>1. P(k + (23 - w)) = P(k) * P(23 - w)
    BY <1>1, PowerProduct
  <2>2. P(w + (23 - w)) = P(w) * P(23 - w) /\ P((w + 1) + (23 - w)) = P(w + 1) * P(23 - w)
    BY PowerProduct
  <2>3. w + (23 - w) = 23 /\ (w + 1) + (23 - w) = 24
    OBVIOUS
  <2>4. QED BY <1>3, <2>1, <2>2, <2>3
<1> DEFINE c == P(23 - w)
           a == P(w)
           b == P(w + 1)
<1>5. c \in Nat /\ c > 0 /\ a \in Nat /\ b \in Nat /\ x \in Nat
  BY <1>1, PowerType
<1> HIDE DEF c, a, b, x
<1>6. m * x \in Nat /\ a <= m * x /\ m * x + 1 <= b
  BY <1>1, <1>5 DEF a, b, x
<1>7. (m * x - a) * c = (m * x) * c - a * c /\ (m * x) * c = m * (x * c)
  BY <1>5, <1>6
<1>8. a * c <= (m * x) * c /\ (m * x + 1) * c <= b * c /\ (m * x + 1) * c = (m * x) * c + c
      /\ (m * x) * c \in Nat
  <2> DEFINE y == m * x
  <2>1. y \in Nat /\ a <= y /\ y + 1 <= b
    BY <1>6
  <2> HIDE DEF y
  <2>2. a * c <= y * c /\ (y + 1) * c <= b * c /\ (y + 1) * c = y * c + c /\ y * c \in Nat
    BY <1>5, <2>1
  <2>3. QED BY <2>2 DEF y
<1>9. m * P(s) = (m * x) * c /\ P(23) = a * c /\ P(24) = b * c
  BY <1>4, <1>7 DEF a, b, c, x
<1>10. Shifted(Normalized(sign, m, e, w), sign, m, e, s)
  <2>1. m * P(s) \in Nat /\ P(23) <= m * P(s) /\ m * P(s) < P(24)
    BY <1>5, <1>8, <1>9
  <2>2. (m * P(k) - P(w)) * P(23 - w) = m * P(s) - P(23)
    BY <1>7, <1>9 DEF a, c, x
  <2>3. QED BY <1>2, <1>3, <2>1, <2>2 DEF Shifted
<1>11. QED BY <1>3, <1>10

-----------------------------------------------------------------------------
(* What a getter makes of a word.                                          *)
Nought == [sign |-> 0, exp |-> 0, mant |-> 0]

LEMMA WordIs == \A x : x \in Word <=> x \in Nat /\ x < P(16)
<1> DEFINE top == 65535
<1>1. Word = 0..top /\ top \in Nat /\ P(16) = top + 1
  BY PowerValues, SMT DEF Word
<1> HIDE DEF top
<1>2. QED BY <1>1

LEMMA Read16 ==
  ASSUME NEW word \in Word, NEW v \in 0..31
  PROVE  /\ word = 0 => lin16_to_fl32(word, v) = Nought
         /\ word # 0 => \E s \in 8..23 : Shifted(lin16_to_fl32(word, v), 0, word, Signed(v, 5), s)
<1>1. word \in Nat /\ word < P(15 + 1) /\ Signed(v, 5) \in Int
  BY WordIs, SignedBits
<1>2. CASE word = 0
  BY <1>2 DEF lin16_to_fl32, Normalized, Nought
<1>3. CASE word # 0
  <2> DEFINE e == Signed(v, 5)
  <2>1. lin16_to_fl32(word, v) = Normalized(0, word, e, 15)
    BY DEF lin16_to_fl32
  <2> HIDE DEF e
  <2>2. \E s \in (23 - 15)..23 : Shifted(Normalized(0, word, e, 15), 0, word, e, s)
    BY <1>1, <1>3, NormalizedIs DEF e
  <2>3. QED BY <1>3, <2>1, <2>2 DEF e
<1>4. QED BY <1>2, <1>3

(* The parts of a Linear11 word.                                           *)
Mantissa11(word) == Signed(word % 2048, 11)
Exponent11(word) == Signed(word \div 2048, 5)
SignOf(m) == IF m < 0 THEN 1 ELSE 0

LEMMA Parts11 ==
  ASSUME NEW word \in Word
  PROVE  /\ word % 2048 \in 0..2047 /\ word \div 2048 \in 0..31
         /\ Exponent11(word) \in -16..15
         /\ Mantissa11(word) \in -1024..1023
         /\ Mantissa11(word) = IF word % 2048 >= 1024 THEN (word % 2048) - 2048 ELSE word % 2048
<1>1. word \in Nat /\ word < 65536
  BY WordIs, PowerValues
<1>2. word % 2048 \in 0..2047 /\ word \div 2048 \in 0..31
  BY <1>1
<1>3. /\ Exponent11(word) \in -16..15
      /\ Mantissa11(word) = IF word % 2048 >= 1024 THEN (word % 2048) - 2048 ELSE word % 2048
  BY <1>2, SignedBits, SMTT(40) DEF Exponent11, Mantissa11
<1>4. QED BY <1>2, <1>3

LEMMA Read11 ==
  ASSUME NEW word \in Word
  PROVE  /\ Mantissa11(word) = 0 => lin11_to_fl32(word) = Nought
         /\ Mantissa11(word) # 0 =>
              \E s \in 13..23 : Shifted(lin11_to_fl32(word), SignOf(Mantissa11(word)),
                                        Abs(Mantissa11(word)), Exponent11(word), s)
<1> DEFINE low == word % 2048
           e == Exponent11(word)
           m == Mantissa11(word)
           F == lin11_to_fl32(word)
<1>1. low \in 0..2047 /\ e \in -16..15 /\ m = IF low >= 1024 THEN low - 2048 ELSE low
  BY Parts11
<1>2. F = IF low < 1024 THEN Normalized(0, low, e, 9)
          ELSE IF low = 1024 THEN Normalized(1, 512, e + 1, 9)
          ELSE Normalized(1, 2048 - low, e, 9)
  BY DEF lin11_to_fl32, Exponent11
<1>3. P(9 + 1) = 1024
  BY PowerValues
<1> HIDE DEF low, e, m, F
<1>4. CASE low = 0
  BY <1>1, <1>2, <1>4 DEF Normalized, Nought, F, m
<1>5. CASE low \in 1..1023
  <2>1. \E s \in (23 - 9)..23 : Shifted(Normalized(0, low, e, 9), 0, low, e, s)
    BY <1>1, <1>3, <1>5, NormalizedIs
  <2>2. F = Normalized(0, low, e, 9) /\ m = low /\ Abs(m) = low /\ SignOf(m) = 0
    BY <1>1, <1>2, <1>5 DEF Abs, SignOf
  <2>3. \E s \in 13..23 : Shifted(F, SignOf(m), Abs(m), e, s)
    BY <2>1, <2>2
  <2>4. QED BY <1>1, <1>5, <2>2, <2>3 DEF F, m, e
<1>6. CASE low = 1024
  <2>1. \E s \in (23 - 9)..23 : Shifted(Normalized(1, 512, e + 1, 9), 1, 512, e + 1, s)
    BY <1>1, <1>3, NormalizedIs
  <2>2. PICK s \in 14..23 : Shifted(Normalized(1, 512, e + 1, 9), 1, 512, e + 1, s)
    BY <2>1
  <2>3. F = Normalized(1, 512, e + 1, 9) /\ m # 0 /\ Abs(m) = 1024 /\ SignOf(m) = 1
    <3>1. ~(low < 1024) /\ low = 1024
      BY <1>6
    <3>2. F = Normalized(1, 512, e + 1, 9)
      <4> DEFINE n(f, i, j, k) == Normalized(f, i, j, k)
      <4>1. F = IF low < 1024 THEN n(0, low, e, 9)
                ELSE IF low = 1024 THEN n(1, 512, e + 1, 9)
                ELSE n(1, 2048 - low, e, 9)
        BY <1>2
      <4> HIDE DEF n
      <4>2. F = n(1, 512, e + 1, 9)
        BY <3>1, <4>1
      <4>3. QED BY <4>2 DEF n
    <3>3. m + 1024 = 0 /\ m \in Int
      BY <1>1, <1>6
    <3>4. Abs(m) = 1024 /\ SignOf(m) = 1
      BY <3>3 DEF Abs, SignOf
    <3>5. QED BY <3>2, <3>3, <3>4
  <2>4. 512 * P(s) = 1024 * P(s - 1) /\ 150 + (e + 1) - s = 150 + e - (s - 1) /\ s - 1 \in 13..23
    <3>1. s - 1 \in 0..25 /\ (s - 1) + 1 = s
      OBVIOUS
    <3>2. P(s) = 2 * P(s - 1) /\ P(s - 1) \in Nat
      BY <3>1, PowerStep
    <3>3. QED BY <1>1, <3>1, <3>2
  <2>5. Shifted(F, 1, 1024, e, s - 1)
    BY <2>2, <2>3, <2>4 DEF Shifted
  <2>6. QED BY <1>1, <2>3, <2>4, <2>5 DEF F, m, e
<1>7. CASE low \in 1025..2047
  <2> DEFINE n == 2048 - low
  <2>1. n \in Nat /\ n > 0 /\ n < 1024
    BY <1>7
  <2>2. F = Normalized(1, n, e, 9) /\ m = -n /\ Abs(m) = n /\ SignOf(m) = 1
    BY <1>1, <1>2, <1>7 DEF Abs, SignOf
  <2> HIDE DEF n
  <2>3. \E s \in (23 - 9)..23 : Shifted(Normalized(1, n, e, 9), 1, n, e, s)
    BY <1>1, <1>3, <2>1, NormalizedIs
  <2>4. \E s \in 13..23 : Shifted(F, SignOf(m), Abs(m), e, s)
    BY <2>2, <2>3
  <2>5. QED BY <2>1, <2>2, <2>4 DEF F, m, e
<1>8. QED BY <1>1, <1>4, <1>5, <1>6, <1>7

(* Shifted numbers of the formats are floats.                              *)
LEMMA ShiftedFloat ==
  ASSUME NEW f, NEW sign \in {0, 1}, NEW m \in Nat,
         NEW e \in Int, -16 <= e, e <= 16, NEW s \in Nat, s <= 23,
         Shifted(f, sign, m, e, s)
  PROVE  /\ f \in Float /\ f.sign = sign /\ f.exp = 150 + e - s
         /\ Full(f) = m * P(s)
<1> DEFINE M == m * P(s)
<1>1. /\ f = [sign |-> sign, exp |-> 150 + e - s, mant |-> M - P(23)]
      /\ M \in Nat /\ P(23) <= M /\ M < P(24)
  BY DEF Shifted
<1>2. P(24) = 2 * P(23) /\ P(23) \in Nat
  BY PowerStep, PowerValues
<1> HIDE DEF M
<1>3. M - P(23) \in Nat /\ M - P(23) < P(23) /\ (M - P(23)) + P(23) = M /\ 150 + e - s \in 0..255
  BY <1>1, <1>2
<1>4. QED BY <1>1, <1>3, FloatIs, FullIs DEF M

LEMMA NoughtFloat == Nought \in Float
<1>1. 0 < P(23)
  BY PowerValues
<1>2. 0 \in {0, 1} /\ 0 \in 0..255 /\ 0 \in Nat
  OBVIOUS
<1>3. \A sign \in {0, 1}, exp \in 0..255, mant \in Nat :
        mant < P(23) => [sign |-> sign, exp |-> exp, mant |-> mant] \in Float
  BY FloatIs
<1>4. [sign |-> 0, exp |-> 0, mant |-> 0] \in Float
  BY <1>1, <1>2, <1>3, Zenon
<1>5. QED BY <1>4 DEF Nought

-----------------------------------------------------------------------------
(* R is M, divided by 2^s and rounded: half a step away at most, and then    *)
(* even.                                                                   *)
Near(M, R, s) ==
  /\ R \in Nat
  /\ M - R * P(s) <= P(s - 1) /\ R * P(s) - M <= P(s - 1)
  /\ M - R * P(s) = P(s - 1) \/ R * P(s) - M = P(s - 1) => R % 2 = 0

LEMMA RoundedIs ==
  ASSUME NEW M \in Nat, NEW s \in 1..25, NEW R, R = Rounded(M, s), NEW q, q = M \div P(s)
  PROVE  /\ Near(M, R, s)
         /\ q \in Nat /\ q * P(s) <= M /\ M < (q + 1) * P(s)
         /\ RoundsUp(M, s) => R = q + 1
         /\ ~RoundsUp(M, s) => R = q
<1> DEFINE h == P(s - 1)
           p == P(s)
           pp == P(s + 1)
           a == M \div h
           b == M % h
           x == a % 2
           c == a \div 2
           y == c % 2
           z == c \div 2
<1>1. h \in Nat /\ h > 0 /\ p = 2 * h /\ pp = 4 * h
  <2>1. s - 1 \in 0..25 /\ s \in 0..25 /\ (s - 1) + 1 = s
    OBVIOUS
  <2>2. h \in Nat /\ h > 0 /\ P((s - 1) + 1) = 2 * h /\ pp = 2 * P(s)
    BY <2>1, PowerStep
  <2>3. QED BY <2>1, <2>2
<1>2. RoundsUp(M, s) <=> (M \div h) % 2 = 1 /\ M % pp # h
  BY DEF RoundsUp, P
<1>3. R = IF RoundsUp(M, s) THEN (M \div p) + 1 ELSE M \div p
  BY DEF Rounded, P
<1> HIDE DEF h, p, pp
<1>4. a \in Nat /\ b \in 0..(h - 1) /\ M = a * h + b
  BY <1>1, Division
<1> HIDE DEF a, b
<1>5. x \in 0..1 /\ c \in Nat /\ a = 2 * c + x
  BY <1>4
<1> HIDE DEF x, c
<1>6. y \in 0..1 /\ z \in Nat /\ c = 2 * z + y
  BY <1>5
<1> HIDE DEF y, z
<1>7. x * h \in {0, h} /\ (x = 0 => x * h = 0) /\ (x = 1 => x * h = h)
  BY <1>1, <1>5
<1>8. M = c * p + (x * h + b)
  <2>1. a * h = 2 * (c * h) + x * h /\ c * p = 2 * (c * h) /\ c * h \in Nat
    BY <1>1, <1>5
  <2>2. QED BY <1>4, <1>7, <2>1, <1>1
<1>9. x * h + b \in 0..(p - 1)
  BY <1>1, <1>4, <1>7
<1>10. M \div p = c
  <2> DEFINE r == x * h + b
  <2>1. r \in 0..(p - 1) /\ M = c * p + r
    BY <1>8, <1>9
  <2> HIDE DEF r
  <2>2. QED BY <1>1, <1>5, <2>1, Quotient
<1>11. y * p \in {0, p} /\ (y = 0 => y * p = 0) /\ (y = 1 => y * p = p)
  BY <1>1, <1>6
<1>12. M % pp = y * p + (x * h + b)
  <2> DEFINE r == y * p + (x * h + b)
  <2>1. r \in 0..(pp - 1)
    BY <1>1, <1>9, <1>11
  <2>2. M = z * pp + r
    <3>1. c * p = z * pp + y * p /\ z * pp \in Nat
      <4>1. c * p = (2 * z) * p + y * p /\ (2 * z) * p = z * (2 * p)
        BY <1>1, <1>6
      <4>2. pp = 2 * p
        BY <1>1
      <4>3. QED BY <1>1, <1>6, <4>1, <4>2
    <3>2. QED BY <1>1, <1>8, <1>9, <1>11, <3>1
  <2> HIDE DEF r
  <2>3. M % pp = r
    BY <1>1, <1>6, <2>1, <2>2, Quotient
  <2>4. QED BY <2>3 DEF r
<1>13. (M \div h) % 2 = x
  BY DEF a, x
<1>14. RoundsUp(M, s) <=> x = 1 /\ (y = 1 \/ b > 0)
  BY <1>1, <1>2, <1>4, <1>5, <1>6, <1>7, <1>11, <1>12, <1>13
<1>15. R = IF RoundsUp(M, s) THEN c + 1 ELSE c
  BY <1>3, <1>10
<1>16. (c + 1) * p = c * p + p /\ c * p \in Nat
  BY <1>1, <1>5
<1>17. q = c /\ q \in Nat /\ q * p <= M /\ M < (q + 1) * p
  BY <1>1, <1>5, <1>8, <1>9, <1>10, <1>16 DEF p
<1>18. c % 2 = y /\ (y = 1 => (c + 1) % 2 = 0)
  BY <1>6
<1>19. Near(M, R, s)
  <2>1. R \in Nat /\ M - R * p <= h /\ R * p - M <= h /\ (M - R * p = h \/ R * p - M = h => R % 2 = 0)
    <3>1. CASE x = 0
      <4>1. R = c /\ M - c * p = b /\ c * p - M = -b
        BY <1>4, <1>7, <1>8, <1>14, <1>15, <1>16, <3>1
      <4>2. QED BY <1>1, <1>4, <1>5, <4>1
    <3>2. CASE x = 1 /\ y = 0 /\ b = 0
      <4>1. R = c /\ M - c * p = h /\ c * p - M = -h /\ c % 2 = 0
        BY <1>1, <1>7, <1>8, <1>14, <1>15, <1>16, <1>18, <3>2
      <4>2. QED BY <1>1, <1>5, <4>1
    <3>3. CASE x = 1 /\ (y = 1 \/ b > 0)
      <4>1. R = c + 1 /\ (c + 1) * p - M = h - b /\ M - (c + 1) * p = b - h
        BY <1>1, <1>4, <1>7, <1>8, <1>14, <1>15, <1>16, <3>3
      <4>2. QED BY <1>1, <1>4, <1>5, <1>18, <3>3, <4>1
    <3>4. QED BY <1>4, <1>5, <1>6, <3>1, <3>2, <3>3
  <2>2. QED BY <2>1 DEF Near, h, p
<1>20. QED BY <1>15, <1>17, <1>19 DEF p

LEMMA RoundedNear == \A M \in Nat, s \in 1..25 : Near(M, Rounded(M, s), s)
<1> TAKE M \in Nat, s \in 1..25
<1> DEFINE R == Rounded(M, s)
           q == M \div P(s)
<1>1. R = Rounded(M, s) /\ q = M \div P(s)
  OBVIOUS
<1> HIDE DEF R, q
<1>2. Near(M, R, s)
  BY <1>1, RoundedIs
<1>3. QED BY <1>2 DEF R

-----------------------------------------------------------------------------
(* What a setter of a voltage makes of a float.                            *)
LEMMA Write16 ==
  ASSUME NEW f \in Float, NEW high \in {0, 1}, NEW v \in 0..31,
         NEW s, s = 150 - f.exp + Signed(v, 5), NEW W, W = fl32_to_lin16(f, high, v)
  PROVE  /\ s \in Int
         /\ f.sign = 1 \/ high = 1 => W = 0
         /\ f.sign = 0 /\ high = 0 => /\ s < 8 => W = 65535
                                      /\ s > 24 => W = 0
                                      /\ s \in 8..24 => W = Rounded(Full(f), s)
         /\ W \in Nat
<1> DEFINE t == f.sign + 2 * high
           R == Rounded(Full(f), s)
<1>1. f.sign \in {0, 1} /\ f.exp \in Nat /\ Full(f) \in Nat /\ Signed(v, 5) \in Int
  <2>1. f.sign \in {0, 1} /\ f.exp \in 0..255 /\ Full(f) \in Nat
    BY FloatIs
  <2>2. Signed(v, 5) \in -16..15
    BY SignedBits
  <2>3. QED BY <2>1, <2>2
<1>2. s \in Int /\ t \in Nat /\ (t # 0 <=> f.sign = 1 \/ high = 1)
  BY <1>1
<1>3. W = CASE t # 0 -> 0
            [] t = 0 /\ s < 8 -> 65535
            [] t = 0 /\ s > 24 -> 0
            [] OTHER -> R
  BY DEF fl32_to_lin16
<1>4. s \in 8..24 => R \in Nat
  <2> DEFINE M == Full(f)
  <2>1. M \in Nat /\ R = Rounded(M, s)
    BY <1>1
  <2> HIDE DEF R, M
  <2>2. SUFFICES ASSUME s \in 8..24 PROVE R \in Nat
    OBVIOUS
  <2>3. s \in 1..25
    BY <2>2
  <2>4. Near(M, R, s)
    BY <2>1, <2>3, RoundedNear
  <2>5. QED BY <2>4 DEF Near
<1> HIDE DEF t, R
<1>5. /\ t # 0 => W = 0
      /\ t = 0 /\ s < 8 => W = 65535
      /\ t = 0 /\ s > 24 => W = 0
      /\ t = 0 /\ s \in 8..24 => W = R
  BY <1>2, <1>3
<1>6. QED BY <1>1, <1>2, <1>4, <1>5 DEF R

(* The step of Linear11 at a float, as a power of its last bit and as one    *)
(* of one, and how many steps the float has.                               *)
Step(f) == IF f.exp >= 120 THEN 14 ELSE 134 - f.exp
Least(f) == IF f.exp >= 120 THEN f.exp - 136 ELSE -16
Steps(f) == IF Step(f) > 24 THEN 0 ELSE Rounded(Full(f), Step(f))

LEMMA StepsAre ==
  ASSUME NEW f \in Float
  PROVE  /\ Step(f) \in 14..134 /\ Least(f) \in -16..119 /\ Steps(f) \in 0..1024
         /\ Step(f) = Least(f) + 150 - f.exp
         /\ f.exp >= 120 => Steps(f) >= 512 /\ Step(f) = 14
         /\ Step(f) <= 24 /\ RoundsUp(Full(f), Step(f)) => Steps(f) > 0
         /\ Steps(f) = 1024 => Step(f) <= 24 /\ RoundsUp(Full(f), Step(f))
         /\ f.exp >= 120 /\ RoundsUp(Full(f), Step(f)) => Steps(f) > 512
<1> DEFINE M == Full(f)
           s == Step(f)
           R == Steps(f)
           q == M \div P(s)
<1>1. f.exp \in 0..255 /\ M \in Nat /\ P(23) <= M /\ M < P(24)
  BY FloatIs
<1>2. s \in 14..134 /\ Least(f) \in -16..119 /\ s = Least(f) + 150 - f.exp /\ (f.exp >= 120 => s = 14)
  BY <1>1 DEF Step, Least
<1>3. s > 24 => R = 0
  BY DEF Steps
<1>4. s <= 24 => R = Rounded(M, s)
  BY <1>2 DEF Steps
<1> HIDE DEF M, s, R
<1>5. CASE s > 24
  BY <1>2, <1>3, <1>5 DEF M, s, R
<1>6. CASE s <= 24
  <2>1. s \in 14..24 /\ s \in 1..25
    BY <1>2, <1>6
  <2> HIDE DEF q
  <2>2. /\ q \in Nat /\ q * P(s) <= M /\ M < (q + 1) * P(s)
        /\ (RoundsUp(M, s) => R = q + 1) /\ (~RoundsUp(M, s) => R = q)
    BY <1>1, <1>4, <1>6, <2>1, RoundedIs DEF q
  <2> DEFINE p == P(s)
  <2>3. p \in Nat /\ p >= 16384
    <3>1. P(14) <= P(s)
      BY <2>1, PowerGrows
    <3>2. QED BY <2>1, <3>1, PowerValues, PowerType
  <2>4. q <= 1023
    <3> HIDE DEF p
    <3>1. q * p < 1024 * 16384
      <4>1. P(24) = 1024 * 16384
        BY PowerValues
      <4>2. q * p \in Nat /\ q * p <= M /\ M \in Nat /\ M < P(24)
        BY <1>1, <2>2, <2>3 DEF p
      <4>3. QED BY <4>1, <4>2
    <3>2. SUFFICES ASSUME q >= 1024 PROVE FALSE
      BY <2>2
    <3>3. q * p >= 1024 * p
      BY <2>2, <2>3, <3>2
    <3>4. QED BY <2>2, <2>3, <3>1, <3>3
  <2>5. f.exp >= 120 => q >= 512
    <3>1. SUFFICES ASSUME f.exp >= 120, q + 1 <= 512 PROVE FALSE
      BY <2>2
    <3>2. P(s) = 16384
      BY <1>2, <3>1, PowerValues
    <3>3. (q + 1) * 16384 <= 512 * 16384
      BY <2>2, <3>1
    <3>4. QED BY <1>1, <2>2, <3>2, <3>3, PowerValues
  <2>6. QED BY <1>2, <2>1, <2>2, <2>4, <2>5 DEF M, s, R
<1>7. QED BY <1>2, <1>5, <1>6

LEMMA Nearest11Is ==
  ASSUME NEW f \in Float, NEW n, n = Nearest11(f)
  PROVE  /\ n.m \in 0..1023 /\ n.e \in -16..120
         /\ \/ n.e = Least(f) /\ n.m = Steps(f)
            \/ n.e = Least(f) + 1 /\ 2 * n.m = Steps(f) /\ n.m > 0 /\ (f.exp >= 120 => Steps(f) = 1024)
<1> DEFINE e == f.exp - 136
           s == IF e < -16 THEN 14 - (e + 16) ELSE 14
           least == IF e < -16 THEN -16 ELSE e
           m == IF s > 24 THEN 0 ELSE Rounded(Full(f), s)
           carry == s <= 24 /\ RoundsUp(Full(f), s) /\ m % 512 = 0
<1>1. n = IF carry THEN [e |-> least + 1, m |-> m \div 2] ELSE [e |-> least, m |-> m]
  BY DEF Nearest11
<1>2. f.exp \in 0..255
  BY FloatIs
<1>3. s = Step(f) /\ least = Least(f)
  BY <1>2 DEF Step, Least
<1>4. m = Steps(f)
  BY <1>3 DEF Steps
<1>5. /\ least \in -16..119 /\ m \in 0..1024 /\ (carry => m > 0) /\ (m = 1024 => carry)
      /\ carry /\ f.exp >= 120 => m > 512
  <2>1. /\ Step(f) \in 14..134 /\ Least(f) \in -16..119 /\ Steps(f) \in 0..1024
        /\ Step(f) <= 24 /\ RoundsUp(Full(f), Step(f)) => Steps(f) > 0
        /\ Steps(f) = 1024 => Step(f) <= 24 /\ RoundsUp(Full(f), Step(f))
        /\ f.exp >= 120 /\ RoundsUp(Full(f), Step(f)) => Steps(f) > 512
    BY StepsAre
  <2>2. carry <=> Step(f) <= 24 /\ RoundsUp(Full(f), Step(f)) /\ Steps(f) % 512 = 0
    BY <1>3, <1>4
  <2> HIDE DEF carry, s, m, least
  <2>3. QED BY <1>3, <1>4, <2>1, <2>2
<1> HIDE DEF least, m, s
<1>6. carry => m % 512 = 0
  OBVIOUS
<1> HIDE DEF carry
<1>7. CASE carry
  <2>1. n.e = least + 1 /\ n.m = m \div 2
    BY <1>1, <1>7
  <2>2. 2 * (m \div 2) = m /\ m > 0
    BY <1>5, <1>6, <1>7
  <2>3. n.m \in 0..1023 /\ n.e \in -16..120 /\ n.m > 0
    BY <1>5, <2>1, <2>2
  <2>4. n.e = Least(f) + 1 /\ 2 * n.m = Steps(f)
    BY <1>3, <1>4, <2>1, <2>2
  <2>5. f.exp >= 120 => Steps(f) = 1024
    BY <1>4, <1>5, <1>6, <1>7
  <2>6. QED BY <2>3, <2>4, <2>5
<1>8. CASE ~carry
  <2>1. n.e = least /\ n.m = m
    BY <1>1, <1>8
  <2>2. m \in 0..1023
    <3>1. m # 1024 /\ m \in 0..1024
      BY <1>5, <1>8
    <3>2. QED BY <3>1
  <2>3. n.m \in 0..1023 /\ n.e \in -16..120
    BY <1>5, <2>1, <2>2
  <2>4. n.e = Least(f) /\ n.m = Steps(f)
    BY <1>3, <1>4, <2>1
  <2>5. QED BY <2>3, <2>4
<1>9. QED BY <1>7, <1>8

(* The word that is made of an exponent and a mantissa.                    *)
LEMMA Fields ==
  ASSUME NEW e \in -16..15, NEW m \in -1024..1023, NEW w, w = ((e % 32) * 2048) + (m % 2048)
  PROVE  w \in Word /\ Mantissa11(w) = m /\ Exponent11(w) = e
<1> DEFINE u == e % 32
           x == m % 2048
<1>1. u \in 0..31 /\ u = IF e < 0 THEN e + 32 ELSE e
  OBVIOUS
<1>2. x \in 0..2047 /\ x = IF m < 0 THEN m + 2048 ELSE m
  OBVIOUS
<1> HIDE DEF u, x
<1>3. w = u * 2048 + x
  BY DEF u, x
<1>4. w \in Nat /\ w < 65536
  BY <1>1, <1>2, <1>3
<1>5. w \div 2048 = u /\ w % 2048 = x
  <2> DEFINE p == 2048
  <2>1. p \in Nat /\ p > 0 /\ u \in Nat /\ x \in 0..(p - 1) /\ w = u * p + x
    BY <1>1, <1>2, <1>3
  <2> HIDE DEF p
  <2>2. w \div p = u /\ w % p = x
    BY <1>4, <2>1, Quotient
  <2>3. QED BY <2>2 DEF p
<1>6. Signed(u, 5) = e
  <2>1. Signed(u, 5) = IF u >= 16 THEN u - 32 ELSE u
    BY <1>1, SignedBits
  <2>2. QED BY <1>1, <2>1
<1>7. Signed(x, 11) = m
  <2>1. Signed(x, 11) = IF x >= 1024 THEN x - 2048 ELSE x
    BY <1>2, SignedBits, SMTT(40)
  <2>2. QED BY <1>2, <2>1
<1>8. QED BY <1>4, <1>5, <1>6, <1>7, WordIs, PowerValues DEF Mantissa11, Exponent11

(* What a setter of a current or a time makes of a float: the last number of *)
(* its sign, if it is too large, 0, if it has no steps, and else as many     *)
(* steps as it has, in units of its last bit.                              *)
TooLarge(f) == f.exp > 151 \/ (f.exp = 151 /\ f.sign = 0 /\ Steps(f) = 1024)

Last(f) == IF f.sign = 1 THEN -1024 ELSE 1023

LEMMA Write11 ==
  ASSUME NEW f \in Float, NEW w, w = fl32_to_lin11(f),
         NEW m, m = Mantissa11(w), NEW e, e = Exponent11(w)
  PROVE  /\ w \in Word /\ m \in -1024..1023 /\ e \in -16..15
         /\ TooLarge(f) => e = 15 /\ m = Last(f)
         /\ ~TooLarge(f) /\ Steps(f) = 0 => m = 0
         /\ ~TooLarge(f) /\ Steps(f) > 0 =>
              /\ m # 0 /\ SignOf(m) = f.sign
              /\ \/ e = Least(f) /\ Abs(m) = Steps(f)
                 \/ e = Least(f) + 1 /\ 2 * Abs(m) = Steps(f)
                 \/ e = Least(f) - 1 /\ Abs(m) = 2 * Steps(f)
<1> DEFINE n == Nearest11(f)
           m0 == IF f.sign = 1 THEN -n.m ELSE n.m
           lowest == m0 = -512 /\ n.e > -16
           m1 == IF lowest THEN -1024 ELSE m0
           e1 == IF lowest THEN n.e - 1 ELSE n.e
           m2 == IF e1 <= 15 THEN m1 ELSE IF f.sign = 1 THEN -1024 ELSE 1023
           e2 == IF m2 = 0 THEN 0 ELSE IF e1 > 15 THEN 15 ELSE e1
           a == n.m
           b == n.e
           sign == f.sign
           L == Least(f)
           S == Steps(f)
           x == f.exp
<1>1. w = ((e2 % 32) * 2048) + (m2 % 2048)
  BY DEF fl32_to_lin11
<1>2. sign \in {0, 1} /\ x \in 0..255
  BY FloatIs
<1>3. /\ a \in 0..1023 /\ b \in -16..120
      /\ \/ b = L /\ a = S
         \/ b = L + 1 /\ 2 * a = S /\ a > 0 /\ (x >= 120 => S = 1024)
  BY Nearest11Is
<1>4. /\ L \in -16..119 /\ S \in 0..1024 /\ (x >= 120 => S >= 512) /\ (S = 1024 => b = L + 1)
      /\ L = IF x >= 120 THEN x - 136 ELSE -16
  <2>1. L \in -16..119 /\ S \in 0..1024 /\ (x >= 120 => S >= 512)
    BY StepsAre
  <2>2. S = 1024 => b = L + 1
    BY <1>3
  <2>3. QED BY <2>1, <2>2 DEF Least
<1> HIDE DEF n, a, b, L, S, x, sign
<1>5. m0 = IF sign = 1 THEN -a ELSE a
  BY DEF a, sign
<1>6. lowest <=> m0 = -512 /\ b > -16
  BY DEF b
<1>7. e1 = IF lowest THEN b - 1 ELSE b
  BY DEF b
<1>8. m2 = IF e1 <= 15 THEN m1 ELSE IF sign = 1 THEN -1024 ELSE 1023
  BY DEF sign
<1>9. lowest <=> sign = 1 /\ a = 512 /\ b > -16
  BY <1>2, <1>3, <1>5, <1>6
<1>10. m1 = IF lowest THEN -1024 ELSE IF sign = 1 THEN -a ELSE a
  BY <1>5
<1> HIDE DEF m0
<1> HIDE DEF lowest
<1> HIDE DEF m1, e1
<1>11. m1 \in -1024..1023 /\ e1 \in -16..120
  BY <1>2, <1>3, <1>7, <1>9, <1>10
<1>12. m2 \in -1024..1023 /\ e2 \in -16..15
  BY <1>2, <1>8, <1>11
<1>13. w \in Word /\ m = m2 /\ e = e2
  <2> HIDE DEF m2, e2
  <2>1. \A i \in -16..15, j \in -1024..1023 :
           \A k : k = ((i % 32) * 2048) + (j % 2048) =>
                    k \in Word /\ Mantissa11(k) = j /\ Exponent11(k) = i
    BY Fields
  <2> DEFINE E == -16..15
             M == -1024..1023
  <2>2. e2 \in E /\ m2 \in M
    BY <1>12
  <2>3. \A i \in E, j \in M :
           \A k : k = ((i % 32) * 2048) + (j % 2048) =>
                    k \in Word /\ Mantissa11(k) = j /\ Exponent11(k) = i
    BY <2>1
  <2> HIDE DEF E, M
  <2>4. w \in Word /\ Mantissa11(w) = m2 /\ Exponent11(w) = e2
    BY <1>1, <2>2, <2>3
  <2>5. QED BY <2>4
<1>14. TooLarge(f) <=> x > 151 \/ (x = 151 /\ sign = 0 /\ S = 1024)
  BY DEF TooLarge, x, sign, S
<1>15. e2 = IF m2 = 0 THEN 0 ELSE IF e1 > 15 THEN 15 ELSE e1
  OBVIOUS
<1> HIDE DEF m2, e2
<1>16. ASSUME TooLarge(f) PROVE e = 15 /\ m = Last(f)
  <2>1. e1 > 15 \/ (e1 = 15 /\ lowest)
    BY <1>2, <1>3, <1>4, <1>7, <1>9, <1>14, <1>16
  <2>2. lowest => sign = 1 /\ m1 + 1024 = 0
    BY <1>9, <1>10
  <2>3. m2 = IF sign = 1 THEN -1024 ELSE 1023
    BY <1>8, <1>11, <2>1, <2>2
  <2>4. m2 # 0 /\ e2 = 15
    BY <1>2, <1>11, <1>15, <2>1, <2>3
  <2>5. QED BY <1>13, <2>3, <2>4 DEF Last, sign
<1>17. ASSUME ~TooLarge(f) PROVE e1 <= 15 /\ m2 = m1
  <2>1. x <= 151 /\ (x = 151 => sign = 1 \/ S # 1024)
    BY <1>2, <1>14, <1>17
  <2>2. L <= 15 /\ (L = 15 => sign = 1 \/ S # 1024)
    BY <1>2, <1>4, <2>1
  <2>3. b <= 15 \/ (b = 16 /\ lowest)
    <3>1. CASE b = L
      BY <2>2, <3>1, <1>3, <1>4
    <3>2. CASE b = L + 1 /\ 2 * a = S /\ a > 0
      <4>1. SUFFICES ASSUME b = 16 PROVE lowest
        BY <2>2, <3>2, <1>4, <1>3
      <4>2. L = 15 /\ x = 151
        BY <1>2, <1>4, <2>1, <3>2, <4>1
      <4>3. S = 1024
        BY <1>3, <1>4, <3>2, <4>2
      <4>4. sign = 1 /\ a = 512
        BY <1>2, <1>3, <2>2, <3>2, <4>2, <4>3
      <4>5. QED BY <1>9, <4>1, <4>4
    <3>3. QED BY <1>3, <3>1, <3>2
  <2>4. e1 <= 15
    BY <1>3, <1>7, <2>3
  <2>5. QED BY <1>8, <2>4
<1>18. ASSUME ~TooLarge(f), S = 0 PROVE m = 0
  <2>1. a = 0 /\ ~lowest
    BY <1>3, <1>9, <1>18
  <2>2. ~lowest => m1 = a \/ m1 + a = 0
    BY <1>3, <1>10
  <2>3. m1 = 0
    BY <1>11, <2>1, <2>2
  <2>4. QED BY <1>13, <1>17, <1>18, <2>3
<1>19. ASSUME ~TooLarge(f), S > 0
       PROVE  /\ m # 0 /\ SignOf(m) = sign
              /\ \/ e = L /\ Abs(m) = S
                 \/ e = L + 1 /\ 2 * Abs(m) = S
                 \/ e = L - 1 /\ Abs(m) = 2 * S
  <2>1. a > 0 /\ m = m1 /\ e1 <= 15
    BY <1>3, <1>4, <1>13, <1>17, <1>19
  <2>2. m # 0
    BY <1>2, <1>3, <1>10, <2>1
  <2>3. e = e1
    BY <1>11, <1>13, <1>15, <2>1, <2>2
  <2>4. CASE lowest
    <3>1. m + 1024 = 0 /\ m \in Int /\ sign = 1 /\ a = 512 /\ e = b - 1
      BY <1>7, <1>9, <1>10, <1>11, <2>1, <2>3, <2>4
    <3>2. Abs(m) = 1024 /\ SignOf(m) = 1
      BY <3>1 DEF Abs, SignOf
    <3>3. \/ e = L /\ Abs(m) = S
          \/ e = L - 1 /\ Abs(m) = 2 * S
      BY <1>3, <1>4, <3>1, <3>2
    <3>4. QED BY <2>2, <3>1, <3>2, <3>3
  <2>5. CASE ~lowest
    <3>1. Abs(m) = a /\ SignOf(m) = sign
      BY <1>2, <1>3, <1>10, <2>1, <2>5 DEF Abs, SignOf
    <3>2. e = b
      BY <1>7, <2>3, <2>5
    <3>3. \/ e = L /\ Abs(m) = S
          \/ e = L + 1 /\ 2 * Abs(m) = S
      BY <1>3, <3>1, <3>2
    <3>4. QED BY <2>2, <3>1, <3>3
  <2>6. QED BY <2>4, <2>5
<1>20. m \in -1024..1023 /\ e \in -16..15
  BY <1>12, <1>13
<1>21. QED BY <1>13, <1>16, <1>18, <1>19, <1>20 DEF sign, L, S

-----------------------------------------------------------------------------
(* The float g is m * 2^e.                                                 *)
Reads(g, m, e) ==
  IF m = 0 THEN g = Nought
  ELSE \E s \in 8..23 : Shifted(g, SignOf(m), Abs(m), e, s)

HasParts(g, m, e) ==
  \E s \in 8..23 : g.sign = SignOf(m) /\ g.exp = 150 + e - s /\ Full(g) = Abs(m) * P(s)

LEMMA ReadsParts ==
  \A m \in Int, e \in -16..15 :
    \A g : m # 0 /\ Reads(g, m, e) => g \in Float /\ HasParts(g, m, e)
<1> TAKE m \in Int, e \in -16..15
<1> TAKE g
<1> HAVE m # 0 /\ Reads(g, m, e)
<1>1. PICK s \in 8..23 : Shifted(g, SignOf(m), Abs(m), e, s)
  BY DEF Reads
<1> DEFINE a == Abs(m)
           sign == SignOf(m)
<1>2. a \in Nat /\ sign \in {0, 1} /\ s \in Nat /\ s <= 23 /\ e \in Int /\ -16 <= e /\ e <= 16
  BY DEF Abs, SignOf
<1> HIDE DEF a, sign
<1>3. Shifted(g, sign, a, e, s)
  BY <1>1 DEF a, sign
<1>4. g \in Float /\ g.sign = sign /\ g.exp = 150 + e - s /\ Full(g) = a * P(s)
  BY <1>2, <1>3, ShiftedFloat
<1>5. QED BY <1>4 DEF HasParts, a, sign

LEMMA ReadsFloat ==
  ASSUME NEW g, NEW m \in Int, NEW e \in -16..15, Reads(g, m, e)
  PROVE  g \in Float
<1>1. CASE m = 0
  BY <1>1, NoughtFloat DEF Reads
<1>2. CASE m # 0
  BY <1>2, ReadsParts
<1>3. QED BY <1>1, <1>2

LEMMA Reads16 ==
  ASSUME NEW word \in Word, NEW v \in 0..31
  PROVE  Reads(lin16_to_fl32(word, v), word, Signed(v, 5)) /\ word \in Nat /\ Signed(v, 5) \in -16..15
<1>1. word \in Nat /\ Signed(v, 5) \in -16..15
  BY WordIs, SignedBits
<1>2. Abs(word) = word /\ SignOf(word) = 0
  BY <1>1 DEF Abs, SignOf
<1>3. QED BY <1>1, <1>2, Read16 DEF Reads

LEMMA Reads11 ==
  ASSUME NEW word \in Word
  PROVE  Reads(lin11_to_fl32(word), Mantissa11(word), Exponent11(word))
<1>1. \A s : s \in 13..23 => s \in 8..23
  OBVIOUS
<1>2. QED BY <1>1, Read11 DEF Reads

LEMMA ReadIs ==
  TypeOK => /\ Reads(Read, Mantissa, Exponent)
            /\ Mantissa \in Int /\ Exponent \in -16..15 /\ Read \in Float
<1> SUFFICES ASSUME TypeOK
             PROVE  /\ Reads(Read, Mantissa, Exponent)
                    /\ Mantissa \in Int /\ Exponent \in -16..15 /\ Read \in Float
  OBVIOUS
<1>1. register \in Word /\ mode \in 0..31
  BY DEF TypeOK
<1>2. Reads(Read, Mantissa, Exponent) /\ Mantissa \in Int /\ Exponent \in -16..15
  <2>1. CASE format = "L16"
    <3>1. Read = lin16_to_fl32(register, mode) /\ Mantissa = register /\ Exponent = Signed(mode, 5)
      BY <2>1 DEF Read, Mantissa, Exponent
    <3>2. /\ Reads(lin16_to_fl32(register, mode), register, Signed(mode, 5))
          /\ register \in Nat /\ Signed(mode, 5) \in -16..15
      BY <1>1, Reads16
    <3>3. QED BY <3>1, <3>2
  <2>2. CASE format # "L16"
    <3>1. Read = lin11_to_fl32(register) /\ Mantissa = Mantissa11(register) /\ Exponent = Exponent11(register)
      BY <2>2 DEF Read, Mantissa, Exponent, Mantissa11, Exponent11
    <3>2. Mantissa11(register) \in -1024..1023 /\ Exponent11(register) \in -16..15
      BY <1>1, Parts11
    <3>3. Reads(lin11_to_fl32(register), Mantissa11(register), Exponent11(register))
      BY <1>1, Reads11
    <3>4. QED BY <3>1, <3>2, <3>3
  <2>3. QED BY <2>1, <2>2
<1>3. Read \in Float
  BY <1>2, ReadsFloat
<1>4. QED BY <1>2, <1>3

LEMMA StartsAtNought == Normalized(0, 0, 0, 15) = Nought
BY DEF Normalized, Nought

LEMMA TypeStep == TypeOK /\ [Next]_vars => TypeOK'
<1> SUFFICES ASSUME TypeOK, [Next]_vars PROVE TypeOK'
  OBVIOUS
<1>1. Read \in Float
  BY ReadIs
<1>2. CASE GetVoltage
  BY <1>1, <1>2 DEF TypeOK, GetVoltage
<1>3. CASE GetLimit
  BY <1>1, <1>3 DEF TypeOK, GetLimit
<1>4. CASE SetVoltage
  <2>1. PICK high \in HighBits : register' = fl32_to_lin16(held, high, mode) % 65536
    BY <1>4 DEF SetVoltage
  <2>2. high \in {0, 1} /\ held \in Float /\ mode \in 0..31
    BY DEF TypeOK, HighBits
  <2> DEFINE W == fl32_to_lin16(held, high, mode)
             s == 150 - held.exp + Signed(mode, 5)
  <2>3. W \in Nat
    <3> HIDE DEF W, s
    <3>1. s = 150 - held.exp + Signed(mode, 5) /\ W = fl32_to_lin16(held, high, mode)
      BY DEF s, W
    <3>2. QED BY <2>2, <3>1, Write16
  <2> HIDE DEF W
  <2>4. W % 65536 \in Nat /\ W % 65536 < 65536
    BY <2>3
  <2>5. register' \in Word
    BY <2>1, <2>4, WordIs, PowerValues DEF W
  <2>6. UNCHANGED <<format, mode, long, held>> /\ stored' = held /\ fresh' = FALSE
    BY <1>4 DEF SetVoltage
  <2> HIDE DEF s
  <2>7. QED BY <2>5, <2>6 DEF TypeOK
<1>5. CASE SetLimit
  <2>1. register' = fl32_to_lin11(held) /\ held \in Float
    BY <1>5 DEF SetLimit, TypeOK
  <2>2. register' \in Word
    <3> DEFINE w == fl32_to_lin11(held)
               m == Mantissa11(w)
               e == Exponent11(w)
    <3>1. \A f \in Float : fl32_to_lin11(f) \in Word
      BY Write11
    <3>2. QED BY <2>1, <3>1
  <2>3. QED BY <1>5, <2>2 DEF TypeOK, SetLimit
<1>6. ASSUME NEW f \in IF format = "L16" THEN Floats16 ELSE Floats11, Choose(f) PROVE TypeOK'
  <2>1. f \in Float
    BY FormatsAssumption
  <2>2. QED BY <1>6, <2>1 DEF TypeOK, Choose
<1>7. CASE UNCHANGED vars
  BY <1>7 DEF TypeOK, vars
<1>8. QED BY <1>2, <1>3, <1>4, <1>5, <1>6, <1>7 DEF Next

(* The register is a word and what the caller holds is a float: no           *)
(* conversion leaves its range.                                            *)
THEOREM TypeCorrect == Spec => []TypeOK
<1>1. Init => TypeOK
  <2> SUFFICES ASSUME Init PROVE TypeOK
    OBVIOUS
  <2>1. held \in Float /\ stored \in Float \cup {NoFloat}
    BY StartsAtNought, NoughtFloat DEF Init
  <2>2. register \in Word /\ mode \in 0..31 /\ long \in {4, 8}
    <3>1. \/ format = "L16" /\ register \in Words16 /\ mode \in Modes
          \/ format = "L11" /\ register \in Words11 /\ mode = 0
      BY DEF Init
    <3>2. Words16 \subseteq Word /\ Words11 \subseteq Word /\ Modes \subseteq 0..31
      BY FormatsAssumption
    <3>3. long \in {4, 8}
      BY FormatsAssumption DEF Init
    <3>4. CASE format = "L16" /\ register \in Words16 /\ mode \in Modes
      BY <3>2, <3>3, <3>4
    <3>5. CASE format = "L11" /\ register \in Words11 /\ mode = 0
      <4>1. register \in Word
        BY <3>2, <3>5
      <4>2. QED BY <3>3, <3>5, <4>1
    <3>6. QED BY <3>1, <3>4, <3>5
  <2>3. QED BY <2>1, <2>2 DEF Init, TypeOK
<1>2. QED BY <1>1, TypeStep, PTL DEF Spec

(* The caller holds what the register is worth until one of them changes.   *)
AsRead == fresh => held = Read

LEMMA AsReadStep == AsRead /\ [Next]_vars => AsRead'
<1>1. GetVoltage \/ GetLimit => held' = Read /\ UNCHANGED <<format, mode, register>>
  BY DEF GetVoltage, GetLimit
<1>2. SetVoltage \/ SetLimit => fresh' = FALSE
  BY DEF SetVoltage, SetLimit
<1>3. \A f : Choose(f) => fresh' = FALSE
  BY DEF Choose
<1>4. UNCHANGED vars => UNCHANGED <<format, mode, register, held, fresh>>
  BY DEF vars
<1>5. UNCHANGED <<format, mode, register>> => Read' = Read
  BY DEF Read
<1>6. SUFFICES ASSUME AsRead, [Next]_vars PROVE AsRead'
  OBVIOUS
<1>7. CASE GetVoltage \/ GetLimit
  BY <1>1, <1>5, <1>7 DEF AsRead
<1>8. CASE SetVoltage \/ SetLimit \/ \E f : Choose(f)
  BY <1>2, <1>3, <1>8 DEF AsRead
<1>9. CASE UNCHANGED vars
  BY <1>4, <1>5, <1>6, <1>9 DEF AsRead
<1>10. QED BY <1>6, <1>7, <1>8, <1>9 DEF Next

(* A getter returns the value of the register without error: whatever word   *)
(* of 65536 the chip holds, and whatever exponent VOUT_MODE has.           *)
THEOREM GetsTheValue == Spec => []ReadsExactly
<1>1. Init => AsRead
  BY DEF Init, AsRead
<1>2. AsRead /\ [Next]_vars => AsRead'
  BY AsReadStep
<1>3. TypeOK /\ AsRead => ReadsExactly
  <2> SUFFICES ASSUME TypeOK, AsRead, fresh
               PROVE  IF Mantissa = 0
                        THEN held.exp = 0 /\ held.mant = 0
                        ELSE \E shift \in 0..23 : /\ Exponent + 150 = held.exp + shift
                                                  /\ Full(held) = Abs(Mantissa) * 2^shift
                                                  /\ held.sign = 1 <=> Mantissa < 0
    BY DEF ReadsExactly
  <2> DEFINE m == Mantissa
             e == Exponent
  <2>1. Reads(held, m, e) /\ m \in Int /\ e \in -16..15
    BY ReadIs DEF AsRead
  <2> HIDE DEF m, e
  <2>2. m = 0 => held.exp = 0 /\ held.mant = 0
    BY <2>1 DEF Reads, Nought
  <2>3. ASSUME m # 0
        PROVE  \E shift \in 0..23 : /\ e + 150 = held.exp + shift
                                    /\ Full(held) = Abs(m) * P(shift)
                                    /\ held.sign = 1 <=> m < 0
    <3>1. PICK s \in 8..23 : /\ held.sign = SignOf(m) /\ held.exp = 150 + e - s
                             /\ Full(held) = Abs(m) * P(s)
      BY <2>1, <2>3, ReadsParts, SMTT(30) DEF HasParts
    <3>2. SignOf(m) = 1 <=> m < 0
      BY <2>1 DEF SignOf
    <3>3. e + 150 = held.exp + s /\ s \in 0..23
      BY <2>1, <3>1
    <3>4. QED BY <3>1, <3>2, <3>3
  <2>4. QED BY <2>2, <2>3 DEF m, e, P
<1>4. QED BY <1>1, <1>2, <1>3, TypeCorrect, PTL DEF Spec


-----------------------------------------------------------------------------
(* No number of the format is nearer than the rounded one.                 *)
LEMMA NearWins ==
  ASSUME NEW M \in Nat, NEW s \in 1..25, NEW R, Near(M, R, s), NEW other \in {R - 1, R + 1}
  PROVE  /\ Abs(M - R * P(s)) <= Abs(M - other * P(s))
         /\ Abs(M - R * P(s)) = Abs(M - other * P(s)) => R % 2 = 0
<1> DEFINE h == P(s - 1)
           p == P(s)
           rp == R * p
           d == M - rp
           even == R % 2 = 0
<1>1. h \in Nat /\ h > 0 /\ p = 2 * h
  <2>1. s - 1 \in 0..25 /\ (s - 1) + 1 = s
    OBVIOUS
  <2>2. QED BY <2>1, PowerStep
<1>2. R \in Nat /\ d <= h /\ rp - M <= h /\ (d = h \/ rp - M = h => even)
  BY DEF Near
<1> HIDE DEF h, p
<1>3. rp \in Nat
  BY <1>1, <1>2
<1>4. other * p = rp + p \/ other * p = rp - p
  BY <1>1, <1>2
<1> HIDE DEF even, rp
<1>5. d \in Int /\ rp - M = -d
  BY <1>3
<1>6. -d <= h /\ d <= h /\ (d = h \/ -d = h => even)
  BY <1>2, <1>5
<1> DEFINE o == M - other * p
<1>7. o = d - p \/ o = d + p
  <2> DEFINE op == other * p
  <2>1. op = rp + p \/ op = rp - p
    BY <1>4
  <2> HIDE DEF op
  <2>2. M - op = d - p \/ M - op = d + p
    BY <1>1, <1>3, <2>1
  <2>3. QED BY <2>2 DEF op
<1> HIDE DEF o, d
<1>8. Abs(d) <= h /\ (Abs(d) = h => even) /\ o \in Int
  BY <1>1, <1>5, <1>6, <1>7 DEF Abs
<1>9. Abs(o) >= h
  BY <1>1, <1>5, <1>6, <1>7, <1>8 DEF Abs
<1>10. Abs(d) <= Abs(o) /\ (Abs(d) = Abs(o) => even)
  <2>1. Abs(d) \in Int /\ Abs(o) \in Int
    BY <1>5, <1>8 DEF Abs
  <2>2. QED BY <1>1, <1>8, <1>9, <2>1
<1>11. QED BY <1>10 DEF d, o, p, rp, even

(* Within which powers a float is rounded.                                 *)
LEMMA RoundedBounds ==
  ASSUME NEW M \in Nat, P(23) <= M, M < P(24), NEW s \in 1..24, NEW R, R = Rounded(M, s)
  PROVE  R \in Nat /\ R <= P(24 - s) /\ (s <= 23 => R >= P(23 - s))
<1> DEFINE q == M \div P(s)
           p == P(s)
           a == P(24 - s)
<1>1. /\ q \in Nat /\ q * p <= M /\ M < (q + 1) * p
      /\ R = q + 1 \/ R = q
  <2>1. s \in 1..25 /\ q = M \div P(s)
    OBVIOUS
  <2> HIDE DEF q
  <2>2. QED BY <2>1, RoundedIs
<1>2. p \in Nat /\ p > 0 /\ a \in Nat /\ P(24) = a * p
  <2>1. s \in 0..26 /\ 24 - s \in 0..26 /\ (24 - s) + s = 24
    OBVIOUS
  <2>2. P((24 - s) + s) = P(24 - s) * P(s)
    BY <2>1, PowerProduct
  <2>3. QED BY <2>1, <2>2, PowerType
<1> HIDE DEF q, p, a
<1>3. q < a
  <2>1. SUFFICES ASSUME a <= q PROVE FALSE
    BY <1>1, <1>2
  <2>2. a * p <= q * p
    BY <1>1, <1>2, <2>1
  <2>3. a * p \in Nat /\ q * p \in Nat
    BY <1>1, <1>2
  <2>4. QED BY <1>1, <1>2, <2>2, <2>3
<1>4. ASSUME s <= 23 PROVE q >= P(23 - s)
  <2> DEFINE b == P(23 - s)
  <2>1. b \in Nat /\ P(23) = b * p
    <3>1. s \in 0..26 /\ 23 - s \in 0..26 /\ (23 - s) + s = 23
      BY <1>4
    <3>2. P((23 - s) + s) = P(23 - s) * P(s)
      BY <3>1, PowerProduct
    <3>3. QED BY <3>1, <3>2, PowerType DEF p
  <2> HIDE DEF b
  <2>2. SUFFICES ASSUME q + 1 <= b PROVE FALSE
    BY <1>1, <2>1 DEF b
  <2>3. (q + 1) * p <= b * p
    BY <1>1, <1>2, <2>1, <2>2
  <2>4. (q + 1) * p \in Nat /\ b * p \in Nat
    BY <1>1, <1>2, <2>1
  <2>5. QED BY <1>1, <2>1, <2>3, <2>4
<1>5. R \in Nat /\ R <= a /\ R >= q
  BY <1>1, <1>2, <1>3
<1>6. ASSUME s <= 23 PROVE R >= P(23 - s)
  <2>1. s \in 0..26 /\ 23 - s \in 0..26
    BY <1>6
  <2>2. P(23 - s) \in Nat
    BY <2>1, PowerType
  <2>3. QED BY <1>1, <1>4, <1>5, <1>6, <2>2
<1>7. QED BY <1>5, <1>6 DEF a

(* A voltage that is not at the top becomes a word, without wrapping.      *)
LEMMA Fits16 ==
  ASSUME NEW f \in Float, f.sign = 0, NEW v \in 0..31, NEW s, s = 150 - f.exp + Signed(v, 5),
         s \in 8..24, ~ToTheTop(f, v), NEW R, R = Rounded(Full(f), s)
  PROVE  R \in Nat /\ R < P(16)
<1> DEFINE M == Full(f)
<1>1. M \in Nat /\ P(23) <= M /\ M < P(24) /\ M = f.mant + P(23)
  BY FloatIs, FullIs
<1>2. f.exp \in Int /\ f.mant \in Int /\ Signed(v, 5) \in Int
  <2>1. f.exp \in 0..255 /\ f.mant \in Nat
    BY FloatIs
  <2>2. Signed(v, 5) \in -16..15
    BY SignedBits
  <2>3. QED BY <2>1, <2>2
<1>3. R = Rounded(M, s)
  OBVIOUS
<1> HIDE DEF M
<1>4. R \in Nat /\ R <= P(24 - s)
  <2>1. s \in 1..24
    OBVIOUS
  <2>2. QED BY <1>1, <1>3, <2>1, RoundedBounds
<1>5. CASE s \in 9..24
  <2>1. 24 - s \in 0..26 /\ 15 \in (24 - s)..26
    BY <1>5
  <2>2. P(24 - s) <= P(15)
    BY <2>1, PowerGrows
  <2>3. QED BY <1>4, <2>1, <2>2, PowerValues, PowerType
<1>6. CASE s = 8
  <2>1. R <= 65536
    BY <1>4, <1>6, PowerValues
  <2>2. SUFFICES ASSUME R = 65536 PROVE FALSE
    BY <1>4, <2>1, PowerValues
  <2>3. Near(M, R, 8)
    <3>1. 8 \in 1..25 /\ R = Rounded(M, 8)
      BY <1>3, <1>6
    <3>2. QED BY <1>1, <3>1, RoundedNear
  <2>4. 65536 * 256 - M <= 128
    <3>1. R * P(8) - M <= P(8 - 1)
      BY <2>3 DEF Near
    <3>2. P(8) = 256 /\ P(8 - 1) = 128
      BY PowerValues
    <3>3. QED BY <2>2, <3>1, <3>2
  <2>5. f.mant >= P(23) - 128
    <3>1. P(23) = 8388608
      BY PowerValues
    <3>2. QED BY <1>1, <1>2, <2>4, <3>1
  <2>6. f.exp = 142 + Signed(v, 5)
    BY <1>2, <1>6
  <2>7. QED BY <2>5, <2>6 DEF ToTheTop, P
<1>7. s = 8 \/ s \in 9..24
  BY <1>2
<1>8. QED BY <1>5, <1>6, <1>7

(* Nearest16 and NearestOf11, of any float and number.                     *)
Away(f, m, s) == Abs(Full(f) - m * P(s))

Close16(f, m, e) ==
  LET s == e + 150 - f.exp
  IN  IF f.sign = 1 \/ s > 25 THEN m = 0
      ELSE IF s < 0 THEN m = 65535
      ELSE \A other \in {m - 1, m + 1} \cap Word :
             /\ Away(f, m, s) <= Away(f, other, s)
             /\ Away(f, m, s) = Away(f, other, s) => m % 2 = 0

LEMMA SetClose16 ==
  ASSUME NEW f \in Float, NEW v \in 0..31, ~ToTheTop(f, v), NEW w, w = fl32_to_lin16(f, 0, v) % 65536
  PROVE  Close16(f, w, Signed(v, 5))
<1> DEFINE M == Full(f)
           s == 150 - f.exp + Signed(v, 5)
           W == fl32_to_lin16(f, 0, v)
           R == Rounded(M, s)
<1>1. /\ s \in Int
      /\ f.sign = 1 => W = 0
      /\ f.sign = 0 => /\ s < 8 => W = 65535
                       /\ s > 24 => W = 0
                       /\ s \in 8..24 => W = R
  <2> HIDE DEF W, s
  <2>1. s = 150 - f.exp + Signed(v, 5) /\ W = fl32_to_lin16(f, 0, v) /\ 0 \in {0, 1}
    BY DEF s, W
  <2>2. QED BY <2>1, Write16 DEF R, M
<1>2. M \in Nat /\ P(23) <= M /\ M < P(24) /\ f.sign \in {0, 1}
  BY FloatParts
<1>3. Signed(v, 5) + 150 - f.exp = s
  <2>1. f.exp \in Int /\ Signed(v, 5) \in Int
    BY FloatParts, SignedParts
  <2>2. QED BY <2>1
<1>4. w = W % 65536
  OBVIOUS
<1>5. s \in 8..24 /\ f.sign = 0 => R \in Nat /\ R < 65536 /\ Near(M, R, s)
  <2>1. SUFFICES ASSUME s \in 8..24, f.sign = 0 PROVE R \in Nat /\ R < 65536 /\ Near(M, R, s)
    OBVIOUS
  <2>2. s = 150 - f.exp + Signed(v, 5) /\ R = Rounded(Full(f), s) /\ s \in 1..25
    BY <2>1
  <2> HIDE DEF s, R
  <2>3. R \in Nat /\ R < P(16)
    BY <2>1, <2>2, Fits16
  <2>4. Near(M, R, s)
    BY <1>2, <2>2, RoundedNear DEF M
  <2>5. QED BY <2>3, <2>4, PowerValues
<1> HIDE DEF M, s, W, R
<1> SUFFICES IF f.sign = 1 \/ s > 25 THEN w = 0
             ELSE IF s < 0 THEN w = 65535
             ELSE \A other \in {w - 1, w + 1} \cap Word :
                    /\ Away(f, w, s) <= Away(f, other, s)
                    /\ Away(f, w, s) = Away(f, other, s) => w % 2 = 0
  BY <1>3 DEF Close16
<1>6. CASE f.sign = 1 \/ s > 25
  BY <1>1, <1>2, <1>4, <1>6
<1>7. CASE f.sign = 0 /\ s < 0
  BY <1>1, <1>4, <1>7
<1>8. CASE f.sign = 0 /\ s \in 0..7
  <2>1. w = 65535
    BY <1>1, <1>4, <1>8
  <2>2. SUFFICES ASSUME NEW other \in {w - 1, w + 1} \cap Word
                 PROVE  Away(f, w, s) < Away(f, other, s)
    <3>1. \A other \in {w - 1, w + 1} \cap Word : Away(f, w, s) < Away(f, other, s)
      BY <2>2
    <3>2. \A m \in Int : Away(f, m, s) \in Int
      <4>1. P(s) \in Nat
        BY <1>8, PowerType
      <4>2. QED BY <1>2, <4>1 DEF Away, Abs, M
    <3>3. w \in Int
      BY <2>1
    <3>4. QED BY <1>8, <3>1, <3>2, <3>3
  <2>3. other = 65534
    BY <2>1, WordIs, PowerValues
  <2> DEFINE p == P(s)
  <2>4. p \in Nat /\ p > 0 /\ p <= 128
    <3>1. s \in 0..26 /\ 7 \in s..26
      BY <1>8
    <3>2. P(s) <= P(7)
      BY <3>1, PowerGrows
    <3>3. QED BY <3>1, <3>2, PowerType, PowerValues
  <2> HIDE DEF p
  <2>5. 65535 * p <= M
    <3>1. P(23) = 8388608
      BY PowerValues
    <3>2. 65535 * p <= 8388608
      BY <2>4
    <3>3. QED BY <1>2, <2>4, <3>1, <3>2
  <2>6. Abs(M - 65535 * p) < Abs(M - 65534 * p)
    BY <1>2, <2>4, <2>5 DEF Abs
  <2>7. QED BY <2>1, <2>3, <2>6 DEF Away, M, p
<1>9. CASE f.sign = 0 /\ s \in 8..24
  <2>1. R \in Nat /\ R < 65536 /\ Near(M, R, s)
    BY <1>5, <1>9
  <2>2. w = R
    BY <1>1, <1>4, <1>9, <2>1
  <2>3. ASSUME NEW other \in {w - 1, w + 1}
        PROVE  /\ Away(f, w, s) <= Away(f, other, s)
               /\ Away(f, w, s) = Away(f, other, s) => w % 2 = 0
    <3>1. s \in 1..25 /\ Near(M, w, s)
      BY <1>9, <2>1, <2>2
    <3>2. /\ Abs(M - w * P(s)) <= Abs(M - other * P(s))
          /\ Abs(M - w * P(s)) = Abs(M - other * P(s)) => w % 2 = 0
      BY <1>2, <3>1, NearWins
    <3>3. QED BY <3>2 DEF Away, M
  <2>4. QED BY <1>9, <2>3
<1>10. CASE f.sign = 0 /\ s = 25
  <2>1. w = 0
    BY <1>1, <1>4, <1>10
  <2>2. P(s) = 33554432 /\ P(24) = 16777216
    BY <1>10, PowerValues
  <2>3. ASSUME NEW other \in {w - 1, w + 1} \cap Word
        PROVE  Away(f, w, s) <= Away(f, other, s) /\ w % 2 = 0
    <3>1. other = 1
      BY <2>1, <2>3, WordIs
    <3>2. Abs(M - 0 * 33554432) <= Abs(M - 1 * 33554432)
      BY <1>2, <2>2 DEF Abs
    <3>3. QED BY <2>1, <2>2, <3>1, <3>2 DEF Away, M
  <2>4. QED BY <1>10, <2>3
<1>11. QED BY <1>1, <1>2, <1>6, <1>7, <1>8, <1>9, <1>10

-----------------------------------------------------------------------------
(* The steps of a float, and those below it.                               *)
LEMMA StepsNear ==
  ASSUME NEW f \in Float, Step(f) <= 25, NEW size, size = Full(f) \div P(Step(f))
  PROVE  /\ size \in Nat /\ size * P(Step(f)) <= Full(f) /\ Full(f) < (size + 1) * P(Step(f))
         /\ Steps(f) \in {size, size + 1} /\ Step(f) \in 14..25
         /\ Near(Full(f), Steps(f), Step(f))
<1> DEFINE M == Full(f)
           s == Step(f)
           S == Steps(f)
           R == Rounded(M, s)
<1>1. M \in Nat /\ P(23) <= M /\ M < P(24)
  BY FloatParts
<1>2. s \in 14..25
  BY StepsAre
<1>3. S = IF s > 24 THEN 0 ELSE R
  BY DEF Steps
<1>4. R = Rounded(M, s) /\ size = M \div P(s)
  OBVIOUS
<1> HIDE DEF M, s, S, R
<1>5. s \in 1..25
  BY <1>2
<1>6. /\ Near(M, R, s)
      /\ size \in Nat /\ size * P(s) <= M /\ M < (size + 1) * P(s)
      /\ R = size \/ R = size + 1
  BY <1>1, <1>4, <1>5, RoundedIs
<1>7. CASE s <= 24
  <2>1. S = R
    BY <1>2, <1>3, <1>7
  <2>2. QED BY <1>2, <1>6, <2>1 DEF M, s, S
<1>8. CASE s = 25
  <2>1. S = 0 /\ P(s) = 33554432 /\ P(s - 1) = 16777216 /\ M < 16777216
    BY <1>1, <1>3, <1>8, PowerValues
  <2>2. Near(M, S, s)
    BY <1>1, <2>1 DEF Near
  <2>3. size = 0
    <3>1. SUFFICES ASSUME size >= 1 PROVE FALSE
      BY <1>6
    <3>2. size * P(s) >= 33554432
      BY <1>6, <2>1, <3>1
    <3>3. QED BY <1>1, <1>6, <2>1, <3>2
  <2>4. QED BY <1>2, <1>6, <2>1, <2>2, <2>3 DEF M, s, S
<1>9. QED BY <1>2, <1>7, <1>8

(* What was written, in units of the last bit of the float.                *)
LEMMA Units11 ==
  ASSUME NEW f \in Float, ~TooLarge(f), NEW w, w = fl32_to_lin11(f),
         NEW m, m = Mantissa11(w), NEW e, e = Exponent11(w), NEW t, t = e + 150 - f.exp
  PROVE  /\ Steps(f) = 0 => m = 0
         /\ Steps(f) > 0 => /\ m # 0 /\ SignOf(m) = f.sign /\ t \in 13..25 /\ Step(f) \in 14..24
                            /\ Abs(m) * P(t) = Steps(f) * P(Step(f))
<1> DEFINE s == Step(f)
           S == Steps(f)
           L == Least(f)
           a == Abs(m)
<1>1. Steps(f) = 0 => m = 0
  BY Write11
<1>2. ASSUME S > 0
      PROVE  m # 0 /\ SignOf(m) = f.sign /\ t \in 13..25 /\ s \in 14..24 /\ a * P(t) = S * P(s)
  <2>1. /\ m # 0 /\ SignOf(m) = f.sign /\ m \in -1024..1023 /\ e \in -16..15
        /\ \/ e = L /\ a = S
           \/ e = L + 1 /\ 2 * a = S
           \/ e = L - 1 /\ a = 2 * S
    BY <1>2, Write11
  <2>2. s \in 14..24
    <3>1. s \in 14..134
      BY StepsAre
    <3>2. s <= 24
      BY <1>2, <3>1 DEF Steps
    <3>3. QED BY <3>1, <3>2
  <2>3. L \in Int /\ s = L + 150 - f.exp /\ S \in Nat /\ f.exp \in Int
    <3>1. L \in -16..119 /\ S \in 0..1024 /\ s = L + 150 - f.exp
      BY StepsAre
    <3>2. QED BY <3>1, FloatParts
  <2>4. a \in Nat
    BY <2>1 DEF Abs
  <2> HIDE DEF a, s, S, L
  <2>5. CASE e = L /\ a = S
    <3>1. t = s
      BY <2>2, <2>3, <2>5
    <3>2. QED BY <2>1, <2>2, <2>5, <3>1
  <2>6. CASE e = L + 1 /\ 2 * a = S
    <3>1. t = s + 1 /\ s \in 0..25
      BY <2>2, <2>3, <2>6
    <3>2. P(t) = 2 * P(s) /\ P(s) \in Nat
      BY <3>1, PowerStep
    <3>3. a * P(t) = S * P(s)
      <4> DEFINE p == P(s)
      <4>1. P(t) = 2 * p /\ p \in Nat
        BY <3>2
      <4> HIDE DEF p
      <4>2. a * (2 * p) = (2 * a) * p
        BY <2>4, <4>1
      <4>3. QED BY <2>6, <4>1, <4>2 DEF p
    <3>4. t \in 13..25
      BY <2>2, <3>1
    <3>5. QED BY <2>1, <2>2, <3>3, <3>4
  <2>7. CASE e = L - 1 /\ a = 2 * S
    <3>1. t + 1 = s /\ t \in 0..25 /\ t \in 13..25
      BY <2>2, <2>3, <2>7
    <3>2. P(s) = 2 * P(t) /\ P(t) \in Nat
      BY <3>1, PowerStep
    <3>3. a * P(t) = S * P(s)
      <4> DEFINE p == P(t)
      <4>1. P(s) = 2 * p /\ p \in Nat
        BY <3>2
      <4> HIDE DEF p
      <4>2. (2 * S) * p = S * (2 * p)
        BY <2>3, <4>1
      <4>3. QED BY <2>7, <4>1, <4>2 DEF p
    <3>4. QED BY <2>1, <2>2, <3>1, <3>3
  <2>8. QED BY <2>1, <2>5, <2>6, <2>7
<1>3. QED BY <1>1, <1>2

Close11(f, m, e) ==
  LET step == IF f.exp >= 120 THEN 14 ELSE 134 - f.exp
      shift == e + 150 - f.exp
      size == Full(f) \div P(step)
      largest == \/ f.exp > 151
                 \/ f.exp = 151 /\ f.sign = 0 /\ Full(f) >= 1023 * P(14)
  IN  IF largest THEN e = 15 /\ m = IF f.sign = 1 THEN -1024 ELSE 1023
      ELSE IF step > 25 THEN m = 0
      ELSE /\ m # 0 => m < 0 <=> f.sign = 1
           /\ \A other \in {size, size + 1} :
                Away(f, Abs(m), IF m = 0 THEN 0 ELSE shift) <= Away(f, other, step)

LEMMA SetClose11 ==
  ASSUME NEW f \in Float, NEW w, w = fl32_to_lin11(f),
         NEW m, m = Mantissa11(w), NEW e, e = Exponent11(w)
  PROVE  Close11(f, m, e)
<1> DEFINE M == Full(f)
           s == Step(f)
           S == Steps(f)
           t == e + 150 - f.exp
           size == M \div P(s)
           largest == \/ f.exp > 151
                      \/ f.exp = 151 /\ f.sign = 0 /\ M >= 1023 * P(14)
           top == IF f.sign = 1 THEN -1024 ELSE 1023
<1>1. M \in Nat /\ P(23) <= M /\ M < P(24) /\ f.sign \in {0, 1} /\ f.exp \in Int
  BY FloatParts
<1>2. m \in -1024..1023 /\ e \in -16..15 /\ (TooLarge(f) => e = 15 /\ m = top)
  BY Write11 DEF Last
<1>3. s \in 14..134 /\ S \in 0..1024 /\ (f.exp >= 120 => s = 14)
  BY StepsAre
<1>4. s <= 25 => /\ size \in Nat /\ size * P(s) <= M /\ M < (size + 1) * P(s)
                 /\ S \in {size, size + 1} /\ s \in 14..25 /\ Near(M, S, s)
  BY StepsNear
<1>5. ~TooLarge(f) =>
        /\ S = 0 => m = 0
        /\ S > 0 => m # 0 /\ SignOf(m) = f.sign /\ t \in 13..25 /\ Abs(m) * P(t) = S * P(s)
  <2>1. t = e + 150 - f.exp
    OBVIOUS
  <2> HIDE DEF t
  <2>2. QED BY <2>1, Units11
<1>6. ~TooLarge(f) /\ S > 0 => e = Least(f) \/ e = Least(f) + 1 \/ e = Least(f) - 1
  BY Write11
<1>7. SUFFICES IF largest THEN e = 15 /\ m = top
               ELSE IF s > 25 THEN m = 0
               ELSE /\ m # 0 => m < 0 <=> f.sign = 1
                    /\ \A other \in {size, size + 1} :
                         Away(f, Abs(m), IF m = 0 THEN 0 ELSE t) <= Away(f, other, s)
  BY DEF Close11, Step
<1>8. f.exp = 151 => (S = 1024 => M >= 1023 * P(14)) /\ (M >= 1023 * P(14) => S >= 1023)
  <2>1. SUFFICES ASSUME f.exp = 151
                 PROVE  (S = 1024 => M >= 1023 * P(14)) /\ (M >= 1023 * P(14) => S >= 1023)
    OBVIOUS
  <2>2. s = 14 /\ P(14) = 16384
    BY <1>3, <2>1, PowerValues
  <2> HIDE DEF M, s, S, size
  <2>3. size \in Nat /\ size * 16384 <= M /\ M < (size + 1) * 16384 /\ S \in {size, size + 1}
    BY <1>4, <2>2
  <2>4. QED BY <1>1, <2>2, <2>3
<1>9. TooLarge(f) => largest
  BY <1>8 DEF TooLarge
<1>10. CASE largest
  <2>1. CASE TooLarge(f)
    BY <1>2, <1>10, <2>1
  <2>2. CASE ~TooLarge(f)
    <3>1. f.exp = 151 /\ f.sign = 0 /\ S = 1023
      <4>1. f.exp = 151 /\ f.sign = 0 /\ M >= 1023 * P(14)
        BY <1>1, <1>10, <2>2 DEF TooLarge
      <4>2. S # 1024
        BY <2>2, <4>1 DEF TooLarge
      <4>3. S >= 1023
        BY <1>8, <4>1
      <4>4. QED BY <1>3, <4>1, <4>2, <4>3
    <3>2. /\ m # 0 /\ SignOf(m) = 0
          /\ \/ e = Least(f) /\ Abs(m) = 1023
             \/ e = Least(f) + 1 /\ 2 * Abs(m) = 1023
             \/ e = Least(f) - 1 /\ Abs(m) = 2 * 1023
      BY <2>2, <3>1, Write11
    <3>3. m > 0 /\ Abs(m) = m
      BY <1>2, <3>2 DEF SignOf, Abs
    <3>4. Least(f) = 15
      BY <3>1 DEF Least
    <3>5. e = 15 /\ m = 1023
      BY <1>2, <3>2, <3>3, <3>4
    <3>6. QED BY <1>10, <3>1, <3>5
  <2>3. QED BY <2>1, <2>2
<1>11. CASE ~largest /\ s > 25
  <2>1. ~TooLarge(f)
    BY <1>9, <1>11
  <2>2. S = 0
    BY <1>3, <1>11 DEF Steps
  <2>3. m = 0
    BY <1>5, <2>1, <2>2
  <2> HIDE DEF M, s, S, t, size, largest, top
  <2>4. QED BY <1>11, <2>3
<1>12. CASE ~largest /\ s <= 25
  <2>1. ~TooLarge(f) /\ s \in 14..25
    BY <1>3, <1>9, <1>12
  <2>2. m # 0 => (m < 0 <=> f.sign = 1)
    <3>1. ASSUME m # 0 PROVE S > 0
      BY <1>3, <1>5, <2>1, <3>1
    <3>2. m # 0 => SignOf(m) = f.sign
      BY <1>5, <2>1, <3>1
    <3>3. QED BY <1>1, <1>2, <3>2 DEF SignOf
  <2> HIDE DEF largest, top
  <2>3. Away(f, Abs(m), IF m = 0 THEN 0 ELSE t) = Abs(M - S * P(s))
    <3>1. CASE S = 0
      <4>1. m = 0 /\ P(0) = 1 /\ P(s) \in Nat
        BY <1>5, <2>1, <3>1, PowerValues, PowerType
      <4>2. Abs(0) = 0
        BY DEF Abs
      <4>3. Away(f, 0, 0) = Abs(M - 0 * 1)
        BY <4>1 DEF Away
      <4>4. M - 0 * 1 = M - S * P(s)
        BY <1>1, <3>1, <4>1
      <4>5. QED BY <4>1, <4>2, <4>3, <4>4
    <3>2. CASE S > 0
      <4>1. m # 0 /\ Abs(m) * P(t) = S * P(s)
        BY <1>5, <2>1, <3>2
      <4>2. QED BY <4>1 DEF Away
    <3>3. QED BY <1>3, <3>1, <3>2
  <2>4. ASSUME NEW other \in {size, size + 1}
        PROVE  Abs(M - S * P(s)) <= Abs(M - other * P(s))
    <3>1. size \in Nat /\ S \in {size, size + 1} /\ Near(M, S, s)
      BY <1>4, <2>1
    <3> HIDE DEF M, S, s, size
    <3>2. CASE other = S
      <4>1. P(s) \in Nat /\ S \in Nat
        <5>1. s \in 0..26
          BY <2>1
        <5>2. QED BY <3>1, <5>1, PowerType
      <4>2. Abs(M - S * P(s)) \in Int
        BY <1>1, <4>1 DEF Abs
      <4>3. QED BY <3>2, <4>2
    <3>3. CASE other # S
      <4>1. other \in {S - 1, S + 1} /\ s \in 1..25
        BY <2>1, <2>4, <3>1, <3>3
      <4>2. QED BY <1>1, <3>1, <4>1, NearWins
    <3>4. QED BY <3>2, <3>3
  <2>5. ASSUME NEW other \in {size, size + 1}
        PROVE  Away(f, Abs(m), IF m = 0 THEN 0 ELSE t) <= Away(f, other, s)
    <3>1. Away(f, other, s) = Abs(M - other * P(s))
      BY DEF Away
    <3>2. QED BY <2>3, <2>4, <2>5, <3>1
  <2>6. ~(s > 25)
    BY <2>1
  <2> HIDE DEF M, s, S, t, size
  <2>7. QED BY <1>12, <2>2, <2>5, <2>6
<1>13. s > 25 \/ s <= 25
  BY <1>3
<1>14. QED BY <1>10, <1>11, <1>12, <1>13

-----------------------------------------------------------------------------
(* No voltage that the caller writes rounds up to 2^16.                    *)
NoneToTheTop == \A f \in Floats16, v \in Modes : ~ToTheTop(f, v)

(* What was read is a word, so it does not.                                *)
LEMMA ReadBelowTop ==
  ASSUME NEW word \in Word, NEW v \in 0..31
  PROVE  ~ToTheTop(lin16_to_fl32(word, v), v)
<1> DEFINE g == lin16_to_fl32(word, v)
           e == Signed(v, 5)
<1>1. Reads(g, word, e) /\ word \in Nat /\ word < 65536 /\ e \in -16..15
  BY Reads16, WordIs, PowerValues
<1>2. ToTheTop(g, v) <=> g.sign = 0 /\ g.exp = 142 + e /\ g.mant >= P(23) - 128
  BY DEF ToTheTop, P
<1> HIDE DEF g, e
<1>3. CASE word = 0
  BY <1>1, <1>2, <1>3 DEF Reads, Nought, g
<1>4. CASE word # 0
  <2>1. g \in Float /\ word \in Int
    BY <1>1, <1>4, ReadsParts
  <2>2. PICK s \in 8..23 : g.exp = 150 + e - s /\ Full(g) = Abs(word) * P(s)
    <3>1. Reads(g, word, e) /\ word \in Int /\ e \in -16..15 /\ word # 0
      BY <1>1, <1>4
    <3>2. HasParts(g, word, e)
      BY <3>1, ReadsParts
    <3>3. QED BY <3>2 DEF HasParts
  <2>3. Abs(word) = word
    BY <1>1 DEF Abs
  <2>4. Full(g) = g.mant + P(23) /\ g.mant \in Nat
    BY <2>1, FloatParts
  <2>5. SUFFICES ASSUME g.exp = 142 + e, g.mant >= P(23) - 128 PROVE FALSE
    BY <1>2 DEF g
  <2>6. s = 8
    BY <1>1, <2>2, <2>5
  <2>7. Full(g) = word * 256 /\ P(23) = 8388608
    BY <2>2, <2>3, <2>6, PowerValues
  <2>8. QED BY <1>1, <2>4, <2>5, <2>7
<1>5. QED BY <1>3, <1>4

(* The register holds the conversion of what was last written to it.       *)
Settled ==
  /\ format = "L16" => mode \in Modes /\ ~ToTheTop(held, mode)
  /\ stored # NoFloat /\ Narrow =>
       /\ stored \in Float
       /\ format = "L16" => /\ ~ToTheTop(stored, mode)
                            /\ register = fl32_to_lin16(stored, 0, mode) % 65536
       /\ format # "L16" => register = fl32_to_lin11(stored)

LEMMA SettledStep ==
  ASSUME NoneToTheTop
  PROVE  TypeOK /\ Settled /\ [Next]_vars => Settled'
<1> SUFFICES ASSUME TypeOK, Settled, [Next]_vars PROVE Settled'
  OBVIOUS
<1>1. CASE GetVoltage \/ GetLimit
  <2>1. held' = Read /\ UNCHANGED <<format, mode, long, register, stored>>
    BY <1>1 DEF GetVoltage, GetLimit
  <2>2. format = "L16" => ~ToTheTop(Read, mode)
    BY ReadBelowTop DEF TypeOK, Read
  <2>3. QED BY <2>1, <2>2 DEF Settled, Narrow
<1>2. CASE SetVoltage
  <2>1. /\ format = "L16" /\ stored' = held /\ UNCHANGED <<format, mode, long, held>>
        /\ \E high \in HighBits : register' = fl32_to_lin16(held, high, mode) % 65536
    BY <1>2 DEF SetVoltage
  <2>2. Narrow => register' = fl32_to_lin16(held, 0, mode) % 65536
    BY <2>1 DEF Narrow, HighBits
  <2>3. held \in Float
    BY DEF TypeOK
  <2>4. QED BY <2>1, <2>2, <2>3 DEF Settled, Narrow
<1>3. CASE SetLimit
  <2>1. /\ format = "L11" /\ stored' = held /\ UNCHANGED <<format, mode, long, held>>
        /\ register' = fl32_to_lin11(held)
    BY <1>3 DEF SetLimit
  <2>2. held \in Float
    BY DEF TypeOK
  <2>3. QED BY <2>1, <2>2 DEF Settled, Narrow
<1>4. ASSUME NEW f \in IF format = "L16" THEN Floats16 ELSE Floats11, Choose(f) PROVE Settled'
  <2>1. held' = f /\ UNCHANGED <<format, mode, long, register, stored>>
    BY <1>4 DEF Choose
  <2>2. format = "L16" => ~ToTheTop(f, mode)
    BY <1>4 DEF NoneToTheTop, Settled
  <2>3. QED BY <2>1, <2>2 DEF Settled, Narrow
<1>5. CASE UNCHANGED vars
  BY <1>5 DEF vars, Settled, Narrow
<1>6. QED BY <1>1, <1>2, <1>3, <1>4, <1>5 DEF Next

LEMMA SettledFirst == Init => Settled
<1> SUFFICES ASSUME Init PROVE Settled
  OBVIOUS
<1>1. stored = NoFloat /\ held = Nought
  BY StartsAtNought DEF Init
<1>2. format = "L16" => mode \in Modes
  BY DEF Init
<1>3. \A v \in 0..31 : ~ToTheTop(Nought, v)
  BY SignedParts DEF ToTheTop, Nought
<1>4. Modes \subseteq 0..31
  BY FormatsAssumption
<1>5. format = "L16" => mode \in Modes /\ ~ToTheTop(Nought, mode)
  <2> DEFINE five == 0..31
  <2>1. Modes \subseteq five /\ \A v \in five : ~ToTheTop(Nought, v)
    BY <1>3, <1>4
  <2> HIDE DEF five
  <2>2. QED BY <1>2, <2>1
<1>6. QED BY <1>1, <1>5 DEF Settled

LEMMA SettledNearest == TypeOK /\ Settled => WritesNearest
<1> SUFFICES ASSUME TypeOK, Settled, Narrow, stored # NoFloat
             PROVE  IF format = "L16" THEN Nearest16(register) ELSE NearestOf11(Mantissa)
  BY DEF WritesNearest
<1>1. stored \in Float /\ mode \in 0..31 /\ register \in Word
  BY DEF Settled, TypeOK
<1>2. CASE format = "L16"
  <2>1. ~ToTheTop(stored, mode) /\ register = fl32_to_lin16(stored, 0, mode) % 65536
    BY <1>2 DEF Settled
  <2>2. Close16(stored, register, Signed(mode, 5))
    BY <1>1, <2>1, SetClose16
  <2>3. Exponent = Signed(mode, 5)
    BY <1>2 DEF Exponent
  <2>4. Close16(stored, register, Exponent)
    BY <2>2, <2>3
  <2>5. Nearest16(register)
    BY <2>4 DEF Nearest16, Close16, Distance, Away, P
  <2>6. QED BY <1>2, <2>5
<1>3. CASE format # "L16"
  <2>1. register = fl32_to_lin11(stored)
    BY <1>3 DEF Settled
  <2>2. Close11(stored, Mantissa11(register), Exponent11(register))
    BY <1>1, <2>1, SetClose11
  <2>3. Mantissa = Mantissa11(register) /\ Exponent = Exponent11(register)
    BY <1>3 DEF Mantissa, Exponent, Mantissa11, Exponent11
  <2>4. Close11(stored, Mantissa, Exponent)
    BY <2>2, <2>3
  <2>5. NearestOf11(Mantissa)
    BY <2>4 DEF NearestOf11, Close11, Distance, Away, P
  <2>6. QED BY <1>3, <2>5
<1>4. QED BY <1>2, <1>3

(* What a setter writes is the number of the format that is nearest to the   *)
(* float, a voltage on a tie the even one, and the first or the last number  *)
(* of the format when the float is out of its range: for every float, but    *)
(* for the voltages that round up to 2^16.                                 *)
THEOREM SetsTheNearest ==
  ASSUME NoneToTheTop
  PROVE  Spec => []WritesNearest
<1>1. TypeOK /\ Settled /\ [Next]_vars => Settled'
  BY SettledStep
<1>2. QED BY <1>1, SettledFirst, SettledNearest, TypeCorrect, PTL DEF Spec

-----------------------------------------------------------------------------
(* A multiple of 2^s is not rounded.                                       *)
LEMMA Exact ==
  ASSUME NEW K \in Nat, NEW s \in 1..25, NEW M, M = K * P(s)
  PROVE  Rounded(M, s) = K
<1> DEFINE R == Rounded(M, s)
           h == P(s - 1)
           p == P(s)
<1>1. h \in Nat /\ h > 0 /\ p = 2 * h
  <2>1. s - 1 \in 0..25 /\ (s - 1) + 1 = s
    OBVIOUS
  <2>2. QED BY <2>1, PowerStep
<1>2. Near(M, R, s)
  <2>1. M \in Nat
    BY <1>1
  <2> HIDE DEF R
  <2>2. QED BY <2>1, RoundedNear DEF R
<1>3. R \in Nat /\ M - R * p <= h /\ R * p - M <= h /\ M = K * p
  BY <1>2 DEF Near
<1> HIDE DEF R, h, p
<1>4. R = K
  <2>1. CASE R > K
    <3>1. R * p >= (K + 1) * p /\ (K + 1) * p = K * p + p /\ R * p \in Nat /\ K * p \in Nat
      BY <1>1, <1>3, <2>1
    <3>2. QED BY <1>1, <1>3, <3>1
  <2>2. CASE R < K
    <3>1. K * p >= (R + 1) * p /\ (R + 1) * p = R * p + p /\ R * p \in Nat /\ K * p \in Nat
      BY <1>1, <1>3, <2>2
    <3>2. QED BY <1>1, <1>3, <3>1
  <2>3. QED BY <1>3, <2>1, <2>2
<1>5. QED BY <1>4 DEF R

(* The larger a number, the less it is shifted to 24 bits, and there is one  *)
(* way to shift it.                                                        *)
LEMMA ShiftOrder ==
  ASSUME NEW a \in Nat, NEW b \in Nat, a <= b, NEW i \in 0..25, NEW j \in 0..25,
         P(23) <= a * P(i), b * P(j) < P(24)
  PROVE  j <= i
<1> SUFFICES ASSUME i < j PROVE FALSE
  OBVIOUS
<1> DEFINE p == P(i)
           q == P(j)
<1>1. p \in Nat /\ q \in Nat /\ 2 * p <= q
  <2>1. i + 1 \in 0..26 /\ j \in (i + 1)..26 /\ j \in 0..26
    OBVIOUS
  <2>2. P(i + 1) = 2 * P(i) /\ P(i + 1) <= P(j)
    BY <2>1, PowerStep, PowerGrows
  <2>3. QED BY <2>1, <2>2, PowerType
<1>2. P(23) <= a * p /\ b * q < P(24) /\ P(24) = 2 * P(23) /\ P(23) \in Nat
  BY PowerStep, PowerValues
<1> HIDE DEF p, q
<1>3. a * (2 * p) = 2 * (a * p) /\ a * p \in Nat /\ b * q \in Nat /\ a * q \in Nat
  BY <1>1
<1>4. a * (2 * p) <= a * q /\ a * q <= b * q
  BY <1>1
<1>5. QED BY <1>2, <1>3, <1>4

LEMMA ShiftUnique ==
  ASSUME NEW a \in Nat, NEW i \in 0..25, NEW j \in 0..25,
         P(23) <= a * P(i), a * P(i) < P(24), P(23) <= a * P(j), a * P(j) < P(24)
  PROVE  i = j
<1>1. a <= a
  OBVIOUS
<1>2. j <= i
  BY <1>1, ShiftOrder
<1>3. i <= j
  BY <1>1, ShiftOrder
<1>4. QED BY <1>2, <1>3

LEMMA SameFloat ==
  ASSUME NEW f \in Float, NEW g \in Float, f.sign = g.sign, f.exp = g.exp, Full(f) = Full(g)
  PROVE  f = g
<1> DEFINE top == 2^23 - 1
           exps == 0..255
<1>1. Float = [sign : {0, 1}, exp : exps, mant : 0..top]
  BY DEF Float
<1> HIDE DEF top, exps
<1>2. f = [sign |-> f.sign, exp |-> f.exp, mant |-> f.mant] /\ g = [sign |-> g.sign, exp |-> g.exp, mant |-> g.mant]
  BY <1>1
<1>3. f.mant = g.mant
  <2>1. f.mant \in Nat /\ g.mant \in Nat /\ P(23) \in Nat
    BY FloatParts, PowerType
  <2>2. QED BY <2>1, FullIs
<1>4. QED BY <1>2, <1>3

(* A voltage that was read is written back as the same word.               *)
LEMMA RoundTrip16 ==
  ASSUME NEW word \in Word, NEW v \in 0..31
  PROVE  fl32_to_lin16(lin16_to_fl32(word, v), 0, v) % 65536 = word
<1> DEFINE g == lin16_to_fl32(word, v)
           e == Signed(v, 5)
           s == 150 - g.exp + e
           W == fl32_to_lin16(g, 0, v)
           R == Rounded(Full(g), s)
<1>1. Reads(g, word, e) /\ word \in Nat /\ word < 65536 /\ e \in -16..15
  BY Reads16, WordIs, PowerValues
<1>2. g \in Float
  <2>1. word \in Int
    BY <1>1
  <2> HIDE DEF g, e
  <2>2. QED BY <1>1, <2>1, ReadsFloat
<1>3. /\ s \in Int
      /\ g.sign = 0 => (s > 24 => W = 0) /\ (s \in 8..24 => W = R)
  <2>1. s = 150 - g.exp + Signed(v, 5) /\ W = fl32_to_lin16(g, 0, v) /\ 0 \in {0, 1}
    OBVIOUS
  <2> HIDE DEF g, W, s
  <2>2. QED BY <1>2, <2>1, Write16 DEF R
<1>4. R = Rounded(Full(g), s) /\ s = 150 - g.exp + e
  OBVIOUS
<1>5. SUFFICES W % 65536 = word
  OBVIOUS
<1> HIDE DEF g, e, s, W, R
<1>6. CASE word = 0
  <2>1. g.sign = 0 /\ g.exp = 0
    BY <1>1, <1>6 DEF Reads, Nought
  <2>2. s > 24
    BY <1>1, <1>4, <2>1
  <2>3. W = 0
    BY <1>3, <2>1, <2>2
  <2>4. QED BY <1>6, <2>3
<1>7. CASE word # 0
  <2>1. word \in Int
    BY <1>1
  <2>2. PICK r \in 8..23 : g.sign = SignOf(word) /\ g.exp = 150 + e - r /\ Full(g) = Abs(word) * P(r)
    <3>1. HasParts(g, word, e)
      BY <1>1, <1>7, <2>1, ReadsParts
    <3>2. QED BY <3>1 DEF HasParts
  <2>3. g.sign = 0 /\ Full(g) = word * P(r)
    BY <1>1, <2>2 DEF SignOf, Abs
  <2>4. r = s
    BY <1>1, <1>4, <2>2
  <2>5. s \in 8..24 /\ s \in 1..25
    BY <2>4
  <2>6. R = word
    BY <1>1, <1>4, <2>3, <2>4, <2>5, Exact
  <2>7. W = word
    BY <1>3, <2>3, <2>5, <2>6
  <2>8. QED BY <1>1, <2>7
<1>8. QED BY <1>6, <1>7

(* What is read back of a float that was written to a Linear11 register:    *)
(* the float with its steps instead of its last bits, or the last number.  *)
Kept(f, g) ==
  /\ g \in Float
  /\ TooLarge(f) => /\ g.sign = f.sign
                    /\ f.sign = 0 => g.exp = 151 /\ Full(g) = 1023 * P(14)
                    /\ f.sign = 1 => g.exp = 152 /\ Full(g) = P(23)
  /\ ~TooLarge(f) /\ Steps(f) = 0 => g = Nought
  /\ ~TooLarge(f) /\ Steps(f) > 0 =>
       /\ g.sign = f.sign /\ Step(f) \in 14..24
       /\ \/ g.exp = f.exp /\ Full(g) = Steps(f) * P(Step(f))
          \/ g.exp = f.exp + 1 /\ Full(g) = P(23) /\ Steps(f) * P(Step(f)) = P(24)

LEMMA Back11 ==
  ASSUME NEW f \in Float, NEW g, g = lin11_to_fl32(fl32_to_lin11(f))
  PROVE  Kept(f, g)
<1> DEFINE w == fl32_to_lin11(f)
           m == Mantissa11(w)
           e == Exponent11(w)
           a == Abs(m)
           S == Steps(f)
           s == Step(f)
           V == S * P(s)
           t == e + 150 - f.exp
<1>1. /\ w \in Word /\ m \in -1024..1023 /\ e \in -16..15
      /\ TooLarge(f) => e = 15 /\ m = Last(f)
  BY Write11
<1>2. Reads(g, m, e) /\ m \in Int
  <2>1. g = lin11_to_fl32(w)
    OBVIOUS
  <2> HIDE DEF w
  <2>2. QED BY <1>1, <2>1, Reads11
<1>3. /\ ~TooLarge(f) /\ S = 0 => m = 0
      /\ ~TooLarge(f) /\ S > 0 => /\ m # 0 /\ SignOf(m) = f.sign /\ t \in 13..25 /\ s \in 14..24
                                  /\ a * P(t) = V
  <2>1. w = fl32_to_lin11(f) /\ m = Mantissa11(w) /\ e = Exponent11(w) /\ t = e + 150 - f.exp
    OBVIOUS
  <2> HIDE DEF w, m, e, t
  <2>2. QED BY <2>1, Units11
<1>4. f.sign \in {0, 1} /\ f.exp \in Int /\ Full(f) \in Nat /\ P(23) <= Full(f) /\ Full(f) < P(24)
  BY FloatParts
<1>5. S \in 0..1024 /\ (s <= 24 => S = Rounded(Full(f), s))
  BY StepsAre DEF Steps
<1>6. m = Mantissa11(w) /\ t = e + 150 - f.exp
  OBVIOUS
<1> HIDE DEF w, m, e, S, s, t
<1>7. g \in Float
  BY <1>1, <1>2, ReadsFloat
<1>8. m # 0 => \E r \in 8..23 : g.sign = SignOf(m) /\ g.exp = 150 + e - r /\ Full(g) = a * P(r)
  <2>1. SUFFICES ASSUME m # 0
                 PROVE  \E r \in 8..23 : g.sign = SignOf(m) /\ g.exp = 150 + e - r /\ Full(g) = a * P(r)
    OBVIOUS
  <2>2. Reads(g, m, e) /\ m \in Int /\ e \in -16..15 /\ m # 0
    BY <1>1, <1>2, <2>1
  <2>3. HasParts(g, m, e)
    BY <2>2, ReadsParts
  <2>4. QED BY <2>3 DEF HasParts, a
<1>9. P(23) <= Full(g) /\ Full(g) < P(24) /\ a \in Nat
  BY <1>2, <1>7, FloatParts DEF Abs
<1> HIDE DEF a
<1>10. ASSUME TooLarge(f)
       PROVE  /\ g.sign = f.sign
              /\ f.sign = 0 => g.exp = 151 /\ Full(g) = 1023 * P(14)
              /\ f.sign = 1 => g.exp = 152 /\ Full(g) = P(23)
  <2>1. e = 15 /\ m = IF f.sign = 1 THEN -1024 ELSE 1023
    BY <1>1, <1>10 DEF Last
  <2>2. m # 0
    BY <1>4, <2>1
  <2>3. PICK r \in 8..23 : g.sign = SignOf(m) /\ g.exp = 150 + e - r /\ Full(g) = a * P(r)
    BY <1>8, <2>2
  <2>4. r \in 0..25 /\ 13 \in 0..25 /\ 14 \in 0..25
    BY <2>3
  <2>5. CASE f.sign = 0
    <3>1. m = 1023
      BY <2>1, <2>5
    <3>2. SignOf(m) = 0 /\ a = 1023
      BY <3>1 DEF SignOf, Abs, a
    <3>3. P(23) <= a * P(14) /\ a * P(14) < P(24)
      BY <3>2, PowerValues
    <3>4. r = 14
      BY <1>9, <2>3, <2>4, <3>3, ShiftUnique
    <3>5. QED BY <2>1, <2>3, <2>5, <3>2, <3>4
  <2>6. CASE f.sign = 1
    <3>1. m + 1024 = 0 /\ m \in Int
      BY <1>2, <2>1, <2>6
    <3>2. SignOf(m) = 1 /\ a = 1024
      BY <3>1 DEF SignOf, Abs, a
    <3>3. P(23) = a * P(13) /\ P(23) < P(24) /\ P(23) \in Nat
      BY <3>2, PowerValues
    <3>4. P(23) <= a * P(13) /\ a * P(13) < P(24)
      BY <3>3
    <3>5. r = 13
      BY <1>9, <2>3, <2>4, <3>4, ShiftUnique
    <3>6. QED BY <2>1, <2>3, <2>6, <3>2, <3>3, <3>5
  <2>7. QED BY <1>4, <2>5, <2>6
<1>11. ASSUME ~TooLarge(f), S = 0 PROVE g = Nought
  BY <1>2, <1>3, <1>11 DEF Reads
<1>12. ASSUME ~TooLarge(f), S > 0
       PROVE  /\ g.sign = f.sign /\ s \in 14..24
              /\ \/ g.exp = f.exp /\ Full(g) = V
                 \/ g.exp = f.exp + 1 /\ Full(g) = P(23) /\ V = P(24)
  <2>1. m # 0 /\ SignOf(m) = f.sign /\ t \in 13..25 /\ s \in 14..24 /\ a * P(t) = V
    BY <1>3, <1>12
  <2>2. PICK r \in 8..23 : g.sign = SignOf(m) /\ g.exp = 150 + e - r /\ Full(g) = a * P(r)
    BY <1>8, <2>1
  <2>3. V \in Nat /\ P(23) <= V /\ V <= P(24)
    <3>1. S \in Nat /\ S <= P(24 - s) /\ (s <= 23 => S >= P(23 - s))
      <4>1. s \in 1..24 /\ S = Rounded(Full(f), s)
        BY <1>5, <2>1
      <4>2. QED BY <1>4, <4>1, RoundedBounds
    <3>2. s \in 0..26 /\ 24 - s \in 0..26 /\ (24 - s) + s = 24
      BY <2>1
    <3>3. P(24) = P(24 - s) * P(s) /\ P(s) \in Nat /\ P(24 - s) \in Nat /\ P(s) > 0
      <4>1. P((24 - s) + s) = P(24 - s) * P(s)
        BY <3>2, PowerProduct
      <4>2. QED BY <3>2, <4>1, PowerType
    <3>4. V <= P(24) /\ V \in Nat
      <4> DEFINE p == P(s)
                 b == P(24 - s)
      <4>1. S \in Nat /\ p \in Nat /\ b \in Nat /\ S <= b
        BY <3>1, <3>3
      <4> HIDE DEF p, b
      <4>2. S * p <= b * p /\ S * p \in Nat
        BY <4>1
      <4>3. QED BY <3>3, <4>2 DEF p, b
    <3>5. CASE s <= 23
      <4>1. 23 - s \in 0..26 /\ (23 - s) + s = 23
        BY <2>1, <3>5
      <4>2. P(23) = P(23 - s) * P(s) /\ P(23 - s) \in Nat
        <5>1. P((23 - s) + s) = P(23 - s) * P(s)
          BY <3>2, <4>1, PowerProduct
        <5>2. QED BY <4>1, <5>1, PowerType
      <4> DEFINE p == P(s)
                 b == P(23 - s)
      <4>3. S \in Nat /\ p \in Nat /\ b \in Nat /\ b <= S
        BY <3>1, <3>3, <3>5, <4>2
      <4> HIDE DEF p, b
      <4>4. b * p <= S * p
        BY <4>3
      <4>5. QED BY <3>4, <4>2, <4>4 DEF p, b
    <3>6. CASE s = 24
      <4>1. P(s) = 16777216 /\ P(23) = 8388608
        BY <3>6, PowerValues
      <4>2. S * 16777216 >= 8388608
        BY <1>12, <3>1
      <4>3. QED BY <3>4, <4>1, <4>2
    <3>7. QED BY <2>1, <3>5, <3>6
  <2>4. CASE V < P(24)
    <3>1. r \in 0..25 /\ t \in 0..25
      BY <2>1, <2>2
    <3>2. r = t
      BY <1>9, <2>1, <2>2, <2>3, <2>4, <3>1, ShiftUnique
    <3>3. g.exp = f.exp
      BY <1>1, <1>4, <1>6, <2>2, <3>2
    <3>4. Full(g) = V
      BY <2>1, <2>2, <3>2
    <3>5. QED BY <2>1, <2>2, <3>3, <3>4
  <2>5. CASE V = P(24)
    <3>1. t - 1 \in 0..25 /\ (t - 1) + 1 = t /\ r \in 0..25
      BY <2>1, <2>2
    <3>2. P(t) = 2 * P(t - 1) /\ P(t - 1) \in Nat /\ P(24) = 2 * P(23) /\ P(23) \in Nat /\ P(23) < P(24)
      BY <3>1, PowerStep, PowerValues
    <3>3. a * P(t - 1) = P(23)
      <4> DEFINE p == P(t - 1)
                 b == P(23)
      <4>1. p \in Nat /\ b \in Nat /\ a * (2 * p) = 2 * b
        BY <2>1, <2>5, <3>2
      <4> HIDE DEF p, b
      <4>2. a * (2 * p) = 2 * (a * p) /\ a * p \in Nat
        BY <1>9, <4>1
      <4>3. a * p = b
        BY <4>1, <4>2
      <4>4. QED BY <4>3 DEF p, b
    <3>4. P(23) <= a * P(t - 1) /\ a * P(t - 1) < P(24)
      BY <3>2, <3>3
    <3>5. r = t - 1
      BY <1>9, <2>2, <3>1, <3>4, ShiftUnique
    <3>6. g.exp = f.exp + 1
      BY <1>1, <1>4, <1>6, <2>1, <2>2, <3>5
    <3>7. Full(g) = P(23)
      BY <2>2, <3>3, <3>5
    <3>8. QED BY <2>1, <2>2, <2>5, <3>6, <3>7
  <2>6. V < P(24) \/ V = P(24)
    BY <2>3, PowerValues
  <2>7. QED BY <2>4, <2>5, <2>6
<1>13. QED BY <1>7, <1>10, <1>11, <1>12 DEF Kept, S, s

(* A Linear11 number that was read is written back as the same number,       *)
(* though perhaps as another word.                                         *)
LEMMA RoundTrip11 ==
  ASSUME NEW word \in Word, NEW f, f = lin11_to_fl32(word),
         NEW g, g = lin11_to_fl32(fl32_to_lin11(f))
  PROVE  g = f
<1> DEFINE m == Mantissa11(word)
           e == Exponent11(word)
           a == Abs(m)
           S == Steps(f)
           s == Step(f)
           M == Full(f)
<1>1. Reads(f, m, e) /\ m \in Int /\ m \in -1024..1023 /\ e \in -16..15
  <2>1. m \in -1024..1023 /\ e \in -16..15
    BY Parts11
  <2>2. QED BY <2>1, Reads11
<1> HIDE DEF m, e
<1>2. f \in Float
  BY <1>1, ReadsFloat
<1>3. Kept(f, g)
  BY <1>2, Back11
<1>4. CASE m = 0
  <2>1. f = Nought
    BY <1>1, <1>4 DEF Reads
  <2>2. f.exp = 0 /\ s = 134
    BY <2>1 DEF Nought, Step
  <2>3. S = 0 /\ ~TooLarge(f)
    BY <2>2 DEF Steps, TooLarge
  <2>4. QED BY <1>3, <2>1, <2>3 DEF Kept
<1>5. CASE m # 0
  <2>1. PICK r \in 8..23 : f.sign = SignOf(m) /\ f.exp = 150 + e - r /\ M = a * P(r)
    <3>1. Reads(f, m, e) /\ m \in Int /\ e \in -16..15 /\ m # 0
      BY <1>1, <1>5
    <3>2. HasParts(f, m, e)
      BY <3>1, ReadsParts
    <3>3. QED BY <3>2 DEF HasParts, M
  <2>2. /\ f.sign \in {0, 1} /\ f.exp \in Int /\ M \in Nat /\ P(23) <= M /\ M < P(24)
    BY <1>2, FloatParts
  <2>3. a \in 1..1024 /\ (f.sign = 1 <=> m < 0) /\ (a = 1024 => f.sign = 1)
    BY <1>1, <1>5, <2>1, <2>2 DEF Abs, SignOf
  <2>4. s = (IF f.exp >= 120 THEN 14 ELSE 134 - f.exp) /\ (s <= 24 => S = Rounded(M, s)) /\ S \in 0..1024
    BY <1>2, StepsAre, SMTT(30) DEF Step, Steps
  <2>5. Kept(f, g) /\ g \in Float
    BY <1>3 DEF Kept
  <2> HIDE DEF a, S, s, M
  <2>6. r >= 13 /\ (r = 13 => a = 1024)
    <3>1. P(r) \in Nat /\ P(23) = 1024 * 8192 /\ P(13) = 8192 /\ P(12) = 4096
      <4>1. r \in 0..26
        OBVIOUS
      <4>2. QED BY <4>1, PowerType, PowerValues
    <3>2. r >= 13
      <4>1. SUFFICES ASSUME r <= 12 PROVE FALSE
        OBVIOUS
      <4>2. r \in 0..26 /\ 12 \in r..26
        BY <4>1
      <4>3. P(r) <= 4096
        BY <3>1, <4>2, PowerGrows
      <4> DEFINE p == P(r)
      <4>4. p \in Nat /\ p <= 4096
        BY <3>1, <4>3
      <4> HIDE DEF p
      <4>5. a * p <= 1024 * 4096
        <5>1. a * p <= 1024 * p
          BY <2>3, <4>4
        <5>2. QED BY <2>3, <4>4, <5>1
      <4>6. QED BY <2>1, <2>2, <3>1, <4>5 DEF p
    <3>3. ASSUME r = 13 PROVE a = 1024
      BY <2>1, <2>2, <2>3, <3>1, <3>3
    <3>4. QED BY <3>2, <3>3
  <2>7. CASE f.exp > 151
    <3>1. r = 13 /\ f.exp = 152 /\ a = 1024 /\ f.sign = 1
      BY <1>1, <2>1, <2>3, <2>6, <2>7
    <3>2. M = P(23)
      BY <2>1, <3>1, PowerValues
    <3>3. TooLarge(f)
      BY <2>7 DEF TooLarge
    <3>4. g.sign = f.sign /\ g.exp = 152 /\ Full(g) = P(23)
      BY <2>5, <3>1, <3>3 DEF Kept
    <3>5. QED BY <1>2, <2>5, <3>1, <3>2, <3>4, SameFloat DEF M
  <2>8. CASE f.exp <= 151
    <3>1. s \in 14..23 /\ \E K \in Nat : M = K * P(s) /\ (f.exp = 151 /\ f.sign = 0 => K = a)
      <4>1. CASE s <= r
        <5>1. s \in 14..23
          BY <1>1, <2>1, <2>2, <2>4, <2>6, <4>1
        <5>2. s \in 0..26 /\ r - s \in 0..26 /\ (r - s) + s = r
          BY <2>1, <4>1, <5>1
        <5>3. P(r) = P(r - s) * P(s) /\ P(r - s) \in Nat /\ P(s) \in Nat
          <6>1. P((r - s) + s) = P(r - s) * P(s)
            BY <5>2, PowerProduct
          <6>2. QED BY <5>2, <6>1, PowerType
        <5> DEFINE p == P(s)
                   b == P(r - s)
        <5>4. M = (a * b) * p /\ a * b \in Nat
          <6>1. b \in Nat /\ p \in Nat /\ P(r) = b * p
            BY <5>3
          <6> HIDE DEF b, p
          <6>2. a * (b * p) = (a * b) * p /\ a * b \in Nat
            BY <2>3, <6>1
          <6>3. QED BY <2>1, <6>1, <6>2
        <5>5. f.exp = 151 /\ f.sign = 0 => a * b = a
          <6>1. SUFFICES ASSUME f.exp = 151, f.sign = 0 PROVE a * b = a
            OBVIOUS
          <6>2. r = 14 /\ s = 14
            BY <1>1, <2>1, <2>3, <2>4, <2>6, <6>1
          <6>3. b = 1
            BY <6>2, PowerValues
          <6>4. QED BY <2>3, <6>3
        <5>6. QED BY <5>1, <5>4, <5>5
      <4>2. CASE s > r
        <5>1. s = 14 /\ r = 13 /\ a = 1024 /\ f.sign = 1
          BY <1>1, <2>1, <2>2, <2>3, <2>4, <2>6, <4>2
        <5>2. M = 512 * P(s)
          BY <2>1, <5>1, PowerValues
        <5>3. QED BY <5>1, <5>2
      <4>3. s \in Int
        BY <2>2, <2>4
      <4>4. QED BY <4>1, <4>2, <4>3
    <3>2. PICK K \in Nat : M = K * P(s) /\ (f.exp = 151 /\ f.sign = 0 => K = a)
      BY <3>1
    <3>3. S = K
      <4>1. s \in 1..25 /\ s <= 24
        BY <3>1
      <4>2. Rounded(M, s) = K
        BY <3>2, <4>1, Exact
      <4>3. QED BY <2>4, <4>1, <4>2
    <3>4. S > 0
      <4>1. SUFFICES ASSUME S = 0 PROVE FALSE
        BY <2>4
      <4>2. s \in 0..26
        BY <3>1
      <4>3. M = 0
        BY <3>2, <3>3, <4>1, <4>2, PowerType
      <4>4. QED BY <2>2, <4>3, PowerValues
    <3>5. ~TooLarge(f)
      <4>1. SUFFICES ASSUME f.exp = 151, f.sign = 0, S = 1024 PROVE FALSE
        BY <2>2, <2>8 DEF TooLarge, S
      <4>2. QED BY <2>3, <3>2, <3>3, <4>1
    <3>6. /\ g.sign = f.sign
          /\ \/ g.exp = f.exp /\ Full(g) = S * P(s)
             \/ S * P(s) = P(24)
      BY <2>5, <3>4, <3>5 DEF Kept, S, s
    <3>7. S * P(s) = M /\ M # P(24)
      BY <2>2, <3>2, <3>3, PowerValues
    <3>8. g.exp = f.exp /\ Full(g) = Full(f)
      BY <3>6, <3>7 DEF M
    <3>9. QED BY <1>2, <2>5, <3>6, <3>8, SameFloat
  <2>9. QED BY <2>2, <2>7, <2>8
<1>6. QED BY <1>4, <1>5

(* What the caller read, it writes back without changing the value of the    *)
(* register: for every word and VOUT_MODE.                                 *)
THEOREM WritesBack == Spec => WriteBackKeeps
<1>1. Init => AsRead
  BY DEF Init, AsRead
<1>2. AsRead /\ [Next]_vars => AsRead'
  BY AsReadStep
<1>3. TypeOK /\ AsRead /\ [Next]_vars => [Narrow /\ fresh /\ (SetVoltage \/ SetLimit) => Read' = Read]_vars
  <2> SUFFICES ASSUME TypeOK, AsRead, Narrow, fresh, SetVoltage \/ SetLimit PROVE Read' = Read
    OBVIOUS
  <2>1. held = Read /\ register \in Word /\ mode \in 0..31
    BY DEF TypeOK, AsRead
  <2>2. CASE SetVoltage
    <3>1. /\ format = "L16" /\ UNCHANGED <<format, mode>>
          /\ \E high \in HighBits : register' = fl32_to_lin16(held, high, mode) % 65536
      BY <2>2 DEF SetVoltage
    <3>2. register' = fl32_to_lin16(held, 0, mode) % 65536
      BY <3>1 DEF Narrow, HighBits
    <3>3. held = lin16_to_fl32(register, mode)
      BY <2>1, <3>1 DEF Read
    <3>4. register' = register
      BY <2>1, <3>2, <3>3, RoundTrip16
    <3>5. QED BY <3>1, <3>4 DEF Read
  <2>3. CASE SetLimit
    <3>1. format = "L11" /\ UNCHANGED <<format, mode>> /\ register' = fl32_to_lin11(held)
      BY <2>3 DEF SetLimit
    <3>2. held = lin11_to_fl32(register)
      BY <2>1, <3>1 DEF Read
    <3>3. lin11_to_fl32(fl32_to_lin11(held)) = held
      BY <2>1, <3>2, RoundTrip11
    <3>4. Read' = lin11_to_fl32(register')
      BY <3>1 DEF Read
    <3>5. QED BY <2>1, <3>1, <3>3, <3>4
  <2>4. QED BY <2>2, <2>3
<1>4. QED BY <1>1, <1>2, <1>3, TypeCorrect, PTL DEF Spec, WriteBackKeeps

-----------------------------------------------------------------------------
(* A larger float is not rounded to a smaller number.                      *)
LEMMA RoundedGrows ==
  ASSUME NEW M \in Nat, NEW N \in Nat, M <= N, NEW s \in 1..25
  PROVE  Rounded(M, s) <= Rounded(N, s)
<1> DEFINE Q == Rounded(M, s)
           R == Rounded(N, s)
           h == P(s - 1)
           p == P(s)
<1>1. h \in Nat /\ h > 0 /\ p = 2 * h
  <2>1. s - 1 \in 0..25 /\ (s - 1) + 1 = s
    OBVIOUS
  <2>2. QED BY <2>1, PowerStep
<1>2. Near(M, Q, s) /\ Near(N, R, s) /\ (M = N => Q = R)
  BY RoundedNear
<1> HIDE DEF Q, R
<1>3. Q \in Nat /\ R \in Nat /\ Q * p - M <= h /\ N - R * p <= h
  BY <1>2 DEF Near
<1> HIDE DEF h, p
<1>4. Q <= R
  <2>1. SUFFICES ASSUME R + 1 <= Q PROVE FALSE
    BY <1>3
  <2>2. (R + 1) * p <= Q * p /\ (R + 1) * p = R * p + p /\ Q * p \in Nat /\ R * p \in Nat
    BY <1>1, <1>3, <2>1
  <2>3. M = N
    BY <1>1, <1>3, <2>2
  <2>4. QED BY <1>2, <1>3, <2>1, <2>3
<1>5. QED BY <1>4 DEF Q, R

LEMMA BelowFull ==
  ASSUME NEW f \in Float, NEW g \in Float
  PROVE  /\ Below(f, g) <=> f.exp < g.exp \/ (f.exp = g.exp /\ Full(f) <= Full(g))
         /\ Below(Nought, g)
<1>1. f.mant \in Nat /\ g.mant \in Nat /\ Full(f) = f.mant + P(23) /\ Full(g) = g.mant + P(23)
      /\ g.exp \in Int /\ 0 <= g.exp /\ P(23) \in Nat
  BY FloatParts, PowerType
<1>2. Below(Nought, g)
  BY <1>1 DEF Below, Nought
<1>3. QED BY <1>1, <1>2 DEF Below

(* Voltages: the words are ordered as the floats, and the floats that are    *)
(* read as the words.                                                      *)
LEMMA Words16Grow ==
  ASSUME NEW f \in Float, NEW g \in Float, NEW v \in 0..31, ~ToTheTop(f, v), ~ToTheTop(g, v),
         f.sign = 0, g.sign = 0, Below(f, g)
  PROVE  fl32_to_lin16(f, 0, v) % 65536 <= fl32_to_lin16(g, 0, v) % 65536
<1> DEFINE s == 150 - f.exp + Signed(v, 5)
           t == 150 - g.exp + Signed(v, 5)
           V == fl32_to_lin16(f, 0, v)
           W == fl32_to_lin16(g, 0, v)
           Q == Rounded(Full(f), s)
           R == Rounded(Full(g), t)
<1>1. /\ s \in Int /\ V \in Nat
      /\ s < 8 => V = 65535
      /\ s > 24 => V = 0
      /\ s \in 8..24 => V = Q /\ Q \in Nat /\ Q < P(16)
  <2>1. s = 150 - f.exp + Signed(v, 5) /\ V = fl32_to_lin16(f, 0, v) /\ Q = Rounded(Full(f), s) /\ 0 \in {0, 1}
    OBVIOUS
  <2> HIDE DEF s, V, Q
  <2>2. QED BY <2>1, Write16, Fits16 DEF Q
<1>2. /\ t \in Int /\ W \in Nat
      /\ t < 8 => W = 65535
      /\ t > 24 => W = 0
      /\ t \in 8..24 => W = R /\ R \in Nat /\ R < P(16)
  <2>1. t = 150 - g.exp + Signed(v, 5) /\ W = fl32_to_lin16(g, 0, v) /\ R = Rounded(Full(g), t) /\ 0 \in {0, 1}
    OBVIOUS
  <2> HIDE DEF t, W, R
  <2>2. QED BY <2>1, Write16, Fits16 DEF R
<1>3. t < s \/ (t = s /\ Full(f) <= Full(g))
  <2>1. f.exp \in Int /\ g.exp \in Int /\ Signed(v, 5) \in Int
    BY FloatParts, SignedParts
  <2>2. f.exp < g.exp \/ (f.exp = g.exp /\ Full(f) <= Full(g))
    BY BelowFull
  <2>3. QED BY <2>1, <2>2
<1>4. s \in 8..24 /\ t \in 8..24 => Q <= R
  <2>1. SUFFICES ASSUME s \in 8..24, t \in 8..24 PROVE Q <= R
    OBVIOUS
  <2>2. /\ Full(f) \in Nat /\ P(23) <= Full(f) /\ Full(f) < P(24)
        /\ Full(g) \in Nat /\ P(23) <= Full(g) /\ Full(g) < P(24)
    BY FloatParts
  <2>3. s \in 1..24 /\ t \in 1..24 /\ s \in 1..25
    BY <2>1
  <2> DEFINE M == Full(f)
             N == Full(g)
  <2>4. M \in Nat /\ N \in Nat /\ Q = Rounded(M, s) /\ R = Rounded(N, t)
        /\ P(23) <= M /\ M < P(24) /\ P(23) <= N /\ N < P(24) /\ (t < s \/ (t = s /\ M <= N))
    BY <1>3, <2>2
  <2> HIDE DEF s, t, Q, R, M, N
  <2>5. CASE t < s
    <3>1. Q <= P(24 - s) /\ R >= P(23 - t) /\ Q \in Nat /\ R \in Nat
      BY <2>1, <2>3, <2>4, <2>5, RoundedBounds
    <3>2. 24 - s \in 0..26 /\ 23 - t \in (24 - s)..26 /\ 23 - t \in 0..26
      BY <2>3, <2>5
    <3>3. P(24 - s) <= P(23 - t) /\ P(24 - s) \in Nat /\ P(23 - t) \in Nat
      BY <3>2, PowerGrows, PowerType
    <3>4. QED BY <3>1, <3>3
  <2>6. CASE t = s /\ M <= N
    BY <2>3, <2>4, <2>6, RoundedGrows
  <2>7. QED BY <2>4, <2>5, <2>6
<1> HIDE DEF s, t, V, W, Q, R
<1>5. V <= W /\ V < 65536 /\ W < 65536
  <2>1. P(16) = 65536
    BY PowerValues
  <2>2. QED BY <1>1, <1>2, <1>3, <1>4, <2>1
<1>6. V % 65536 <= W % 65536
  BY <1>1, <1>2, <1>5
<1>7. QED BY <1>6 DEF V, W

LEMMA Reads16Grow ==
  ASSUME NEW a \in Word, NEW b \in Word, a <= b, NEW v \in 0..31
  PROVE  /\ Below(lin16_to_fl32(a, v), lin16_to_fl32(b, v))
         /\ lin16_to_fl32(a, v).sign = 0 /\ lin16_to_fl32(b, v).sign = 0
<1> DEFINE f == lin16_to_fl32(a, v)
           g == lin16_to_fl32(b, v)
           e == Signed(v, 5)
<1>1. a \in Nat /\ b \in Nat /\ e \in -16..15 /\ Reads(f, a, e) /\ Reads(g, b, e)
  BY Reads16
<1> HIDE DEF f, g, e
<1>2. f \in Float /\ g \in Float
  BY <1>1, ReadsFloat
<1>3. ASSUME NEW c \in Nat, NEW x, Reads(x, c, e), c # 0
      PROVE  x.sign = 0 /\ \E r \in 8..23 : x.exp = 150 + e - r /\ Full(x) = c * P(r)
  <2>1. c \in Int /\ SignOf(c) = 0 /\ Abs(c) = c
    BY DEF SignOf, Abs
  <2>2. PICK r \in 8..23 : x.sign = SignOf(c) /\ x.exp = 150 + e - r /\ Full(x) = Abs(c) * P(r)
    <3>1. c \in Int /\ e \in -16..15 /\ Reads(x, c, e) /\ c # 0
      BY <1>1, <1>3
    <3>2. HasParts(x, c, e)
      BY <3>1, ReadsParts
    <3>3. QED BY <3>2 DEF HasParts
  <2>3. QED BY <2>1, <2>2
<1>4. ASSUME NEW c \in Nat, NEW x, Reads(x, c, e) PROVE x.sign = 0
  <2>1. CASE c = 0
    BY <1>4, <2>1 DEF Reads, Nought
  <2>2. CASE c # 0
    BY <1>3, <1>4, <2>2
  <2>3. QED BY <2>1, <2>2
<1>5. Below(f, g)
  <2>1. CASE a = 0
    BY <1>1, <1>2, <2>1, BelowFull DEF Reads
  <2>2. CASE a # 0
    <3>1. PICK i \in 8..23 : f.exp = 150 + e - i /\ Full(f) = a * P(i)
      BY <1>1, <1>3, <2>2
    <3>2. b # 0
      BY <1>1, <2>2
    <3>3. PICK j \in 8..23 : g.exp = 150 + e - j /\ Full(g) = b * P(j)
      BY <1>1, <1>3, <3>2
    <3>4. P(23) <= a * P(i) /\ b * P(j) < P(24) /\ i \in 0..25 /\ j \in 0..25
      BY <1>2, <3>1, <3>3, FloatParts
    <3>5. j <= i
      BY <1>1, <3>4, ShiftOrder
    <3>6. i = j => Full(f) <= Full(g)
      <4>1. P(i) \in Nat
        <5>1. i \in 0..26
          OBVIOUS
        <5>2. QED BY <5>1, PowerType
      <4> DEFINE p == P(i)
      <4>2. p \in Nat
        BY <4>1
      <4> HIDE DEF p
      <4>3. a * p <= b * p
        BY <1>1, <4>2
      <4>4. QED BY <3>1, <3>3, <4>3 DEF p
    <3>7. f.exp < g.exp \/ (f.exp = g.exp /\ i = j)
      BY <1>1, <3>1, <3>3, <3>5
    <3>8. QED BY <1>2, <3>6, <3>7, BelowFull
  <2>3. QED BY <2>1, <2>2
<1>6. QED BY <1>1, <1>4, <1>5 DEF f, g

(* Limits: what is kept of two floats is ordered as they are.              *)
LEMMA StepsGrow ==
  ASSUME NEW f \in Float, NEW g \in Float, f.exp = g.exp, Full(f) <= Full(g)
  PROVE  Step(f) = Step(g) /\ Steps(f) <= Steps(g)
<1> DEFINE s == Step(f)
           M == Full(f)
           N == Full(g)
<1>1. Step(g) = s /\ s \in 14..134
  BY StepsAre DEF Step
<1>2. Steps(f) = (IF s > 24 THEN 0 ELSE Rounded(M, s)) /\ Steps(g) = IF s > 24 THEN 0 ELSE Rounded(N, s)
  BY <1>1 DEF Steps
<1>3. M \in Nat /\ N \in Nat /\ M <= N
  BY FloatParts
<1> HIDE DEF s, M, N
<1>4. ASSUME s <= 24 PROVE Rounded(M, s) <= Rounded(N, s)
  <2>1. s \in 1..25
    BY <1>1, <1>4
  <2>2. QED BY <1>3, <2>1, RoundedGrows
<1>5. QED BY <1>1, <1>2, <1>4 DEF s

(* The smaller one has steps only if the larger one has.                   *)
LEMMA StepsOfBoth ==
  ASSUME NEW f \in Float, NEW g \in Float, Below(f, g), Steps(f) > 0
  PROVE  Steps(g) > 0
<1>1. f.exp \in Int /\ g.exp \in Int /\ Full(g) \in Nat /\ P(23) <= Full(g) /\ Full(g) < P(24)
  BY FloatParts
<1>2. Steps(f) \in 0..1024 /\ Steps(g) \in 0..1024 /\ Step(g) \in 14..134
  BY StepsAre
<1>3. f.exp < g.exp \/ (f.exp = g.exp /\ Full(f) <= Full(g))
  BY BelowFull
<1>4. CASE f.exp < g.exp
  <2>1. Step(f) <= 24
    <3>1. Step(f) > 24 => Steps(f) = 0
      BY DEF Steps
    <3>2. Step(f) \in 14..134
      BY StepsAre
    <3>3. QED BY <3>1, <3>2
  <2>2. Step(g) <= 23
    BY <1>1, <1>4, <2>1 DEF Step
  <2>3. Steps(g) = Rounded(Full(g), Step(g))
    BY <1>2, <2>2 DEF Steps
  <2> DEFINE t == Step(g)
             R == Steps(g)
             N == Full(g)
  <2>4. t \in 1..24 /\ 23 - t \in 0..26 /\ t <= 23
    BY <1>2, <2>2
  <2>5. R = Rounded(N, t) /\ N \in Nat /\ P(23) <= N /\ N < P(24) /\ R \in 0..1024
    BY <1>1, <1>2, <2>3
  <2> HIDE DEF t, R, N
  <2>6. R >= P(23 - t)
    BY <2>4, <2>5, RoundedBounds
  <2>7. P(23 - t) > 0 /\ P(23 - t) \in Nat
    BY <2>4, PowerType
  <2>8. R > 0
    BY <2>5, <2>6, <2>7
  <2>9. QED BY <2>8 DEF R
<1>5. CASE f.exp = g.exp /\ Full(f) <= Full(g)
  BY <1>2, <1>5, StepsGrow
<1>6. QED BY <1>3, <1>4, <1>5

LEMMA TooLargeBoth ==
  ASSUME NEW f \in Float, NEW g \in Float, f.sign = g.sign, Below(f, g), TooLarge(f)
  PROVE  TooLarge(g)
<1>1. f.exp \in Int /\ g.exp \in Int
  BY FloatParts
<1>2. Steps(f) \in 0..1024 /\ Steps(g) \in 0..1024
  BY StepsAre
<1>3. f.exp < g.exp \/ (f.exp = g.exp /\ Full(f) <= Full(g))
  BY BelowFull
<1>4. f.exp = g.exp /\ Full(f) <= Full(g) => Steps(f) <= Steps(g)
  BY StepsGrow
<1>5. QED BY <1>1, <1>2, <1>3, <1>4 DEF TooLarge

LEMMA KeptGrows ==
  ASSUME NEW f \in Float, NEW g \in Float, f.sign = g.sign, Below(f, g),
         NEW F, NEW G, Kept(f, F), Kept(g, G)
  PROVE  Below(F, G)
<1> DEFINE x == f.exp
           y == g.exp
           S == Steps(f)
           T == Steps(g)
           V == S * P(Step(f))
           W == T * P(Step(g))
<1>1. x \in Int /\ y \in Int /\ f.sign \in {0, 1} /\ S \in 0..1024 /\ T \in 0..1024
  BY FloatParts, StepsAre
<1>2. F \in Float /\ G \in Float
  BY DEF Kept
<1>3. P(23) <= Full(F) /\ Full(F) < P(24) /\ P(23) <= Full(G) /\ Full(G) < P(24)
      /\ Full(F) \in Nat /\ Full(G) \in Nat /\ F.exp \in Int /\ G.exp \in Int
  BY <1>2, FloatParts
<1>4. P(14) = 16384 /\ P(23) = 8388608 /\ P(24) = 16777216
  BY PowerValues
<1>5. x < y \/ (x = y /\ Full(f) <= Full(g))
  BY BelowFull
<1>6. SUFFICES ASSUME F # Nought
               PROVE  F.exp < G.exp \/ (F.exp = G.exp /\ Full(F) <= Full(G))
  BY <1>2, BelowFull
<1>7. CASE TooLarge(f)
  <2>1. TooLarge(g)
    BY <1>7, TooLargeBoth
  <2>2. F.exp = G.exp /\ Full(F) = Full(G)
    BY <1>1, <1>7, <2>1 DEF Kept
  <2>3. QED BY <1>3, <2>2
<1>8. CASE ~TooLarge(f)
  <2>1. S > 0
    BY <1>1, <1>6, <1>8 DEF Kept
  <2>2. T > 0
    BY <2>1, StepsOfBoth
  <2>3. /\ Step(f) \in 14..24
        /\ \/ F.exp = x /\ Full(F) = V
           \/ F.exp = x + 1 /\ Full(F) = P(23) /\ V = P(24)
    BY <1>8, <2>1 DEF Kept
  <2>4. x <= 151 /\ (x = 151 => f.sign = 1 \/ S # 1024)
    BY <1>1, <1>8 DEF TooLarge
  <2>5. CASE TooLarge(g)
    <3>1. /\ f.sign = 0 => G.exp = 151 /\ Full(G) = 1023 * P(14)
          /\ f.sign = 1 => G.exp = 152 /\ Full(G) = P(23)
      BY <2>5 DEF Kept
    <3>2. x = 151 => V = S * 16384
      BY <1>4 DEF Step
    <3> HIDE DEF x, y, S, T, V, W
    <3>3. CASE f.sign = 0
      <4>1. G.exp = 151 /\ Full(G) = 1023 * 16384
        BY <1>4, <3>1, <3>3
      <4>2. x = 151 => V <= 1023 * 16384
        BY <1>1, <2>4, <3>2, <3>3
      <4>3. CASE F.exp = x /\ Full(F) = V
        BY <1>1, <2>4, <4>1, <4>2, <4>3
      <4>4. CASE F.exp = x + 1 /\ Full(F) = P(23) /\ V = P(24)
        <5>1. x # 151
          BY <1>4, <4>2, <4>4
        <5>2. F.exp <= 151 /\ Full(F) <= Full(G)
          BY <1>1, <1>4, <2>4, <4>1, <4>4, <5>1
        <5>3. QED BY <1>3, <4>1, <5>2
      <4>5. QED BY <2>3, <4>3, <4>4
    <3>4. CASE f.sign = 1
      <4>1. G.exp = 152 /\ Full(G) = P(23)
        BY <3>1, <3>4
      <4>2. QED BY <1>1, <1>3, <2>3, <2>4, <4>1
    <3>5. QED BY <1>1, <3>3, <3>4
  <2>6. CASE ~TooLarge(g)
    <3>1. \/ G.exp = y /\ Full(G) = W
          \/ G.exp = y + 1 /\ Full(G) = P(23) /\ W = P(24)
      BY <2>2, <2>6 DEF Kept
    <3>2. CASE x < y
      <4> HIDE DEF x, y, S, T, V, W
      <4>1. F.exp <= x + 1 /\ (F.exp = x + 1 => Full(F) = P(23))
        BY <1>1, <2>3
      <4>2. G.exp >= y
        BY <1>1, <3>1
      <4>3. QED BY <1>1, <1>3, <3>2, <4>1, <4>2
    <3>3. CASE x = y /\ Full(f) <= Full(g)
      <4>1. Step(f) = Step(g) /\ S <= T
        BY <3>3, StepsGrow
      <4>2. P(Step(f)) \in Nat
        <5>1. Step(f) \in 0..26
          BY <2>3
        <5>2. QED BY <5>1, PowerType
      <4> DEFINE p == P(Step(f))
      <4>3. V = S * p /\ W = T * p /\ p \in Nat
        BY <4>1, <4>2
      <4> HIDE DEF x, y, S, T, V, W, p
      <4>4. V <= W /\ V \in Nat /\ W \in Nat
        BY <1>1, <4>1, <4>3
      <4>5. CASE F.exp = x /\ Full(F) = V
        BY <1>1, <1>3, <3>1, <3>3, <4>4, <4>5
      <4>6. CASE F.exp = x + 1 /\ Full(F) = P(23) /\ V = P(24)
        <5>1. W # Full(G)
          BY <1>3, <1>4, <4>4, <4>6
        <5>2. G.exp = y + 1 /\ Full(G) = P(23)
          BY <3>1, <5>1
        <5>3. QED BY <1>1, <1>3, <3>3, <4>6, <5>2
      <4>7. QED BY <2>3, <4>5, <4>6
    <3>4. QED BY <1>5, <3>2, <3>3
  <2>7. QED BY <2>5, <2>6
<1>9. QED BY <1>7, <1>8

LEMMA Order11 ==
  ASSUME NEW f \in Float, NEW g \in Float, AtMost(f, g), NEW F, NEW G, Kept(f, F), Kept(g, G)
  PROVE  AtMost(F, G)
<1>1. f.sign \in {0, 1} /\ g.sign \in {0, 1} /\ f.exp \in Int /\ g.exp \in Int /\ 0 <= g.exp /\ 0 <= f.exp
  BY FloatParts
<1>2. /\ F \in Float /\ (F = Nought \/ F.sign = f.sign)
      /\ G \in Float /\ (G = Nought \/ G.sign = g.sign)
  <2>1. Steps(f) \in 0..1024 /\ Steps(g) \in 0..1024
    BY StepsAre
  <2>2. QED BY <2>1 DEF Kept
<1>3. Nought.sign = 0 /\ Normalized(0, 0, 0, 15) = Nought
  BY StartsAtNought DEF Nought
<1>4. F.sign \in {0, 1} /\ G.sign \in {0, 1} /\ Below(Nought, F) /\ Below(Nought, G)
  BY <1>2, BelowFull, FloatParts
<1>5. CASE f.sign = 0 /\ g.sign = 0
  <2>1. Below(f, g)
    BY <1>5 DEF AtMost
  <2>2. Below(F, G)
    BY <1>5, <2>1, KeptGrows
  <2>3. F.sign = 0 /\ G.sign = 0
    BY <1>2, <1>3, <1>5
  <2>4. QED BY <2>2, <2>3 DEF AtMost
<1>6. CASE f.sign = 1 /\ g.sign = 1
  <2>1. Below(g, f)
    BY <1>6 DEF AtMost
  <2>2. Below(G, F)
    BY <1>6, <2>1, KeptGrows
  <2>3. CASE F.sign = 1 /\ G.sign = 1
    BY <2>2, <2>3 DEF AtMost
  <2>4. CASE F.sign = 1 /\ G.sign = 0
    BY <2>4 DEF AtMost
  <2>5. CASE F.sign = 0
    <3>1. F = Nought
      BY <1>2, <1>6, <2>5
    <3>2. CASE G.sign = 0
      <4>1. G = Nought
        BY <1>2, <1>6, <3>2
      <4>2. QED BY <1>4, <2>5, <3>1, <3>2, <4>1 DEF AtMost
    <3>3. CASE G.sign = 1
      BY <1>3, <1>4, <2>2, <2>5, <3>1, <3>3 DEF AtMost
    <3>4. QED BY <1>4, <3>2, <3>3
  <2>6. QED BY <1>4, <2>3, <2>4, <2>5
<1>7. CASE f.sign = 0 /\ g.sign = 1
  <2>1. Below(f, Nought) /\ Below(g, f)
    BY <1>3, <1>7 DEF AtMost
  <2>2. f.exp = 0 /\ g.exp = 0
    BY <1>1, <2>1 DEF Below, Nought
  <2>3. F = Nought /\ G = Nought
    BY <2>2 DEF Kept, Steps, Step, TooLarge
  <2>4. QED BY <1>3, <1>4, <2>3 DEF AtMost
<1>8. CASE f.sign = 1 /\ g.sign = 0
  <2>1. G.sign = 0
    BY <1>2, <1>3, <1>8
  <2>2. F.sign = 1 \/ F = Nought
    BY <1>2, <1>8
  <2>3. QED BY <1>3, <1>4, <2>1, <2>2 DEF AtMost
<1>9. QED BY <1>1, <1>5, <1>6, <1>7, <1>8

LEMMA Order16 ==
  ASSUME NEW f \in Float, NEW g \in Float, AtMost(f, g), NEW v \in 0..31,
         ~ToTheTop(f, v), ~ToTheTop(g, v),
         NEW a \in Word, a = fl32_to_lin16(f, 0, v) % 65536,
         NEW b \in Word, b = fl32_to_lin16(g, 0, v) % 65536
  PROVE  AtMost(lin16_to_fl32(a, v), lin16_to_fl32(b, v))
<1>1. f.sign \in {0, 1} /\ g.sign \in {0, 1} /\ f.exp \in Int /\ 0 <= f.exp
  BY FloatParts
<1>2. a \in Nat /\ b \in Nat
  BY WordIs
<1>3. f.sign = 1 => a = 0
  <2> DEFINE s == 150 - f.exp + Signed(v, 5)
             W == fl32_to_lin16(f, 0, v)
  <2>1. s = 150 - f.exp + Signed(v, 5) /\ W = fl32_to_lin16(f, 0, v) /\ 0 \in {0, 1}
    OBVIOUS
  <2> HIDE DEF s, W
  <2>2. f.sign = 1 => W = 0
    BY <2>1, Write16
  <2>3. QED BY <2>1, <2>2
<1>4. f.sign = 0 /\ f.exp = 0 => a = 0
  <2> DEFINE s == 150 - f.exp + Signed(v, 5)
             W == fl32_to_lin16(f, 0, v)
  <2>1. s = 150 - f.exp + Signed(v, 5) /\ W = fl32_to_lin16(f, 0, v) /\ 0 \in {0, 1}
    OBVIOUS
  <2>2. f.exp = 0 => s > 24
    BY SignedParts
  <2> HIDE DEF s, W
  <2>3. f.sign = 0 /\ s > 24 => W = 0
    BY <2>1, Write16
  <2>4. QED BY <2>1, <2>2, <2>3
<1>5. a <= b
  <2>1. CASE f.sign = 1
    BY <1>2, <1>3, <2>1
  <2>2. CASE f.sign = 0 /\ g.sign = 0
    <3>1. Below(f, g)
      BY <2>2 DEF AtMost
    <3>2. QED BY <2>2, <3>1, Words16Grow
  <2>3. CASE f.sign = 0 /\ g.sign = 1
    <3>1. Below(f, Nought)
      BY <2>3, StartsAtNought DEF AtMost
    <3>2. f.exp = 0
      BY <1>1, <3>1 DEF Below, Nought
    <3>3. QED BY <1>2, <1>4, <2>3, <3>2
  <2>4. QED BY <1>1, <2>1, <2>2, <2>3
<1>6. QED BY <1>5, Reads16Grow DEF AtMost

(* A caller that writes a number not below the last one never reads back a   *)
(* number below: what the formats round and what they saturate keeps its     *)
(* order, but for the voltages that round up to 2^16.                      *)
THEOREM OrderKept ==
  ASSUME NoneToTheTop
  PROVE  Spec => KeepsOrder
<1>1. TypeOK /\ Settled /\ [Next]_vars => Settled'
  BY SettledStep
<1>2. TypeOK /\ TypeOK' /\ Settled /\ Settled' /\ [Next]_vars =>
        [Narrow /\ stored # NoFloat /\ AtMost(stored, held) /\ (SetVoltage \/ SetLimit) =>
           AtMost(Read, Read')]_vars
  <2> SUFFICES ASSUME TypeOK, TypeOK', Settled, Settled',
                      Narrow, stored # NoFloat, AtMost(stored, held), SetVoltage \/ SetLimit
               PROVE  AtMost(Read, Read')
    OBVIOUS
  <2>1. held \in Float /\ stored \in Float /\ mode \in 0..31 /\ register \in Word /\ register' \in Word
    BY DEF TypeOK, Settled
  <2>2. CASE SetVoltage
    <3>1. /\ format = "L16" /\ UNCHANGED <<format, mode>>
          /\ \E high \in HighBits : register' = fl32_to_lin16(held, high, mode) % 65536
      BY <2>2 DEF SetVoltage
    <3>2. register' = fl32_to_lin16(held, 0, mode) % 65536
      BY <3>1 DEF Narrow, HighBits
    <3>3. register = fl32_to_lin16(stored, 0, mode) % 65536 /\ ~ToTheTop(stored, mode) /\ ~ToTheTop(held, mode)
      BY <3>1 DEF Settled
    <3>4. AtMost(lin16_to_fl32(register, mode), lin16_to_fl32(register', mode))
      BY <2>1, <3>2, <3>3, Order16
    <3>5. Read = lin16_to_fl32(register, mode) /\ Read' = lin16_to_fl32(register', mode)
      BY <3>1 DEF Read
    <3>6. QED BY <3>4, <3>5
  <2>3. CASE SetLimit
    <3>1. format = "L11" /\ UNCHANGED <<format, mode>> /\ register' = fl32_to_lin11(held)
      BY <2>3 DEF SetLimit
    <3>2. register = fl32_to_lin11(stored)
      BY <3>1 DEF Settled
    <3>3. Kept(stored, lin11_to_fl32(register)) /\ Kept(held, lin11_to_fl32(register'))
      BY <2>1, <3>1, <3>2, Back11
    <3>4. AtMost(lin11_to_fl32(register), lin11_to_fl32(register'))
      BY <2>1, <3>3, Order11
    <3>5. Read = lin11_to_fl32(register) /\ Read' = lin11_to_fl32(register')
      BY <3>1 DEF Read
    <3>6. QED BY <3>4, <3>5
  <2>4. QED BY <2>2, <2>3
<1>3. QED BY <1>1, <1>2, SettledFirst, TypeCorrect, PTL DEF Spec, KeepsOrder
==============================================================================
