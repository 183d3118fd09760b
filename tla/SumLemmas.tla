----------------------------- MODULE SumLemmas -----------------------------
(***************************************************************************)
(* Induction over the natural numbers, as a fact about sets of them, and    *)
(* what follows of recursive functions that add up the values of another    *)
(* function: such a function exists, and only one; it grows; and the sum    *)
(* of a part of the values is the difference of two of its values.         *)
(***************************************************************************)
EXTENDS Integers, WellFoundedInduction, TLAPS

(* A set that holds 0, and with a number the next one, holds every number.  *)
LEMMA SetInduction ==
  ASSUME NEW S, 0 \in S, \A n \in Nat : n \in S => n + 1 \in S
  PROVE  Nat \subseteq S
<1>1. SUFFICES ASSUME Nat \ S # {} PROVE FALSE
  OBVIOUS
<1>2. PICK x \in Nat \ S : \A y \in Nat \ S : ~(<<y, x>> \in OpToRel(<, Nat))
  BY <1>1, NatLessThanWellFounded, WFMin
<1>3. \A y \in Nat \ S : ~(y < x)
  BY <1>2, Zenon DEF OpToRel
<1>4. x - 1 \in Nat \ S
  <2>1. x \in Nat /\ x # 0 /\ x \notin S
    OBVIOUS
  <2>2. x - 1 \in Nat /\ (x - 1) + 1 = x
    BY <2>1
  <2>3. x - 1 \notin S
    BY <2>1, <2>2
  <2>4. QED BY <2>2, <2>3
<1>5. QED BY <1>3, <1>4

(* s adds up the first N values of b.                                      *)
AddsUp(s, b, N) == s = [n \in 0..N |-> IF n = 0 THEN 0 ELSE s[n - 1] + b[n]]

LEMMA SumValues ==
  ASSUME NEW N \in Nat, NEW b \in [1..N -> Nat], NEW s, AddsUp(s, b, N)
  PROVE  /\ s \in [0..N -> Nat]
         /\ s[0] = 0
         /\ \A n \in 1..N : s[n] = s[n - 1] + b[n]
<1>1. s[0] = 0 /\ \A n \in 1..N : s[n] = s[n - 1] + b[n]
  BY DEF AddsUp
<1> DEFINE S == {n \in Nat : n <= N => s[n] \in Nat}
<1>2. 0 \in S
  BY <1>1
<1>3. ASSUME NEW n \in Nat, n \in S PROVE n + 1 \in S
  BY <1>1, <1>3
<1>4. Nat \subseteq S
  <2> HIDE DEF S
  <2> QED BY <1>2, <1>3, SetInduction
<1>5. \A n \in 0..N : s[n] \in Nat
  BY <1>4
<1>6. s = [n \in 0..N |-> s[n]]
  BY DEF AddsUp
<1>7. QED BY <1>1, <1>5, <1>6

LEMMA SumExists ==
  ASSUME NEW N \in Nat, NEW b \in [1..N -> Nat]
  PROVE  \E s : AddsUp(s, b, N)
<1> DEFINE S == {n \in Nat : n <= N => \E s : AddsUp(s, b, n)}
<1>1. 0 \in S
  <2>1. AddsUp([n \in 0..0 |-> 0], b, 0)
    BY DEF AddsUp
  <2>2. QED BY <2>1
<1>2. ASSUME NEW n \in Nat, n \in S PROVE n + 1 \in S
  <2>1. SUFFICES ASSUME n + 1 <= N PROVE \E s : AddsUp(s, b, n + 1)
    OBVIOUS
  <2>2. PICK s : AddsUp(s, b, n)
    BY <1>2, <2>1
  <2>3. DEFINE t == [m \in 0..(n + 1) |-> IF m = n + 1 THEN s[n] + b[n + 1] ELSE s[m]]
  <2>4. ASSUME NEW m \in 0..(n + 1)
        PROVE  t[m] = IF m = 0 THEN 0 ELSE t[m - 1] + b[m]
    BY <2>2 DEF AddsUp
  <2>5. AddsUp(t, b, n + 1)
    BY <2>4 DEF AddsUp
  <2>6. QED BY <2>5
<1>3. Nat \subseteq S
  <2> HIDE DEF S
  <2> QED BY <1>1, <1>2, SetInduction
<1>4. QED BY <1>3

(* Two functions that start alike and go on alike agree.                   *)
LEMMA StepwiseEqual ==
  ASSUME NEW K \in Nat, NEW s, NEW t, s[0] = t[0],
         \A n \in 1..K : s[n - 1] = t[n - 1] => s[n] = t[n]
  PROVE  s[K] = t[K]
<1> DEFINE S == {n \in Nat : n <= K => s[n] = t[n]}
<1>1. 0 \in S
  OBVIOUS
<1>2. ASSUME NEW n \in Nat, n \in S PROVE n + 1 \in S
  <2>1. SUFFICES ASSUME n + 1 <= K PROVE s[n + 1] = t[n + 1]
    OBVIOUS
  <2>2. s[n] = t[n] /\ n + 1 \in 1..K /\ (n + 1) - 1 = n
    BY <1>2, <2>1
  <2>3. QED BY <2>2
<1>3. Nat \subseteq S
  <2> HIDE DEF S
  <2> QED BY <1>1, <1>2, SetInduction
<1>4. QED BY <1>3

(* A sum grows.                                                            *)
LEMMA SumGrows ==
  ASSUME NEW N \in Nat, NEW b \in [1..N -> Nat], NEW s, AddsUp(s, b, N),
         NEW i \in 0..N, NEW j \in i..N
  PROVE  s[i] <= s[j]
<1>1. s \in [0..N -> Nat] /\ \A n \in 1..N : s[n] = s[n - 1] + b[n]
  BY SumValues
<1> DEFINE S == {n \in Nat : i + n <= N => s[i] <= s[i + n]}
<1>2. 0 \in S
  BY <1>1
<1>3. ASSUME NEW n \in Nat, n \in S PROVE n + 1 \in S
  <2>1. SUFFICES ASSUME i + n + 1 <= N PROVE s[i] <= s[i + (n + 1)]
    OBVIOUS
  <2>2. s[i + n + 1] = s[i + n] + b[i + n + 1] /\ s[i] <= s[i + n]
    BY <1>1, <1>3, <2>1
  <2>3. s[i] \in Nat /\ s[i + n] \in Nat /\ b[i + n + 1] \in Nat
    BY <1>1, <2>1
  <2>4. QED BY <2>2, <2>3
<1>4. Nat \subseteq S
  <2> HIDE DEF S
  <2> QED BY <1>2, <1>3, SetInduction
<1>5. j - i \in Nat /\ i + (j - i) = j /\ j <= N
  OBVIOUS
<1>6. j - i \in S
  BY <1>4, <1>5
<1>7. QED BY <1>5, <1>6
=============================================================================
