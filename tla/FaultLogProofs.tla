--------------------------- MODULE FaultLogProofs ---------------------------
(***************************************************************************)
(* Proofs about FaultLog, for any set of parts: the reads keep to the       *)
(* buffers, however many logs are read and fail one after the other, what   *)
(* they fetch is the log, each word in its place, and what is printed of it *)
(* is telemetry that was read, all of it.                                  *)
(***************************************************************************)
EXTENDS FaultLog, SumLemmas, TLAPS

-----------------------------------------------------------------------------
(* What the layouts come to: the bytes of each part's loop, and the places   *)
(* of its printed fields inside of it.  Bytes adds up the fields of a loop   *)
(* one after the other; that two sequences of fields, one behind the other,  *)
(* take the bytes of both is proved by induction over their fields, and the  *)
(* loops are then added up from their pieces.                              *)

(* The fields that a loop is made of, and their sizes.                     *)
Field == [bytes : {1, 2}, shown : BOOLEAN]
SizesOf(loop) == [n \in 1..Len(loop) |-> loop[n].bytes]

(* The sizes of the fields of a loop are those of bytes and words.         *)
LEMMA SizesType ==
  ASSUME NEW loop \in Seq(Field)
  PROVE  /\ Len(loop) \in Nat
         /\ \A n \in 1..Len(loop) : loop[n] \in Field /\ loop[n].bytes \in {1, 2}
         /\ SizesOf(loop) \in [1..Len(loop) -> Nat]
<1>1. Len(loop) \in Nat
  OBVIOUS
<1>2. \A n \in 1..Len(loop) : loop[n] \in Field
  OBVIOUS
<1>3. \A n \in 1..Len(loop) : loop[n].bytes \in {1, 2}
  BY <1>2 DEF Field
<1>4. SizesOf(loop) \in [1..Len(loop) -> Nat]
  BY <1>3 DEF SizesOf
<1>5. QED BY <1>1, <1>2, <1>3, <1>4

(* Bytes(loop) is the last value of a function that adds up its sizes:     *)
(* there is one, so that the function Bytes defines by recursion is one.   *)
LEMMA BytesSum ==
  ASSUME NEW loop \in Seq(Field)
  PROVE  \E s : AddsUp(s, SizesOf(loop), Len(loop)) /\ Bytes(loop) = s[Len(loop)]
<1> DEFINE P(s) == s = [n \in 0..Len(loop) |-> IF n = 0 THEN 0 ELSE s[n - 1] + loop[n].bytes]
<1>1. \A s : AddsUp(s, SizesOf(loop), Len(loop)) <=> P(s)
  <2>1. SUFFICES ASSUME NEW s PROVE AddsUp(s, SizesOf(loop), Len(loop)) <=> P(s)
    OBVIOUS
  <2>2. [n \in 0..Len(loop) |-> IF n = 0 THEN 0 ELSE s[n - 1] + SizesOf(loop)[n]]
        = [n \in 0..Len(loop) |-> IF n = 0 THEN 0 ELSE s[n - 1] + loop[n].bytes]
    BY DEF SizesOf
  <2>3. QED BY <2>2 DEF AddsUp
<1>2. \E s : P(s)
  BY <1>1, SizesType, SumExists
<1>3. P(CHOOSE s : P(s))
  <2> HIDE DEF P
  <2> QED BY <1>2, Zenon
<1>4. Bytes(loop) = (CHOOSE s : P(s))[Len(loop)]
  BY DEF Bytes
<1>5. QED BY <1>1, <1>3, <1>4

(* Of two sequences of fields, one behind the other, the bytes add up.     *)
LEMMA BytesConcat ==
  ASSUME NEW a \in Seq(Field), NEW b \in Seq(Field)
  PROVE  /\ a \o b \in Seq(Field)
         /\ Bytes(a) \in Nat /\ Bytes(b) \in Nat
         /\ Bytes(a \o b) = Bytes(a) + Bytes(b)
<1>1. a \o b \in Seq(Field) /\ Len(a \o b) = Len(a) + Len(b) /\ Len(a) \in Nat /\ Len(b) \in Nat
  OBVIOUS
<1>2. /\ \A n \in 1..Len(a) : SizesOf(a \o b)[n] = SizesOf(a)[n]
      /\ \A n \in 1..Len(b) : SizesOf(b)[n] = SizesOf(a \o b)[Len(a) + n]
  BY <1>1 DEF SizesOf
<1>3. PICK s : AddsUp(s, SizesOf(a), Len(a)) /\ Bytes(a) = s[Len(a)]
  BY BytesSum
<1>4. PICK t : AddsUp(t, SizesOf(b), Len(b)) /\ Bytes(b) = t[Len(b)]
  BY BytesSum
<1>5. PICK u : AddsUp(u, SizesOf(a \o b), Len(a \o b)) /\ Bytes(a \o b) = u[Len(a \o b)]
  BY <1>1, BytesSum
<1> DEFINE j == Len(a)
           k == Len(b)
           m == Len(a \o b)
           sizesA == SizesOf(a)
           sizesB == SizesOf(b)
           sizes == SizesOf(a \o b)
<1>6. /\ sizesA \in [1..j -> Nat] /\ sizesB \in [1..k -> Nat] /\ sizes \in [1..m -> Nat]
      /\ j \in Nat /\ k \in Nat /\ m \in Nat /\ m = j + k
      /\ AddsUp(s, sizesA, j) /\ AddsUp(t, sizesB, k) /\ AddsUp(u, sizes, m)
      /\ \A n \in 1..j : sizesA[n] = sizes[n]
      /\ \A n \in 1..k : sizesB[n] = sizes[j + n]
  BY <1>1, <1>2, <1>3, <1>4, <1>5, SizesType
<1>7. s[j] \in Nat /\ t[k] \in Nat /\ u[m] = s[j] + t[k]
  <2> HIDE DEF j, k, m, sizesA, sizesB, sizes
  <2>1. s \in [0..j -> Nat] /\ s[0] = 0 /\ \A n \in 1..j : s[n] = s[n - 1] + sizesA[n]
    BY <1>6, SumValues, ZenonT(60)
  <2>2. t \in [0..k -> Nat] /\ t[0] = 0 /\ \A n \in 1..k : t[n] = t[n - 1] + sizesB[n]
    BY <1>6, SumValues, ZenonT(60)
  <2>3. u \in [0..m -> Nat] /\ u[0] = 0 /\ \A n \in 1..m : u[n] = u[n - 1] + sizes[n]
    BY <1>6, SumValues, ZenonT(60)
  <2>4. u[j] = s[j]
    <3>1. \A n \in 1..j : u[n - 1] = s[n - 1] => u[n] = s[n]
      BY <1>6, <2>1, <2>3
    <3>2. j \in Nat /\ u[0] = s[0]
      BY <1>6, <2>1, <2>3
    <3>3. QED BY <3>1, <3>2, StepwiseEqual, Zenon
  <2>5. u[j + k] = u[j] + t[k]
    <3>1. ASSUME NEW n \in 1..k, u[j + n - 1] = u[j] + t[n - 1]
          PROVE  u[j + n] = u[j] + t[n]
      <4>1. j + n \in 1..m /\ n - 1 \in 0..k /\ j \in 0..m /\ (j + n) - 1 = j + n - 1
        BY <1>6
      <4>2. u[j + n] = u[j + n - 1] + sizes[j + n]
        BY <2>3, <4>1
      <4>5. t[n] = t[n - 1] + sizes[j + n]
        BY <1>6, <2>2
      <4>3. u[j] \in Nat /\ t[n - 1] \in Nat /\ sizes[j + n] \in Nat
        BY <1>6, <2>2, <2>3, <4>1
      <4>4. QED BY <3>1, <4>2, <4>3, <4>5
    <3> DEFINE ahead == [n \in 0..k |-> u[j + n]]
               from == [n \in 0..k |-> u[j] + t[n]]
    <3>2. k \in Nat /\ ahead[0] = from[0] /\ ahead[k] = u[j + k] /\ from[k] = u[j] + t[k]
      <4>1. u[j] \in Nat /\ t[0] = 0 /\ j \in Nat /\ k \in Nat
        BY <1>6, <2>2, <2>3
      <4>2. QED BY <4>1
    <3>3. ASSUME NEW n \in 1..k, ahead[n - 1] = from[n - 1] PROVE ahead[n] = from[n]
      <4>1. n - 1 \in 0..k /\ n \in 0..k /\ j + (n - 1) = j + n - 1
        BY <1>6
      <4>2. QED BY <3>1, <3>3, <4>1
    <3>4. ahead[k] = from[k]
      <4> HIDE DEF ahead, from
      <4> QED BY <3>2, <3>3, StepwiseEqual, Zenon
    <3>5. QED BY <3>2, <3>4
  <2>6. QED BY <1>6, <2>1, <2>2, <2>4, <2>5
<1>8. QED BY <1>1, <1>3, <1>4, <1>5, <1>7

(* A printed field lies inside of its loop; behind its first byte, if the  *)
(* first field of the loop is a word.                                      *)
LEMMA PlacesInside ==
  ASSUME NEW loop \in Seq(Field), NEW p \in Places(loop)
  PROVE  /\ p.from \in Nat /\ p.to \in Nat /\ Bytes(loop) \in Nat
         /\ p.from <= p.to /\ p.to < Bytes(loop)
         /\ loop[1].bytes = 2 => p.to >= 1
<1>1. PICK f \in 1..Len(loop) :
        p = [from |-> Bytes(SubSeq(loop, 1, f - 1)), to |-> Bytes(SubSeq(loop, 1, f)) - 1]
  BY DEF Places
<1>2. PICK s : AddsUp(s, SizesOf(loop), Len(loop)) /\ Bytes(loop) = s[Len(loop)]
  BY BytesSum
<1>3. /\ Len(loop) \in Nat /\ SizesOf(loop) \in [1..Len(loop) -> Nat]
      /\ \A n \in 1..Len(loop) : loop[n].bytes \in {1, 2}
  BY SizesType
<1>4. ASSUME NEW k \in 0..Len(loop) PROVE Bytes(SubSeq(loop, 1, k)) = s[k]
  <2>1. /\ SubSeq(loop, 1, k) \in Seq(Field) /\ Len(SubSeq(loop, 1, k)) = k
        /\ \A n \in 1..k : SubSeq(loop, 1, k)[n] = loop[n]
    BY <1>3
  <2>2. PICK t : AddsUp(t, SizesOf(SubSeq(loop, 1, k)), k) /\ Bytes(SubSeq(loop, 1, k)) = t[k]
    BY <2>1, BytesSum
  <2> DEFINE N == Len(loop)
             sizes == SizesOf(loop)
             first == SizesOf(SubSeq(loop, 1, k))
  <2>3. /\ k \in Nat /\ N \in Nat /\ k <= N /\ sizes \in [1..N -> Nat] /\ first \in [1..k -> Nat]
        /\ AddsUp(s, sizes, N) /\ AddsUp(t, first, k)
        /\ \A n \in 1..k : first[n] = sizes[n]
    <3>1. first \in [1..k -> Nat]
      BY <2>1, SizesType
    <3>2. \A n \in 1..k : first[n] = sizes[n]
      BY <1>3, <2>1 DEF SizesOf
    <3>3. QED BY <1>2, <1>3, <2>2, <3>1, <3>2
  <2>4. t[k] = s[k]
    <3> HIDE DEF N, sizes, first
    <3>1. /\ \A n \in 1..N : s[n] = s[n - 1] + sizes[n]
          /\ \A n \in 1..k : t[n] = t[n - 1] + first[n]
          /\ s[0] = 0 /\ t[0] = 0
      BY <2>3, SumValues
    <3>2. \A n \in 1..k : t[n - 1] = s[n - 1] => t[n] = s[n]
      BY <2>3, <3>1
    <3>3. k \in Nat /\ t[0] = s[0]
      BY <2>3, <3>1
    <3>4. QED BY <3>2, <3>3, StepwiseEqual, Zenon
  <2>5. QED BY <2>2, <2>4
<1>5. /\ s \in [0..Len(loop) -> Nat] /\ s[0] = 0
      /\ \A n \in 1..Len(loop) : s[n] = s[n - 1] + loop[n].bytes
  <2>1. /\ s \in [0..Len(loop) -> Nat] /\ s[0] = 0
        /\ \A n \in 1..Len(loop) : s[n] = s[n - 1] + SizesOf(loop)[n]
    BY <1>2, <1>3, SumValues
  <2>2. QED BY <2>1 DEF SizesOf
<1>6. /\ f - 1 \in 0..Len(loop) /\ f \in 0..Len(loop) /\ f \in 1..Len(loop)
      /\ Len(loop) \in f..Len(loop)
  BY <1>3
<1>7. s[f] <= s[Len(loop)]
  BY <1>2, <1>3, <1>6, SumGrows
<1>8. p.from = s[f - 1] /\ p.to = s[f] - 1
  BY <1>1, <1>4, <1>6
<1>9. s[f - 1] \in Nat /\ s[f] \in Nat /\ s[Len(loop)] \in Nat /\ s[f] = s[f - 1] + loop[f].bytes
  BY <1>3, <1>5, <1>6, SMTT(40)
<1>10. ASSUME loop[1].bytes = 2 PROVE s[f] >= 2
  <2>1. 1 \in 1..Len(loop) /\ 1 \in 0..Len(loop) /\ f \in 1..Len(loop)
    BY <1>3, <1>6
  <2>2. s[1] = 2
    BY <1>5, <1>10, <2>1
  <2>3. s[1] <= s[f]
    BY <1>2, <1>3, <2>1, SumGrows
  <2>4. QED BY <1>9, <2>2, <2>3
<1>11. QED BY <1>2, <1>3, <1>6, <1>7, <1>8, <1>9, <1>10

(* The kinds of fields.                                                    *)
LEMMA FieldTypes ==
  /\ Byte \in Field /\ Word \in Field /\ UnusedByte \in Field /\ UnusedWord \in Field
  /\ Byte.bytes = 1 /\ Word.bytes = 2 /\ UnusedByte.bytes = 1 /\ UnusedWord.bytes = 2
  BY DEF Byte, Word, UnusedByte, UnusedWord, Field

(* The fields of short sequences, summed one by one.                       *)
LEMMA BytesOfFew ==
  ASSUME NEW loop \in Seq(Field)
  PROVE  /\ Len(loop) = 1 => Bytes(loop) = loop[1].bytes
         /\ Len(loop) = 2 => Bytes(loop) = loop[1].bytes + loop[2].bytes
         /\ Len(loop) = 3 => Bytes(loop) = loop[1].bytes + loop[2].bytes + loop[3].bytes
         /\ Len(loop) = 4 => Bytes(loop) = loop[1].bytes + loop[2].bytes + loop[3].bytes + loop[4].bytes
<1> DEFINE sizes == SizesOf(loop)
           N == Len(loop)
<1>1. N \in Nat /\ sizes \in [1..N -> Nat] /\ \A n \in 1..N : sizes[n] = loop[n].bytes
  BY SizesType DEF SizesOf
<1>2. PICK s : AddsUp(s, sizes, N) /\ Bytes(loop) = s[N]
  BY BytesSum
<1>3. s[0] = 0 /\ \A n \in 1..N : s[n] = s[n - 1] + sizes[n]
  <2> HIDE DEF sizes, N
  <2> QED BY <1>1, <1>2, SumValues
<1>4. \A n \in 1..N : loop[n].bytes \in Nat
  BY SizesType
<1> HIDE DEF sizes
<1>5. /\ N >= 1 => s[1] = loop[1].bytes
      /\ N >= 2 => s[2] = loop[1].bytes + loop[2].bytes
      /\ N >= 3 => s[3] = loop[1].bytes + loop[2].bytes + loop[3].bytes
      /\ N >= 4 => s[4] = loop[1].bytes + loop[2].bytes + loop[3].bytes + loop[4].bytes
  <2>1. N >= 1 => s[1] = loop[1].bytes
    BY <1>1, <1>3, <1>4
  <2>2. N >= 2 => s[2] = loop[1].bytes + loop[2].bytes
    BY <1>1, <1>3, <1>4, <2>1
  <2>3. N >= 3 => s[3] = loop[1].bytes + loop[2].bytes + loop[3].bytes
    BY <1>1, <1>3, <1>4, <2>2
  <2>4. N >= 4 => s[4] = loop[1].bytes + loop[2].bytes + loop[3].bytes + loop[4].bytes
    BY <1>1, <1>3, <1>4, <2>3
  <2>5. QED BY <2>1, <2>2, <2>3, <2>4
<1>6. /\ N = 1 => Bytes(loop) = s[1]
      /\ N = 2 => Bytes(loop) = s[2]
      /\ N = 3 => Bytes(loop) = s[3]
      /\ N = 4 => Bytes(loop) = s[4]
  <2> HIDE DEF N
  <2> QED BY <1>2, Zenon
<1>7. QED BY <1>5, <1>6

(* The same of sequences that are written out.                             *)
LEMMA BytesOf1 ==
  ASSUME NEW u \in Field
  PROVE  <<u>> \in Seq(Field) /\ Bytes(<<u>>) = u.bytes
<1> DEFINE loop == <<u>>
<1>1. loop \in Seq(Field) /\ Len(loop) = 1 /\ loop[1] = u
  OBVIOUS
<1>2. Bytes(loop) = u.bytes
  <2> HIDE DEF loop
  <2> QED BY <1>1, BytesOfFew
<1>3. QED BY <1>1, <1>2

LEMMA BytesOf2 ==
  ASSUME NEW u \in Field, NEW v \in Field
  PROVE  <<u, v>> \in Seq(Field) /\ Bytes(<<u, v>>) = u.bytes + v.bytes
<1> DEFINE loop == <<u, v>>
<1>1. loop \in Seq(Field) /\ Len(loop) = 2 /\ loop[1] = u /\ loop[2] = v
  OBVIOUS
<1>2. Bytes(loop) = u.bytes + v.bytes
  <2> HIDE DEF loop
  <2> QED BY <1>1, BytesOfFew
<1>3. QED BY <1>1, <1>2

LEMMA BytesOf3 ==
  ASSUME NEW u \in Field, NEW v \in Field, NEW w \in Field
  PROVE  <<u, v, w>> \in Seq(Field) /\ Bytes(<<u, v, w>>) = u.bytes + v.bytes + w.bytes
<1> DEFINE loop == <<u, v, w>>
<1>1. loop \in Seq(Field) /\ Len(loop) = 3 /\ loop[1] = u /\ loop[2] = v /\ loop[3] = w
  OBVIOUS
<1>2. Bytes(loop) = u.bytes + v.bytes + w.bytes
  <2> HIDE DEF loop
  <2> QED BY <1>1, BytesOfFew
<1>3. QED BY <1>1, <1>2

LEMMA BytesOf4 ==
  ASSUME NEW u \in Field, NEW v \in Field, NEW w \in Field, NEW x \in Field
  PROVE  <<u, v, w, x>> \in Seq(Field) /\ Bytes(<<u, v, w, x>>) = u.bytes + v.bytes + w.bytes + x.bytes
<1> DEFINE loop == <<u, v, w, x>>
<1>1. loop \in Seq(Field) /\ Len(loop) = 4 /\ loop[1] = u /\ loop[2] = v /\ loop[3] = w /\ loop[4] = x
  OBVIOUS
<1>2. Bytes(loop) = u.bytes + v.bytes + w.bytes + x.bytes
  <2> HIDE DEF loop
  <2> QED BY <1>1, BytesOfFew
<1>3. QED BY <1>1, <1>2


(* A sequence of fields, the bytes it takes and its first field.           *)
Laid(loop, bytes, first) == /\ loop \in Seq(Field) /\ Len(loop) \in Nat \ {0}
                            /\ Bytes(loop) = bytes /\ loop[1] = first

(* Of two sequences of fields laid one behind the other, the first field   *)
(* is that of the first.                                                   *)
LEMMA LaidOut ==
  ASSUME NEW a, NEW b, NEW m \in Nat, NEW n \in Nat, NEW x, NEW y,
         Laid(a, m, x), Laid(b, n, y)
  PROVE  Laid(a \o b, m + n, x)
<1>1. a \in Seq(Field) /\ b \in Seq(Field) /\ Bytes(a) = m /\ Bytes(b) = n
  BY DEF Laid
<1>2. a \o b \in Seq(Field) /\ Bytes(a \o b) = m + n
  BY <1>1, BytesConcat
<1>3. Len(a \o b) \in Nat \ {0} /\ (a \o b)[1] = x
  BY <1>1 DEF Laid
<1>4. QED BY <1>2, <1>3 DEF Laid

(* The loops, from their pieces.                                           *)
LEMMA TwoChannelsLaid == Laid(TwoChannels, 8, Word)
  BY FieldTypes, BytesOf4 DEF Laid, TwoChannels

LEMMA TwoStatusesLaid == Laid(TwoStatuses, 8, Byte)
<1> DEFINE a == <<Byte, Byte, Word, Word>>
           b == <<Byte, Byte>>
<1>1. TwoStatuses = a \o b
  BY DEF TwoStatuses
<1>2. Laid(a, 6, Byte)
  BY FieldTypes, BytesOf4 DEF Laid
<1>3. Laid(b, 2, Byte)
  BY FieldTypes, BytesOf2 DEF Laid
<1> HIDE DEF a, b
<1>4. Laid(a \o b, 8, Byte)
  BY <1>2, <1>3, LaidOut
<1>5. QED BY <1>1, <1>4

LEMMA FullChannelLaid == Laid(FullChannel, 12, Word)
<1> DEFINE a == <<Word, Word, Byte, Byte>>
           b == <<Word, Byte, Byte, Word>>
<1>1. FullChannel = a \o b
  BY DEF FullChannel
<1>2. Laid(a, 6, Word)
  BY FieldTypes, BytesOf4 DEF Laid
<1>3. Laid(b, 6, Word)
  BY FieldTypes, BytesOf4 DEF Laid
<1> HIDE DEF a, b
<1>4. Laid(a \o b, 12, Word)
  BY <1>2, <1>3, LaidOut
<1>5. QED BY <1>1, <1>4

LEMMA InputLaid == Laid(Input, 3, Byte)
  BY FieldTypes, BytesOf2 DEF Laid, Input

LEMMA Loop3880Laid == Laid(Loop3880, 20, Word)
<1> DEFINE a == <<Word, Word>>
<1>1. Loop3880 = TwoChannels \o a \o TwoStatuses
  BY DEF Loop3880
<1>2. Laid(a, 4, Word)
  BY FieldTypes, BytesOf2 DEF Laid
<1> HIDE DEF a
<1>3. Laid(TwoChannels \o a, 12, Word)
  BY TwoChannelsLaid, <1>2, LaidOut
<1>4. Laid(TwoChannels \o a \o TwoStatuses, 20, Word)
  BY <1>3, TwoStatusesLaid, LaidOut
<1>5. QED BY <1>1, <1>4

LEMMA Loop3884Laid == Laid(Loop3884, 20, Word)
<1> DEFINE a == <<Word, Word>>
<1>1. Loop3884 = TwoChannels \o a \o TwoStatuses
  BY DEF Loop3884
<1>2. Laid(a, 4, Word)
  BY FieldTypes, BytesOf2 DEF Laid
<1> HIDE DEF a
<1>3. Laid(TwoChannels \o a, 12, Word)
  BY TwoChannelsLaid, <1>2, LaidOut
<1>4. Laid(TwoChannels \o a \o TwoStatuses, 20, Word)
  BY <1>3, TwoStatusesLaid, LaidOut
<1>5. QED BY <1>1, <1>4

LEMMA Loop3886Laid == Laid(Loop3886, 20, Word)
<1> DEFINE a == <<Word, Word>>
<1>1. Loop3886 = TwoChannels \o a \o TwoStatuses
  BY DEF Loop3886
<1>2. Laid(a, 4, Word)
  BY FieldTypes, BytesOf2 DEF Laid
<1> HIDE DEF a
<1>3. Laid(TwoChannels \o a, 12, Word)
  BY TwoChannelsLaid, <1>2, LaidOut
<1>4. Laid(TwoChannels \o a \o TwoStatuses, 20, Word)
  BY <1>3, TwoStatusesLaid, LaidOut
<1>5. QED BY <1>1, <1>4

LEMMA Loop3887Laid == Laid(Loop3887, 20, Word)
<1> DEFINE a == <<Word, Word>>
<1>1. Loop3887 = TwoChannels \o a \o TwoStatuses
  BY DEF Loop3887
<1>2. Laid(a, 4, Word)
  BY FieldTypes, BytesOf2 DEF Laid
<1> HIDE DEF a
<1>3. Laid(TwoChannels \o a, 12, Word)
  BY TwoChannelsLaid, <1>2, LaidOut
<1>4. Laid(TwoChannels \o a \o TwoStatuses, 20, Word)
  BY <1>3, TwoStatusesLaid, LaidOut
<1>5. QED BY <1>1, <1>4

LEMMA Loop3889Laid == Laid(Loop3889, 20, Word)
<1> DEFINE a == <<Word, Word>>
<1>1. Loop3889 = TwoChannels \o a \o TwoStatuses
  BY DEF Loop3889
<1>2. Laid(a, 4, Word)
  BY FieldTypes, BytesOf2 DEF Laid
<1> HIDE DEF a
<1>3. Laid(TwoChannels \o a, 12, Word)
  BY TwoChannelsLaid, <1>2, LaidOut
<1>4. Laid(TwoChannels \o a \o TwoStatuses, 20, Word)
  BY <1>3, TwoStatusesLaid, LaidOut
<1>5. QED BY <1>1, <1>4

LEMMA Loop7880Laid == Laid(Loop7880, 20, Word)
<1> DEFINE a == <<Word, Word>>
<1>1. Loop7880 = TwoChannels \o a \o TwoStatuses
  BY DEF Loop7880
<1>2. Laid(a, 4, Word)
  BY FieldTypes, BytesOf2 DEF Laid
<1> HIDE DEF a
<1>3. Laid(TwoChannels \o a, 12, Word)
  BY TwoChannelsLaid, <1>2, LaidOut
<1>4. Laid(TwoChannels \o a \o TwoStatuses, 20, Word)
  BY <1>3, TwoStatusesLaid, LaidOut
<1>5. QED BY <1>1, <1>4

LEMMA Loop3882Laid == Laid(Loop3882, 20, Word)
<1> DEFINE a == <<Word, UnusedWord>>
<1>1. Loop3882 = TwoChannels \o a \o TwoStatuses
  BY DEF Loop3882
<1>2. Laid(a, 4, Word)
  BY FieldTypes, BytesOf2 DEF Laid
<1> HIDE DEF a
<1>3. Laid(TwoChannels \o a, 12, Word)
  BY TwoChannelsLaid, <1>2, LaidOut
<1>4. Laid(TwoChannels \o a \o TwoStatuses, 20, Word)
  BY <1>3, TwoStatusesLaid, LaidOut
<1>5. QED BY <1>1, <1>4

LEMMA Loop3888Laid == Laid(Loop3888, 20, Word)
<1> DEFINE a == <<Word, UnusedWord>>
<1>1. Loop3888 = TwoChannels \o a \o TwoStatuses
  BY DEF Loop3888
<1>2. Laid(a, 4, Word)
  BY FieldTypes, BytesOf2 DEF Laid
<1> HIDE DEF a
<1>3. Laid(TwoChannels \o a, 12, Word)
  BY TwoChannelsLaid, <1>2, LaidOut
<1>4. Laid(TwoChannels \o a \o TwoStatuses, 20, Word)
  BY <1>3, TwoStatusesLaid, LaidOut
<1>5. QED BY <1>1, <1>4

LEMMA Loop3883Laid == Laid(Loop3883, 20, Word)
<1> DEFINE a == <<Word, UnusedWord, Word, UnusedWord>>
           b == <<Word, Word, Byte, UnusedByte>>
           c == <<Word, UnusedWord, Byte, UnusedByte>>
<1>1. Loop3883 = a \o b \o c
  BY DEF Loop3883
<1>2. Laid(a, 8, Word)
  BY FieldTypes, BytesOf4 DEF Laid
<1>3. Laid(b, 6, Word)
  BY FieldTypes, BytesOf4 DEF Laid
<1>4. Laid(c, 6, Word)
  BY FieldTypes, BytesOf4 DEF Laid
<1> HIDE DEF a, b, c
<1>5. Laid(a \o b, 14, Word)
  BY <1>2, <1>3, LaidOut
<1>6. Laid(a \o b \o c, 20, Word)
  BY <1>5, <1>4, LaidOut
<1>7. QED BY <1>1, <1>6

LEMMA Loop2974Laid == Laid(Loop2974, 54, Word)
<1> DEFINE a == <<UnusedByte>>
           b == <<Word>>
<1>1. Loop2974 = FullChannel \o FullChannel \o FullChannel \o a \o Input \o FullChannel \o b
  BY DEF Loop2974
<1>2. Laid(a, 1, UnusedByte)
  BY FieldTypes, BytesOf1 DEF Laid
<1>3. Laid(b, 2, Word)
  BY FieldTypes, BytesOf1 DEF Laid
<1> HIDE DEF a, b
<1>4. Laid(FullChannel \o FullChannel, 24, Word)
  BY FullChannelLaid, LaidOut
<1>5. Laid(FullChannel \o FullChannel \o FullChannel, 36, Word)
  BY <1>4, FullChannelLaid, LaidOut
<1>6. Laid(FullChannel \o FullChannel \o FullChannel \o a, 37, Word)
  BY <1>5, <1>2, LaidOut
<1>7. Laid(FullChannel \o FullChannel \o FullChannel \o a \o Input, 40, Word)
  BY <1>6, InputLaid, LaidOut
<1>8. Laid(FullChannel \o FullChannel \o FullChannel \o a \o Input \o FullChannel, 52, Word)
  BY <1>7, FullChannelLaid, LaidOut
<1>9. Laid(FullChannel \o FullChannel \o FullChannel \o a \o Input \o FullChannel \o b, 54, Word)
  BY <1>8, <1>3, LaidOut
<1>10. QED BY <1>1, <1>9

LEMMA Loop2975Laid == Laid(Loop2975, 58, Word)
<1> DEFINE a == <<Word, Word, UnusedByte>>
           b == <<Word>>
<1>1. Loop2975 = FullChannel \o FullChannel \o FullChannel \o a \o Input \o FullChannel \o b
  BY DEF Loop2975
<1>2. Laid(a, 5, Word)
  BY FieldTypes, BytesOf3 DEF Laid
<1>3. Laid(b, 2, Word)
  BY FieldTypes, BytesOf1 DEF Laid
<1> HIDE DEF a, b
<1>4. Laid(FullChannel \o FullChannel, 24, Word)
  BY FullChannelLaid, LaidOut
<1>5. Laid(FullChannel \o FullChannel \o FullChannel, 36, Word)
  BY <1>4, FullChannelLaid, LaidOut
<1>6. Laid(FullChannel \o FullChannel \o FullChannel \o a, 41, Word)
  BY <1>5, <1>2, LaidOut
<1>7. Laid(FullChannel \o FullChannel \o FullChannel \o a \o Input, 44, Word)
  BY <1>6, InputLaid, LaidOut
<1>8. Laid(FullChannel \o FullChannel \o FullChannel \o a \o Input \o FullChannel, 56, Word)
  BY <1>7, FullChannelLaid, LaidOut
<1>9. Laid(FullChannel \o FullChannel \o FullChannel \o a \o Input \o FullChannel \o b, 58, Word)
  BY <1>8, <1>3, LaidOut
<1>10. QED BY <1>1, <1>9

LEMMA Loop2972Laid == Laid(Loop2972, 36, Word)
<1> DEFINE a == <<Word, Word, Byte, Byte>>
           b == <<Word, Byte, Byte, Byte>>
           c == <<Word>>
           d == <<Word, Word, UnusedByte>>
<1>1. Loop2972 = a \o b \o c \o d \o Input \o a \o b \o c \o c
  BY SMTT(40) DEF Loop2972
<1>2. Laid(a, 6, Word)
  BY FieldTypes, BytesOf4 DEF Laid
<1>3. Laid(b, 5, Word)
  BY FieldTypes, BytesOf4 DEF Laid
<1>4. Laid(c, 2, Word)
  BY FieldTypes, BytesOf1 DEF Laid
<1>5. Laid(d, 5, Word)
  BY FieldTypes, BytesOf3 DEF Laid
<1> HIDE DEF a, b, c, d
<1>6. Laid(a \o b, 11, Word)
  BY <1>2, <1>3, LaidOut
<1>7. Laid(a \o b \o c, 13, Word)
  BY <1>6, <1>4, LaidOut
<1>8. Laid(a \o b \o c \o d, 18, Word)
  BY <1>7, <1>5, LaidOut
<1>9. Laid(a \o b \o c \o d \o Input, 21, Word)
  BY <1>8, InputLaid, LaidOut
<1>10. Laid(a \o b \o c \o d \o Input \o a, 27, Word)
  BY <1>9, <1>2, LaidOut
<1>11. Laid(a \o b \o c \o d \o Input \o a \o b, 32, Word)
  BY <1>10, <1>3, LaidOut
<1>12. Laid(a \o b \o c \o d \o Input \o a \o b \o c, 34, Word)
  BY <1>11, <1>4, LaidOut
<1>13. Laid(a \o b \o c \o d \o Input \o a \o b \o c \o c, 36, Word)
  BY <1>12, <1>4, LaidOut
<1>14. QED BY <1>1, <1>13

LEMMA Loop2977Laid == Laid(Loop2977, 46, Byte)
<1> DEFINE half == <<Byte, Byte, Byte, Word>>
           pair == <<Byte, Byte, Byte, Word, Byte, Byte, Byte, Word>>
<1>1. Loop2977 = pair \o pair \o Input \o pair \o Input \o pair
  BY DEF Loop2977
<1>2. Laid(half, 5, Byte)
  BY FieldTypes, BytesOf4 DEF Laid
<1>3. pair = half \o half
  OBVIOUS
<1> HIDE DEF half, pair
<1>4. Laid(pair, 10, Byte)
  BY <1>2, <1>3, LaidOut
<1>5. Laid(pair \o pair, 20, Byte)
  BY <1>4, LaidOut
<1>6. Laid(pair \o pair \o Input, 23, Byte)
  BY <1>5, InputLaid, LaidOut
<1>7. Laid(pair \o pair \o Input \o pair, 33, Byte)
  BY <1>6, <1>4, LaidOut
<1>8. Laid(pair \o pair \o Input \o pair \o Input, 36, Byte)
  BY <1>7, InputLaid, LaidOut
<1>9. Laid(pair \o pair \o Input \o pair \o Input \o pair, 46, Byte)
  BY <1>8, <1>4, LaidOut
<1>10. QED BY <1>1, <1>9

LEMMA Loop2978Laid == Laid(Loop2978, 40, Byte)
<1> DEFINE half == <<Byte, Byte, Word>>
           pair == <<Byte, Byte, Word, Byte, Byte, Word>>
           u == <<UnusedByte>>
<1>1. Loop2978 = pair \o pair \o u \o Input \o pair \o u \o Input \o pair
  BY DEF Loop2978
<1>2. Laid(half, 4, Byte)
  BY FieldTypes, BytesOf3 DEF Laid
<1>3. pair = half \o half
  OBVIOUS
<1>4. Laid(u, 1, UnusedByte)
  BY FieldTypes, BytesOf1 DEF Laid
<1> HIDE DEF half, pair, u
<1>5. Laid(pair, 8, Byte)
  BY <1>2, <1>3, LaidOut
<1>6. Laid(pair \o pair, 16, Byte)
  BY <1>5, LaidOut
<1>7. Laid(pair \o pair \o u, 17, Byte)
  BY <1>6, <1>4, LaidOut
<1>8. Laid(pair \o pair \o u \o Input, 20, Byte)
  BY <1>7, InputLaid, LaidOut
<1>9. Laid(pair \o pair \o u \o Input \o pair, 28, Byte)
  BY <1>8, <1>5, LaidOut
<1>10. Laid(pair \o pair \o u \o Input \o pair \o u, 29, Byte)
  BY <1>9, <1>4, LaidOut
<1>11. Laid(pair \o pair \o u \o Input \o pair \o u \o Input, 32, Byte)
  BY <1>10, InputLaid, LaidOut
<1>12. Laid(pair \o pair \o u \o Input \o pair \o u \o Input \o pair, 40, Byte)
  BY <1>11, <1>5, LaidOut
<1>13. QED BY <1>1, <1>12

(* The parts by the way they log: loops one after the other, or a ring.    *)
Controllers == {"LTC3880", "LTC3882", "LTC3883", "LTC3884", "LTC3886", "LTC3887", "LTC3888", "LTC3889",
                "LTC7880"}
Managers == {"LTC2972", "LTC2974", "LTC2975", "LTC2977", "LTC2978"}

(* The places of the printed fields are inside of the loop.                *)
InLoop(log) == \A f \in log.fields : /\ f.from \in Nat /\ f.to \in Nat
                                     /\ f.from <= f.to /\ f.to < log.length

(* The printed fields of a loop lie inside of it.                          *)
LEMMA FieldsInLoop ==
  ASSUME NEW loop, NEW n \in Nat, NEW x, Laid(loop, n, x)
  PROVE  \A f \in Places(loop) : /\ f.from \in Nat /\ f.to \in Nat
                                 /\ f.from <= f.to /\ f.to < n
                                 /\ x = Word => f.to >= 1
<1>1. loop \in Seq(Field) /\ Bytes(loop) = n /\ loop[1] = x
  BY DEF Laid
<1>2. QED BY <1>1, PlacesInside, FieldTypes

(* All controllers log loops of 20 bytes.                                  *)
LEMMA ControllerLayout ==
  ASSUME NEW p \in Controllers
  PROVE  /\ Log(p).ring = FALSE /\ Log(p).crc \in BOOLEAN
         /\ Log(p).words = 54 /\ Log(p).skipped = 194 /\ Log(p).telemetry = 27
         /\ Log(p).length = 20 /\ Log(p).loops \in {4, 6}
         /\ p \in {"LTC3888", "LTC3889"} => Log(p).loops = 4 /\ Log(p).crc = FALSE
         /\ InLoop(Log(p))
<1>1. PICK crc \in BOOLEAN, loops \in {4, 6} : \E loop :
         /\ Log(p) = Controller(crc, loops, loop) /\ Laid(loop, 20, Word)
         /\ p \in {"LTC3888", "LTC3889"} => loops = 4 /\ crc = FALSE
  <2>1. CASE p = "LTC3880"
    BY <2>1, Loop3880Laid DEF Log, LTC3880
  <2>2. CASE p = "LTC3882"
    BY <2>2, Loop3882Laid DEF Log, LTC3882
  <2>3. CASE p = "LTC3883"
    BY <2>3, Loop3883Laid DEF Log, LTC3883
  <2>4. CASE p = "LTC3884"
    BY <2>4, Loop3884Laid DEF Log, LTC3884
  <2>5. CASE p = "LTC3886"
    BY <2>5, Loop3886Laid DEF Log, LTC3886
  <2>6. CASE p = "LTC3887"
    BY <2>6, Loop3887Laid DEF Log, LTC3887
  <2>7. CASE p = "LTC3888"
    BY <2>7, Loop3888Laid DEF Log, LTC3888
  <2>8. CASE p = "LTC3889"
    BY <2>8, Loop3889Laid DEF Log, LTC3889
  <2>9. CASE p = "LTC7880"
    BY <2>9, Loop7880Laid DEF Log, LTC7880
  <2>10. QED BY <2>1, <2>2, <2>3, <2>4, <2>5, <2>6, <2>7, <2>8, <2>9 DEF Controllers
<1>2. PICK loop :
         /\ Log(p) = Controller(crc, loops, loop) /\ Laid(loop, 20, Word)
         /\ p \in {"LTC3888", "LTC3889"} => loops = 4 /\ crc = FALSE
  BY <1>1
<1>3. /\ Log(p).ring = FALSE /\ Log(p).crc = crc /\ Log(p).words = 54 /\ Log(p).skipped = 194
      /\ Log(p).telemetry = 27 /\ Log(p).loops = loops
      /\ Log(p).length = Bytes(loop) /\ Log(p).fields = Places(loop)
  BY <1>2 DEF Controller
<1>4. Bytes(loop) = 20
  BY <1>2 DEF Laid
<1>5. InLoop(Log(p))
  BY <1>2, <1>3, <1>4, FieldsInLoop DEF InLoop
<1>6. QED BY <1>2, <1>3, <1>4, <1>5

(* A manager lays its loops over a ring: loop 0 begins at most a loop      *)
(* before the telemetry, which starts far enough into the buffer; and the  *)
(* rings of the LTC2974 and LTC2975 are no longer than four loops, of      *)
(* which each begins with a word.                                          *)
LEMMA ManagerLayout ==
  ASSUME NEW p \in Managers
  PROVE  /\ Log(p).ring = TRUE /\ Log(p).crc = FALSE /\ Log(p).skipped = 1
         /\ Log(p).words \in {0, 128} /\ Log(p).loops \in {4, 5}
         /\ p # "LTC2978" => Log(p).words = 128
         /\ Log(p).length \in 36..58 /\ Log(p).telemetry \in (Log(p).length - 1)..79
         /\ Log(p).end \in {237, 238}
         /\ p \in {"LTC2974", "LTC2975"} =>
              /\ Log(p).loops = 4 /\ Log(p).length \in {54, 58}
              /\ Log(p).telemetry + 4 * Log(p).length > Log(p).end
              /\ \A f \in Log(p).fields : f.to >= 1
         /\ InLoop(Log(p))
<1>1. CASE p = "LTC2972"
  <2>1. Log(p) = Manager(265, 55, 128, 4, 238, Loop2972)
    BY <1>1 DEF Log, LTC2972
  <2>2. /\ Log(p).ring = TRUE /\ Log(p).crc = FALSE /\ Log(p).skipped = 1
        /\ Log(p).words = 128 /\ Log(p).telemetry = 55 /\ Log(p).loops = 4 /\ Log(p).end = 238
        /\ Log(p).length = Bytes(Loop2972) /\ Log(p).fields = Places(Loop2972)
    BY <2>1 DEF Manager
  <2>3. /\ Bytes(Loop2972) = 36
        /\ \A f \in Places(Loop2972) : /\ f.from \in Nat /\ f.to \in Nat
                                    /\ f.from <= f.to /\ f.to < 36 /\ f.to >= 1
    BY Loop2972Laid, FieldsInLoop DEF Laid
  <2>4. QED BY <1>1, <2>2, <2>3 DEF InLoop
<1>2. CASE p = "LTC2974"
  <2>1. Log(p) = Manager(265, 71, 128, 4, 237, Loop2974)
    BY <1>2 DEF Log, LTC2974
  <2>2. /\ Log(p).ring = TRUE /\ Log(p).crc = FALSE /\ Log(p).skipped = 1
        /\ Log(p).words = 128 /\ Log(p).telemetry = 71 /\ Log(p).loops = 4 /\ Log(p).end = 237
        /\ Log(p).length = Bytes(Loop2974) /\ Log(p).fields = Places(Loop2974)
    BY <2>1 DEF Manager
  <2>3. /\ Bytes(Loop2974) = 54
        /\ \A f \in Places(Loop2974) : /\ f.from \in Nat /\ f.to \in Nat
                                    /\ f.from <= f.to /\ f.to < 54 /\ f.to >= 1
    BY Loop2974Laid, FieldsInLoop DEF Laid
  <2>4. QED BY <1>2, <2>2, <2>3 DEF InLoop
<1>3. CASE p = "LTC2975"
  <2>1. Log(p) = Manager(265, 79, 128, 4, 238, Loop2975)
    BY <1>3 DEF Log, LTC2975
  <2>2. /\ Log(p).ring = TRUE /\ Log(p).crc = FALSE /\ Log(p).skipped = 1
        /\ Log(p).words = 128 /\ Log(p).telemetry = 79 /\ Log(p).loops = 4 /\ Log(p).end = 238
        /\ Log(p).length = Bytes(Loop2975) /\ Log(p).fields = Places(Loop2975)
    BY <2>1 DEF Manager
  <2>3. /\ Bytes(Loop2975) = 58
        /\ \A f \in Places(Loop2975) : /\ f.from \in Nat /\ f.to \in Nat
                                    /\ f.from <= f.to /\ f.to < 58 /\ f.to >= 1
    BY Loop2975Laid, FieldsInLoop DEF Laid
  <2>4. QED BY <1>3, <2>2, <2>3 DEF InLoop
<1>4. CASE p = "LTC2977"
  <2>1. Log(p) = Manager(290, 72, 128, 4, 237, Loop2977)
    BY <1>4 DEF Log, LTC2977
  <2>2. /\ Log(p).ring = TRUE /\ Log(p).crc = FALSE /\ Log(p).skipped = 1
        /\ Log(p).words = 128 /\ Log(p).telemetry = 72 /\ Log(p).loops = 4 /\ Log(p).end = 237
        /\ Log(p).length = Bytes(Loop2977) /\ Log(p).fields = Places(Loop2977)
    BY <2>1 DEF Manager
  <2>3. /\ Bytes(Loop2977) = 46
        /\ \A f \in Places(Loop2977) : /\ f.from \in Nat /\ f.to \in Nat
                                    /\ f.from <= f.to /\ f.to < 46
    BY Loop2977Laid, FieldsInLoop DEF Laid
  <2>4. QED BY <1>4, <2>2, <2>3 DEF InLoop
<1>5. CASE p = "LTC2978"
  <2>1. Log(p) = Manager(265, 47, 0, 5, 237, Loop2978)
    BY <1>5 DEF Log, LTC2978
  <2>2. /\ Log(p).ring = TRUE /\ Log(p).crc = FALSE /\ Log(p).skipped = 1
        /\ Log(p).words = 0 /\ Log(p).telemetry = 47 /\ Log(p).loops = 5 /\ Log(p).end = 237
        /\ Log(p).length = Bytes(Loop2978) /\ Log(p).fields = Places(Loop2978)
    BY <2>1 DEF Manager
  <2>3. /\ Bytes(Loop2978) = 40
        /\ \A f \in Places(Loop2978) : /\ f.from \in Nat /\ f.to \in Nat
                                    /\ f.from <= f.to /\ f.to < 40
    BY Loop2978Laid, FieldsInLoop DEF Laid
  <2>4. QED BY <1>5, <2>2, <2>3 DEF InLoop
<1>6. QED BY <1>1, <1>2, <1>3, <1>4, <1>5 DEF Managers

-----------------------------------------------------------------------------

(* Every part's buffer has room for its words, and for a block.            *)
LEMMA Sizes ==
  ASSUME NEW p \in Part
  PROVE  /\ Log(p).words \in Nat /\ Log(p).bytes \in Nat
         /\ 2 * Log(p).words <= Log(p).bytes
         /\ BlockMax <= Log(p).bytes
<1>1. CASE p \in {"LTC3880", "LTC3882", "LTC3883", "LTC3884", "LTC3886", "LTC3887", "LTC3888",
                  "LTC3889", "LTC7880"}
  <2>1. Log(p).words = 54 /\ Log(p).bytes = 108
    BY <1>1 DEF Log, Controller, LTC3880, LTC3882, LTC3883, LTC3884, LTC3886, LTC3887, LTC3888,
                LTC3889, LTC7880
  <2>2. QED BY <2>1 DEF BlockMax
<1>2. CASE p \in {"LTC2972", "LTC2974", "LTC2975", "LTC2977"}
  <2>1. Log(p) \in {LTC2972, LTC2974, LTC2975, LTC2977}
    BY <1>2 DEF Log
  <2>2. Log(p).words = 128 /\ Log(p).bytes \in {265, 290}
    BY <2>1 DEF Manager, LTC2972, LTC2974, LTC2975, LTC2977
  <2>3. QED BY <2>2 DEF BlockMax
<1>3. CASE p = "LTC2978"
  <2>1. Log(p).words = 0 /\ Log(p).bytes = 265
    BY <1>3 DEF Log, Manager, LTC2978
  <2>2. QED BY <2>1 DEF BlockMax
<1>4. QED BY <1>1, <1>2, <1>3 DEF Part

(* What a buffer holds: at most the words fetched, or the one block.       *)
Filled == /\ part \in Part
          /\ word \in Nat /\ word <= L.words
          /\ written \in Nat
          /\ written <= 2 * word \/ (L.words = 0 /\ written <= BlockMax)
          /\ phase \in {"idle", "waiting"} => word = 0 /\ written = 0

LEMMA FilledInitially == Init => Filled
<1>1. SUFFICES ASSUME Init PROVE Filled
  OBVIOUS
<1>2. part \in Part /\ phase = "idle" /\ word = 0 /\ written = 0
  BY <1>1, PartsAssumption DEF Init
<1>3. L.words \in Nat
  BY <1>2, Sizes DEF L
<1>4. QED BY <1>2, <1>3 DEF Filled

LEMMA FilledKept == Filled /\ [Next]_vars => Filled'
<1>1. SUFFICES ASSUME Filled, [Next]_vars PROVE Filled'
  OBVIOUS
<1>2. L.words \in Nat
  <2>1. part \in Part
    BY <1>1 DEF Filled
  <2>2. QED BY <2>1, Sizes DEF L
<1>3. CASE \/ Settle \/ Fault \/ enableFaultLog \/ disableFaultLog \/ storeFaultLog \/ clearFaultLog
           \/ waitForNotBusy \/ Read \/ Prepare \/ Skip
  <2>1. part' = part /\ word' = word /\ written' = written
    BY <1>3 DEF Settle, Fault, enableFaultLog, disableFaultLog, storeFaultLog, clearFaultLog,
       waitForNotBusy, Read, Prepare, Skip, reading
  <2>2. phase' \in {"idle", "waiting"} => word = 0 /\ written = 0
    BY <1>1, <1>3 DEF Settle, Fault, enableFaultLog, disableFaultLog, storeFaultLog, clearFaultLog,
       waitForNotBusy, Read, Prepare, Skip, Filled
  <2>3. QED BY <1>1, <2>1, <2>2 DEF Filled, L
<1>4. CASE FetchWord
  <2>1. /\ part' = part /\ word' = word + 1 /\ word < L.words /\ phase' = "fetching"
        /\ written' \in {written + 1, written + 2}
    BY <1>4 DEF FetchWord
  <2>2. word \in Nat /\ written \in Nat /\ part \in Part
    BY <1>1 DEF Filled
  <2>3. written <= 2 * word
    BY <1>1, <1>2, <2>1, <2>2 DEF Filled
  <2>4. QED BY <1>2, <2>1, <2>2, <2>3 DEF Filled, L
<1>5. CASE FetchBlock
  <2>1. /\ part' = part /\ word' = word /\ L.words = 0 /\ phase' = "fetched"
        /\ written' = BlockMax \/ written' = 0
    BY <1>5 DEF FetchBlock
  <2>2. QED BY <1>1, <2>1 DEF Filled, L, BlockMax
<1>6. CASE Overlay
  <2>1. part' = part /\ word' = word /\ written' = written /\ phase' = "fetched"
    BY <1>6 DEF Overlay
  <2>2. QED BY <1>1, <2>1 DEF Filled, L
<1>7. CASE PrintPeaks \/ PrintLoop
  <2>1. part' = part /\ word' = word /\ written' = written /\ phase' = "printing"
    BY <1>7 DEF PrintPeaks, PrintLoop, reading
  <2>2. QED BY <1>1, <2>1 DEF Filled, L
<1>8. CASE Release \/ BusError
  <2>1. part' = part /\ word' = 0 /\ written' = 0
    BY <1>8 DEF Release, BusError, Freed
  <2>2. QED BY <1>1, <1>2, <2>1 DEF Filled, L
<1>9. CASE UNCHANGED vars
  BY <1>1, <1>9 DEF Filled, L, vars, reading
<1>10. QED BY <1>1, <1>3, <1>4, <1>5, <1>6, <1>7, <1>8, <1>9 DEF Next

LEMMA FilledInside == Filled => WritesInside
<1>1. SUFFICES ASSUME Filled PROVE written <= L.bytes
  BY DEF WritesInside
<1>2. /\ L.words \in Nat /\ L.bytes \in Nat
      /\ 2 * L.words <= L.bytes /\ BlockMax <= L.bytes
  BY <1>1, Sizes DEF Filled, L
<1>3. QED BY <1>1, <1>2 DEF Filled, BlockMax

(* For every part, getNvmBlock and readBlock write inside the buffer that   *)
(* read allocated, also when a log is read again after one that failed.    *)
THEOREM ReadsInside == Spec => []WritesInside
<1>1. Init => Filled
  BY FilledInitially
<1>2. Filled /\ [Next]_vars => Filled'
  BY FilledKept
<1>3. Filled => WritesInside
  BY FilledInside
<1>4. QED BY <1>1, <1>2, <1>3, PTL DEF Spec

-----------------------------------------------------------------------------
(* A part's log lies right behind the words that its read skips.           *)
LEMMA Skipped ==
  ASSUME NEW p \in Part, Log(p).words # 0
  PROVE  Log(p).skipped = LogPlace(p) /\ Log(p).skipped \in Nat
<1>1. CASE p \in {"LTC3880", "LTC3882", "LTC3883", "LTC3884", "LTC3886", "LTC3887", "LTC3888",
                  "LTC3889", "LTC7880"}
  <2>1. Log(p) \in {LTC3880, LTC3882, LTC3883, LTC3884, LTC3886, LTC3887, LTC3888, LTC3889, LTC7880}
    BY <1>1 DEF Log
  <2>2. PICK crc, loops, loop : Log(p) = Controller(crc, loops, loop)
    BY <2>1 DEF LTC3880, LTC3882, LTC3883, LTC3884, LTC3886, LTC3887, LTC3888, LTC3889, LTC7880
  <2>3. Log(p).skipped = 194 /\ Log(p).ring = FALSE
    BY <2>2 DEF Controller
  <2>4. QED BY <2>3 DEF LogPlace
<1>2. CASE p \in {"LTC2972", "LTC2974", "LTC2975", "LTC2977"}
  <2>1. Log(p) \in {LTC2972, LTC2974, LTC2975, LTC2977}
    BY <1>2 DEF Log
  <2>2. Log(p).skipped = 1 /\ Log(p).ring = TRUE
    BY <2>1 DEF Manager, LTC2972, LTC2974, LTC2975, LTC2977
  <2>3. QED BY <2>2 DEF LogPlace
<1>3. CASE p = "LTC2978"
  <2>1. Log(p).words = 0
    BY <1>3 DEF Log, Manager, LTC2978
  <2>2. QED BY <2>1
<1>4. QED BY <1>1, <1>2, <1>3 DEF Part

(* What holds at each stage of a read.  A log that is being cleared is       *)
(* waited for, so that none is read of a chip that is clearing it; a chip    *)
(* that holds a log stores no other; and the data port counts the words.    *)
Reading ==
  /\ part \in Part /\ word \in Nat /\ pointer \in Int
  /\ logged \in BOOLEAN /\ pending \in {"none", "store", "clear", "restore"}
  /\ pending = "restore" => logged
  /\ phase = "idle" /\ ~hasty => pending # "clear"
  /\ phase = "preparing" /\ ~hasty => (logged /\ pending # "clear") \/ pending = "store"
  /\ phase \in {"skipping", "fetching", "fetched", "printing"} /\ ~hasty =>
       /\ pending = "none" /\ logged
       /\ inPlace \/ (L.words = 0 /\ phase \in {"fetched", "printing"})
  /\ phase \in {"idle", "waiting", "preparing", "skipping"} => word = 0
  /\ phase \in {"preparing", "skipping"} => inPlace
  /\ phase = "skipping" => pointer = 0 /\ L.words # 0
  /\ phase = "fetching" => L.words = 0 \/ pointer = L.skipped + word

LEMMA ReadingInitially == Init => Reading
  BY PartsAssumption DEF Init, Reading, Locked

LEMMA ReadingKept == Reading /\ [Next]_vars => Reading'
<1>1. SUFFICES ASSUME Reading, [Next]_vars PROVE Reading'
  OBVIOUS
<1>2. part' = part /\ L' = L
  BY <1>1 DEF Next, vars, Settle, Fault, enableFaultLog, disableFaultLog, storeFaultLog,
     clearFaultLog, waitForNotBusy, Read, Prepare, Skip, FetchWord, FetchBlock, Overlay,
     PrintPeaks, PrintLoop, Release, BusError, Freed, L
<1>3. L.words \in Nat
  BY <1>1, Sizes DEF L, Reading
<1>4. L.words # 0 => L.skipped = LogPlace(part) /\ L.skipped \in Nat
  BY <1>1, Skipped DEF L, Reading
<1>5. CASE Settle
  BY <1>1, <1>2, <1>5 DEF Settle, Reading, reading
<1>6. CASE Fault
  BY <1>1, <1>2, <1>6 DEF Fault, Reading, reading
<1>7. CASE enableFaultLog \/ disableFaultLog
  BY <1>1, <1>2, <1>7 DEF enableFaultLog, disableFaultLog, Reading, reading
<1>8. CASE storeFaultLog
  BY <1>1, <1>2, <1>8 DEF storeFaultLog, Reading, reading, Takes
<1>9. CASE clearFaultLog
  BY <1>1, <1>2, <1>9 DEF clearFaultLog, Reading, reading, Takes
<1>10. CASE waitForNotBusy
  BY <1>1, <1>2, <1>10 DEF waitForNotBusy, Reading, reading, chip, Hasty
<1>11. CASE Read
  <2>1. /\ phase' = "preparing" /\ logged' = logged /\ inPlace' = TRUE
        /\ word' = word /\ pointer' = pointer
    BY <1>11 DEF Read, reading
  <2>2. pending' \in {"none", "store", "clear", "restore"}
    BY <1>1, <1>11 DEF Read, Reading, Takes
  <2>3. ~hasty' => pending # "clear"
    BY <1>1, <1>11 DEF Read, Reading
  <2>4. pending = "none" => logged
    BY <1>1, <1>11 DEF Read, Reading, hasFaultLog
  <2>5. pending' = pending \/ (pending = "none" /\ pending' = "restore")
    BY <1>11 DEF Read, Takes
  <2>6. ~hasty' => (logged' /\ pending' # "clear") \/ pending' = "store"
    BY <1>1, <2>1, <2>3, <2>4, <2>5 DEF Reading
  <2>7. pending' = "restore" => logged'
    BY <1>1, <2>1, <2>4, <2>5 DEF Reading
  <2>8. QED BY <1>1, <1>2, <1>11, <2>1, <2>2, <2>6, <2>7 DEF Reading, Read
<1>12. CASE Prepare
  BY <1>1, <1>2, <1>12 DEF Prepare, Reading, reading
<1>13. CASE Skip
  BY <1>1, <1>2, <1>4, <1>13 DEF Skip, Reading, reading
<1>14. CASE FetchWord
  <2>1. L.words # 0
    BY <1>1, <1>3, <1>14 DEF FetchWord, Reading
  <2>2. pointer = LogPlace(part) + word
    BY <1>1, <1>4, <1>14, <2>1 DEF FetchWord, Reading
  <2>3. QED BY <1>1, <1>2, <1>4, <1>14, <2>1, <2>2 DEF FetchWord, Reading
<1>15. CASE FetchBlock
  BY <1>1, <1>2, <1>15 DEF FetchBlock, Reading, chip
<1>16. CASE Overlay
  BY <1>1, <1>2, <1>16 DEF Overlay, Reading, Locked
<1>17. CASE PrintPeaks \/ PrintLoop
  BY <1>1, <1>2, <1>17 DEF PrintPeaks, PrintLoop, Reading, reading, chip
<1>18. CASE Release
  BY <1>1, <1>2, <1>18 DEF Release, Freed, Reading
<1>19. CASE BusError
  <2>1. pointer' \in Int
    <3>1. CASE phase = "skipping"
      BY <1>1, <1>4, <1>19, <3>1 DEF BusError, Reading
    <3>2. CASE phase # "skipping"
      BY <1>1, <1>19, <3>2 DEF BusError, Reading
    <3>3. QED BY <3>1, <3>2
  <2>2. QED BY <1>1, <1>2, <1>19, <2>1 DEF BusError, Freed, Reading
<1>20. CASE UNCHANGED vars
  BY <1>1, <1>2, <1>20 DEF vars, chip, reading, Reading
<1>21. QED BY <1>1, <1>5, <1>6, <1>7, <1>8, <1>9, <1>10, <1>11, <1>12, <1>13, <1>14, <1>15, <1>16,
              <1>17, <1>18, <1>19, <1>20 DEF Next

(* For every part but the LTC2978, what is printed is the log that the chip *)
(* holds, each word in its place, whatever reads were broken off and        *)
(* whatever logs were stored and cleared before, if the clearing of a log   *)
(* was waited for.                                                         *)
THEOREM LogPrinted ==
  ASSUME "LTC2978" \notin LogParts
  PROVE  Spec => []PrintsTheLog
<1>1. Reading => PrintsTheLog
  <2>1. SUFFICES ASSUME Reading, part \in LogParts, phase \in {"fetched", "printing"}, ~hasty
                 PROVE  inPlace
    BY DEF PrintsTheLog
  <2>2. part \in Part /\ part # "LTC2978"
    BY <2>1 DEF Reading
  <2>3. L.words # 0
    <3>1. CASE part \in Controllers
      <4>1. L.words = 54
        BY <3>1, ControllerLayout DEF L
      <4>2. QED BY <4>1
    <3>2. CASE part \in Managers
      <4>1. L.words = 128
        BY <2>2, <3>2, ManagerLayout DEF L
      <4>2. QED BY <4>1
    <3>3. QED BY <2>2, <3>1, <3>2 DEF Part, Controllers, Managers
  <2>4. QED BY <2>1, <2>3 DEF Reading
<1>2. QED BY <1>1, ReadingInitially, ReadingKept, PTL DEF Spec
-----------------------------------------------------------------------------
(* What the layouts of all parts have in common.                           *)
LEMMA Layouts ==
  ASSUME NEW p \in Part
  PROVE  /\ Log(p).ring \in BOOLEAN /\ Log(p).crc \in BOOLEAN
         /\ Log(p).ring => p \in Managers
         /\ ~Log(p).ring => p \in Controllers
         /\ Log(p).words \in 0..128 /\ Log(p).skipped \in {1, 194}
         /\ Log(p).length \in 20..58 /\ Log(p).telemetry \in (Log(p).length - 1)..79
         /\ Log(p).loops \in 4..6
         /\ InLoop(Log(p))
<1>1. p \in Controllers \/ p \in Managers
  BY DEF Part, Controllers, Managers
<1>2. CASE p \in Controllers
  <2>1. /\ Log(p).words \in 0..128 /\ Log(p).skipped \in {1, 194} /\ Log(p).length \in 20..58
        /\ Log(p).telemetry \in (Log(p).length - 1)..79 /\ Log(p).loops \in 4..6
    <3>1. /\ Log(p).words = 54 /\ Log(p).skipped = 194 /\ Log(p).telemetry = 27
          /\ Log(p).length = 20 /\ Log(p).loops \in {4, 6}
      BY <1>2, ControllerLayout, ZenonT(60)
    <3>2. QED BY <3>1
  <2>2. Log(p).ring = FALSE /\ Log(p).crc \in BOOLEAN /\ InLoop(Log(p))
    BY <1>2, ControllerLayout
  <2>3. QED BY <1>2, <2>1, <2>2, Zenon
<1>3. CASE p \in Managers
  <2>1. /\ Log(p).words \in 0..128 /\ Log(p).skipped \in {1, 194} /\ Log(p).length \in 20..58
        /\ Log(p).telemetry \in (Log(p).length - 1)..79 /\ Log(p).loops \in 4..6
    <3>1. /\ Log(p).skipped = 1 /\ Log(p).words \in {0, 128} /\ Log(p).loops \in {4, 5}
          /\ Log(p).length \in 36..58 /\ Log(p).telemetry \in (Log(p).length - 1)..79
      BY <1>3, ManagerLayout, ZenonT(60)
    <3>2. QED BY <3>1
  <2>2. Log(p).ring = TRUE /\ Log(p).crc = FALSE /\ InLoop(Log(p))
    BY <1>3, ManagerLayout
  <2>3. QED BY <1>3, <2>1, <2>2, Zenon
<1>4. QED BY <1>1, <1>2, <1>3

(* The last byte of a ring: the LTC2977 counts its own.                    *)
LEMMA LastBytes ==
  ASSUME part \in Managers
  PROVE  /\ LastValidBytes \subseteq 0..255
         /\ part # "LTC2977" => LastValidBytes = {L.end}
<1>1. L.end \in {237, 238}
  BY ManagerLayout, ZenonT(60) DEF L
<1>2. QED BY <1>1 DEF LastValidBytes

(* The part and its chip; the port stands at a word of the log, or before  *)
(* it, or right behind it.                                                 *)
Typed ==
  /\ part \in Parts
  /\ logged \in BOOLEAN /\ enabled \in BOOLEAN /\ hasty \in BOOLEAN /\ inPlace \in BOOLEAN
  /\ pending \in {"none", "store", "clear", "restore"}
  /\ phase \in {"idle", "waiting", "preparing", "skipping", "fetching", "fetched", "printing"}
  /\ pointer \in Locked..(L.skipped + L.words)

(* Nothing changes the part.                                               *)
LEMMA PartKept == [Next]_vars => part' = part
  BY DEF Next, vars, Settle, Fault, enableFaultLog, disableFaultLog, storeFaultLog,
     clearFaultLog, waitForNotBusy, Read, Prepare, Skip, FetchWord, FetchBlock, Overlay,
     PrintPeaks, PrintLoop, Release, BusError, Freed

LEMMA TypedInitially == Init => Typed
<1>1. SUFFICES ASSUME Init PROVE Typed
  OBVIOUS
<1>2. part \in Part
  BY <1>1, PartsAssumption DEF Init
<1>3. L.words \in 0..128 /\ L.skipped \in {1, 194}
  BY <1>2, Layouts DEF L
<1>4. pointer \in Locked..(L.skipped + L.words)
  BY <1>1, <1>3 DEF Init, Locked
<1>5. QED BY <1>1, <1>4 DEF Init, Typed

LEMMA TypedKept == Typed /\ Reading /\ Filled /\ [Next]_vars => Typed'
<1>1. SUFFICES ASSUME Typed, Reading, Filled, [Next]_vars PROVE Typed'
  OBVIOUS
<1>2. part' = part /\ L' = L
  BY <1>1, PartKept DEF L
<1>3. L.words \in 0..128 /\ L.skipped \in {1, 194}
  BY <1>1, Layouts DEF L, Filled
<1>4. CASE Settle \/ Fault \/ enableFaultLog \/ disableFaultLog \/ storeFaultLog \/ clearFaultLog
           \/ waitForNotBusy
  BY <1>1, <1>2, <1>4 DEF Settle, Fault, enableFaultLog, disableFaultLog, storeFaultLog,
     clearFaultLog, waitForNotBusy, Typed, Takes, chip, Hasty
<1>5. CASE Read
  BY <1>1, <1>2, <1>5 DEF Read, Typed, Takes
<1>6. CASE Prepare
  BY <1>1, <1>2, <1>3, <1>6 DEF Prepare, Typed, Locked
<1>7. CASE Skip
  BY <1>1, <1>2, <1>3, <1>7 DEF Skip, Typed, Reading, Locked
<1>8. CASE FetchWord
  BY <1>1, <1>2, <1>3, <1>8 DEF FetchWord, Typed, Reading, Filled, Locked
<1>9. CASE FetchBlock
  BY <1>1, <1>2, <1>9 DEF FetchBlock, Typed, chip
<1>10. CASE Overlay
  <2>1. /\ phase' = "fetched" /\ pointer' \in {pointer, Locked}
        /\ UNCHANGED <<part, logged, enabled, pending, hasty, inPlace>>
    BY <1>10 DEF Overlay
  <2>2. pointer' \in Locked..(L.skipped + L.words)
    BY <1>1, <1>3, <2>1 DEF Typed, Locked
  <2>3. QED BY <1>1, <1>2, <2>1, <2>2 DEF Typed
<1>11. CASE PrintPeaks \/ PrintLoop
  BY <1>1, <1>2, <1>11 DEF PrintPeaks, PrintLoop, Typed, chip
<1>12. CASE Release
  BY <1>1, <1>2, <1>12 DEF Release, Freed, Typed
<1>13. CASE BusError
  <2>1. pointer' \in Locked..(L.skipped + L.words)
    <3>1. CASE phase = "skipping"
      BY <1>1, <1>3, <1>13, <3>1 DEF BusError, Reading, Locked
    <3>2. CASE phase # "skipping"
      BY <1>1, <1>13, <3>2 DEF BusError, Typed
    <3>3. QED BY <3>1, <3>2
  <2>2. QED BY <1>1, <1>2, <1>13, <2>1 DEF BusError, Freed, Typed
<1>14. CASE UNCHANGED vars
  BY <1>1, <1>2, <1>14 DEF vars, chip, Typed
<1>15. QED BY <1>1, <1>4, <1>5, <1>6, <1>7, <1>8, <1>9, <1>10, <1>11, <1>12, <1>13, <1>14 DEF Next
(* The loops are laid over the buffer.                                     *)
Laying == phase \in {"fetched", "printing"}

(* What holds of the loops: a log without CRCs fills two bytes a word; the *)
(* loops are laid when all words are there, at a place that the part can   *)
(* report; what is printed lies in the telemetry; and the loops printed so *)
(* far are printed in full.                                                *)
Printing ==
  /\ L.words # 0 /\ ~L.crc => written = 2 * word
  /\ ~Laying => base = 0 /\ last = 0 /\ index = 0 /\ printed = {}
  /\ Laying => /\ word = L.words
               /\ L.ring => /\ base \in (L.telemetry - (L.length - 1))..L.telemetry
                            /\ last \in LastValidBytes
               /\ ~L.ring => base = L.telemetry /\ last = 0
  /\ phase = "fetched" => index = 0 /\ printed = {}
  /\ index \in Nat
  /\ index <= (IF L.ring THEN L.loops + 1 ELSE L.loops)
  /\ printed \subseteq L.telemetry..(IF L.ring THEN last ELSE L.telemetry + L.loops * L.length - 1)
  /\ \A i \in 0..(index - 1) : \A f \in Printable(i) :
       (Start(i) + f.from)..(Start(i) + f.to) \subseteq printed

LEMMA PrintingInitially == Init => Printing
<1>1. SUFFICES ASSUME Init PROVE Printing
  OBVIOUS
<1>2. part \in Part
  BY <1>1, PartsAssumption DEF Init
<1>3. L.loops \in 4..6
  BY <1>2, Layouts DEF L
<1>4. /\ part \in Parts /\ phase = "idle" /\ word = 0 /\ written = 0 /\ base = 0 /\ last = 0
      /\ index = 0 /\ printed = {}
  BY <1>1 DEF Init
<1>5. QED BY <1>3, <1>4 DEF Printing, Laying

(* Where the loops lie changes with the base and the last byte only.       *)
LEMMA LayoutKept ==
  ASSUME part' = part, base' = base, last' = last
  PROVE  /\ L' = L /\ LastValidBytes' = LastValidBytes
         /\ \A i : Start(i)' = Start(i) /\ Printable(i)' = Printable(i)
  BY DEF L, LastValidBytes, Start, Printable, isValidData

(* The next loop prints telemetry: of a ring isValidData sees to it, of the *)
(* others that there are so many loops of 20 bytes.                        *)
LEMMA LoopInside ==
  ASSUME part \in Part, Printing, phase = "printing", MoreLoops
  PROVE  /\ index < (IF L.ring THEN L.loops + 1 ELSE L.loops)
         /\ \A f \in Printable(index) :
              (Start(index) + f.from)..(Start(index) + f.to)
                \subseteq L.telemetry..(IF L.ring THEN last ELSE L.telemetry + L.loops * L.length - 1)
<1>1. /\ L.ring \in BOOLEAN /\ L.loops \in 4..6 /\ L.telemetry \in Int /\ L.length \in 20..58
      /\ \A f \in L.fields : f.from \in Nat /\ f.to \in Nat /\ f.from <= f.to /\ f.to < L.length
  BY Layouts DEF L, InLoop
<1>2. index \in Nat /\ index <= (IF L.ring THEN L.loops + 1 ELSE L.loops)
  BY DEF Printing
<1>3. CASE L.ring
  <2>1. index < L.loops + 1
    BY <1>1, <1>2, <1>3 DEF MoreLoops
  <2>2. base \in Int /\ last \in Int
    <3>1. part \in Managers
      BY <1>3, Layouts DEF L
    <3>2. LastValidBytes \subseteq 0..255
      BY <3>1, LastBytes
    <3>3. base \in (L.telemetry - (L.length - 1))..L.telemetry /\ last \in LastValidBytes
      BY <1>3 DEF Printing, Laying
    <3>4. QED BY <1>1, <3>2, <3>3
  <2>3. ASSUME NEW f \in Printable(index)
        PROVE  (Start(index) + f.from)..(Start(index) + f.to) \subseteq L.telemetry..last
    <3>1. f \in L.fields /\ Start(index) + f.from >= L.telemetry /\ Start(index) + f.to <= last
      BY <1>3, <2>3 DEF Printable, isValidData
    <3>2. Start(index) \in Int
      BY <1>1, <1>2, <2>2 DEF Start
    <3>3. QED BY <1>1, <2>2, <3>1, <3>2
  <2>4. QED BY <1>3, <2>1, <2>3
<1>4. CASE ~L.ring
  <2>1. index < L.loops
    BY <1>4 DEF MoreLoops
  <2>2. base = L.telemetry /\ L.length = 20
    <3>1. part \in Controllers
      BY <1>4, Layouts DEF L
    <3>2. L.length = 20
      BY <3>1, ControllerLayout DEF L
    <3>3. base = L.telemetry
      BY <1>4 DEF Printing, Laying
    <3>4. QED BY <3>2, <3>3
  <2>3. ASSUME NEW f \in Printable(index)
        PROVE  (Start(index) + f.from)..(Start(index) + f.to)
                 \subseteq L.telemetry..(L.telemetry + L.loops * L.length - 1)
    <3>1. f \in L.fields
      BY <2>3 DEF Printable
    <3>2. Start(index) = L.telemetry + index * 20 /\ index + 1 <= L.loops
      BY <1>1, <1>2, <2>1, <2>2 DEF Start
    <3>3. /\ f.from \in Nat /\ f.to \in Nat /\ f.to < 20
      BY <1>1, <2>2, <3>1
    <3>4. /\ Start(index) + f.from >= L.telemetry
          /\ Start(index) + f.to <= L.telemetry + L.loops * 20 - 1
      BY <1>1, <1>2, <3>2, <3>3
    <3>5. Start(index) \in Int
      BY <1>1, <1>2, <3>2
    <3>6. QED BY <1>1, <2>2, <3>3, <3>4, <3>5
  <2>4. QED BY <1>4, <2>1, <2>3
<1>5. QED BY <1>1, <1>3, <1>4

LEMMA PrintingKept == Printing /\ Filled /\ [Next]_vars => Printing'
<1>1. SUFFICES ASSUME Printing, Filled, [Next]_vars PROVE Printing'
  OBVIOUS
<1>2. part' = part /\ L' = L
  BY <1>1, PartKept DEF L
<1>3. part \in Part
  BY <1>1 DEF Filled
<1>4. L.words \in 0..128 /\ L.loops \in 4..6
  BY <1>3, Layouts DEF L
<1>5. CASE UNCHANGED reading /\ (Laying' <=> Laying) /\ (phase' = "fetched" => phase = "fetched")
  <2>1. /\ word' = word /\ written' = written /\ base' = base /\ last' = last
        /\ index' = index /\ printed' = printed
    BY <1>5 DEF reading
  <2>2. LastValidBytes' = LastValidBytes /\ \A i : Start(i)' = Start(i) /\ Printable(i)' = Printable(i)
    BY <1>2, <2>1, LayoutKept
  <2>3. \A i \in 0..(index' - 1) : \A f \in Printable(i)' :
          (Start(i)' + f.from)..(Start(i)' + f.to) \subseteq printed'
    BY <1>1, <2>1, <2>2 DEF Printing
  <2>4. QED BY <1>1, <1>2, <1>5, <2>1, <2>2, <2>3 DEF Printing
<1>6. CASE \/ Settle \/ Fault \/ enableFaultLog \/ disableFaultLog \/ storeFaultLog \/ clearFaultLog
           \/ waitForNotBusy \/ Read \/ Prepare \/ Skip \/ PrintPeaks \/ UNCHANGED vars
  <2>1. UNCHANGED reading
    BY <1>6 DEF Settle, Fault, enableFaultLog, disableFaultLog, storeFaultLog, clearFaultLog,
       waitForNotBusy, Read, Prepare, Skip, PrintPeaks, vars
  <2>2. (Laying' <=> Laying) /\ (phase' = "fetched" => phase = "fetched")
    BY <1>6 DEF Settle, Fault, enableFaultLog, disableFaultLog, storeFaultLog, clearFaultLog,
       waitForNotBusy, Read, Prepare, Skip, PrintPeaks, vars, Laying
  <2>3. QED BY <1>5, <2>1, <2>2
<1>7. CASE FetchWord
  <2>1. /\ ~Laying /\ ~Laying' /\ phase' # "fetched"
        /\ base' = base /\ last' = last /\ index' = index /\ printed' = printed
    BY <1>7 DEF FetchWord, Laying
  <2>2. base = 0 /\ last = 0 /\ index = 0 /\ printed = {}
    BY <1>1, <2>1 DEF Printing
  <2>3. L.words # 0 /\ ~L.crc => written' = 2 * word'
    <3>1. SUFFICES ASSUME L.words # 0, ~L.crc PROVE written' = 2 * word'
      OBVIOUS
    <3>2. written = 2 * word
      BY <1>1, <3>1 DEF Printing
    <3>3. word' = word + 1 /\ written' = written + 2
      BY <1>7, <3>1 DEF FetchWord
    <3>4. word \in Nat
      BY <1>1 DEF Filled
    <3>5. QED BY <3>2, <3>3, <3>4
  <2>4. QED BY <1>2, <1>4, <2>1, <2>2, <2>3 DEF Printing
<1>8. CASE FetchBlock
  <2>1. /\ ~Laying /\ Laying' /\ L.words = 0
        /\ word' = word /\ index' = index /\ printed' = printed
    BY <1>8 DEF FetchBlock, Laying
  <2>2. index = 0 /\ printed = {}
    BY <1>1, <2>1 DEF Printing
  <2>3. L.ring /\ L.length \in 20..58 /\ L.telemetry \in (L.length - 1)..79
    <3>1. part \notin Controllers
      <4>1. SUFFICES ASSUME part \in Controllers PROVE FALSE
        OBVIOUS
      <4>2. L.words = 54
        BY <4>1, ControllerLayout DEF L
      <4>3. QED BY <2>1, <4>2
    <3>2. L.ring
      BY <1>3, <3>1, Layouts DEF L
    <3>3. L.length \in 20..58 /\ L.telemetry \in (L.length - 1)..79
      BY <1>3, Layouts DEF L
    <3>4. QED BY <3>2, <3>3
  <2>4. \E position \in 0..(L.length - 1) : base' = L.telemetry - (L.length - 1) + position
    <3>1. 0 \in 0..(L.length - 1)
      BY <2>3
    <3>2. QED BY <1>8, <3>1 DEF FetchBlock, LayLoops
  <2>5. base' \in (L.telemetry - (L.length - 1))..L.telemetry
    BY <2>3, <2>4
  <2>6. last' \in LastValidBytes /\ LastValidBytes' = LastValidBytes
    BY <1>2, <1>8 DEF FetchBlock, LayLoops, LastValidBytes
  <2>7. word' = L.words
    BY <1>1, <2>1 DEF Filled
  <2>8. QED BY <1>2, <1>4, <2>1, <2>2, <2>3, <2>5, <2>6, <2>7 DEF Printing
<1>9. CASE Overlay
  <2>1. /\ ~Laying /\ Laying' /\ word = L.words
        /\ word' = word /\ written' = written /\ index' = index /\ printed' = printed
    BY <1>9 DEF Overlay, Laying
  <2>2. base = 0 /\ last = 0 /\ index = 0 /\ printed = {}
    BY <1>1, <2>1 DEF Printing
  <2>3. L.ring => /\ base' \in (L.telemetry - (L.length - 1))..L.telemetry
                  /\ last' \in LastValidBytes'
    <3>1. LastValidBytes' = LastValidBytes
      BY <1>2 DEF LastValidBytes
    <3>2. L.telemetry \in Int /\ L.length \in Int
      BY <1>3, Layouts DEF L
    <3>3. QED BY <1>9, <3>1, <3>2 DEF Overlay, LayLoops
  <2>4. ~L.ring => base' = L.telemetry /\ last' = 0
    BY <1>9, <2>2 DEF Overlay
  <2>5. L.words # 0 /\ ~L.crc => written' = 2 * word'
    BY <1>1, <2>1 DEF Printing
  <2>6. QED BY <1>2, <1>4, <2>1, <2>2, <2>3, <2>4, <2>5 DEF Printing
<1>10. CASE PrintLoop
  <2>1. /\ phase = "printing" /\ MoreLoops /\ phase' = phase /\ index' = index + 1
        /\ word' = word /\ written' = written /\ base' = base /\ last' = last
        /\ printed' = printed \cup UNION {(Start(index) + f.from)..(Start(index) + f.to) :
                                            f \in Printable(index)}
    BY <1>10 DEF PrintLoop
  <2>2. LastValidBytes' = LastValidBytes /\ \A i : Start(i)' = Start(i) /\ Printable(i)' = Printable(i)
    BY <1>2, <2>1, LayoutKept
  <2>3. index \in Nat /\ L.ring \in BOOLEAN
    BY <1>1, <1>3, Layouts DEF Printing, L
  <2>4. /\ index < (IF L.ring THEN L.loops + 1 ELSE L.loops)
        /\ \A f \in Printable(index) :
              (Start(index) + f.from)..(Start(index) + f.to)
                \subseteq L.telemetry..(IF L.ring THEN last ELSE L.telemetry + L.loops * L.length - 1)
    BY <1>1, <1>3, <2>1, LoopInside
  <2>5. index' \in Nat /\ index' <= (IF L.ring THEN L.loops + 1 ELSE L.loops)
    BY <1>4, <2>1, <2>3, <2>4
  <2>6. printed' \subseteq L.telemetry..(IF L.ring THEN last ELSE L.telemetry + L.loops * L.length - 1)
    BY <1>1, <2>1, <2>4 DEF Printing
  <2>7. \A i \in 0..(index' - 1) : \A f \in Printable(i)' :
          (Start(i)' + f.from)..(Start(i)' + f.to) \subseteq printed'
    <3>1. SUFFICES ASSUME NEW i \in 0..(index' - 1), NEW f \in Printable(i)
                   PROVE  (Start(i) + f.from)..(Start(i) + f.to) \subseteq printed'
      BY <2>2
    <3>2. CASE i = index
      BY <2>1, <3>2
    <3>3. CASE i # index
      <4>1. i \in 0..(index - 1)
        BY <2>1, <2>3, <3>3
      <4>2. QED BY <1>1, <2>1, <4>1 DEF Printing
    <3>4. QED BY <3>2, <3>3
  <2>8. Laying /\ Laying' /\ phase' # "fetched"
    BY <2>1 DEF Laying
  <2>9. /\ L.words # 0 /\ ~L.crc => written = 2 * word
        /\ word = L.words
        /\ L.ring => /\ base \in (L.telemetry - (L.length - 1))..L.telemetry
                     /\ last \in LastValidBytes
        /\ ~L.ring => base = L.telemetry /\ last = 0
    BY <1>1, <2>8 DEF Printing
  <2>10. QED BY <1>2, <2>1, <2>2, <2>5, <2>6, <2>7, <2>8, <2>9 DEF Printing
<1>11. CASE Release \/ BusError
  <2>1. /\ ~Laying' /\ phase' # "fetched" /\ word' = 0 /\ written' = 0 /\ base' = 0 /\ last' = 0
        /\ index' = 0 /\ printed' = {}
    BY <1>11 DEF Release, BusError, Freed, Laying
  <2>2. QED BY <1>2, <1>4, <2>1 DEF Printing
<1>12. QED BY <1>1, <1>6, <1>7, <1>8, <1>9, <1>10, <1>11 DEF Next
(* The inductive invariant.                                                *)
IInv == Typed /\ Reading /\ Filled /\ Printing

LEMMA IInvInductive == Spec => []IInv
<1>1. Init => IInv
  BY TypedInitially, ReadingInitially, FilledInitially, PrintingInitially DEF IInv
<1>2. IInv /\ [Next]_vars => IInv'
  BY TypedKept, ReadingKept, FilledKept, PrintingKept DEF IInv
<1>3. QED BY <1>1, <1>2, PTL DEF Spec

(* A ring of at most 79 bytes of preamble ends where a byte can say.       *)
LEMMA BaseAndLast ==
  ASSUME part \in Part, Printing
  PROVE  base \in 0..79 /\ last \in 0..255
<1>1. /\ L.ring \in BOOLEAN /\ L.telemetry \in (L.length - 1)..79 /\ L.length \in 20..58
      /\ L.ring => part \in Managers
  BY Layouts DEF L
<1>2. CASE ~Laying
  BY <1>2 DEF Printing
<1>3. CASE Laying /\ L.ring
  <2>1. LastValidBytes \subseteq 0..255
    BY <1>1, <1>3, LastBytes
  <2>2. base \in (L.telemetry - (L.length - 1))..L.telemetry /\ last \in LastValidBytes
    BY <1>3 DEF Printing
  <2>3. QED BY <1>1, <2>1, <2>2
<1>4. CASE Laying /\ ~L.ring
  <2>1. base = L.telemetry /\ last = 0
    BY <1>4 DEF Printing
  <2>2. QED BY <1>1, <2>1
<1>5. QED BY <1>2, <1>3, <1>4

(* The types follow.                                                       *)
LEMMA TypesOfIInv == IInv => TypeOK
<1>1. SUFFICES ASSUME Typed, Filled, Printing PROVE TypeOK
  BY DEF IInv
<1>2. part \in Part
  BY <1>1 DEF Filled
<1>3. /\ L.ring \in BOOLEAN /\ L.words \in 0..128 /\ L.loops \in 4..6 /\ L.telemetry \in 0..79
      /\ ~L.ring => part \in Controllers
  <2>1. L.length \in 20..58 /\ L.telemetry \in (L.length - 1)..79
    BY <1>2, Layouts DEF L
  <2>2. /\ L.ring \in BOOLEAN /\ L.words \in 0..128 /\ L.loops \in 4..6
        /\ ~L.ring => part \in Controllers
    BY <1>2, Layouts DEF L
  <2>3. QED BY <2>1, <2>2
<1>4. base \in 0..127 /\ last \in 0..255
  <2>1. base \in 0..79 /\ last \in 0..255
    BY <1>1, <1>2, BaseAndLast
  <2>2. QED BY <2>1
<1>5. word \in 0..L.words /\ written \in 0..256
  BY <1>1, <1>3 DEF Filled, BlockMax
<1>6. index \in 0..(L.loops + 1)
  BY <1>1, <1>3 DEF Printing
<1>7. \A b \in printed : b \in 0..511
  <2>1. CASE L.ring
    <3>1. printed \subseteq L.telemetry..last
      BY <1>1, <2>1 DEF Printing
    <3>2. QED BY <1>3, <1>4, <3>1
  <2>2. CASE ~L.ring
    <3>1. printed \subseteq L.telemetry..(L.telemetry + L.loops * L.length - 1)
      BY <1>1, <2>2 DEF Printing
    <3>2. L.length = 20
      BY <1>3, <2>2, ControllerLayout DEF L
    <3>3. QED BY <1>3, <3>1, <3>2
  <2>3. QED BY <1>3, <2>1, <2>2
<1>8. QED BY <1>1, <1>4, <1>5, <1>6, <1>7 DEF TypeOK, Typed

(* For any set of parts, after any reads, failures and faults: the state    *)
(* has its types; the data port is never past the words of a log, and no    *)
(* loop is laid before a buffer.                                           *)
THEOREM TypeCorrect == Spec => []TypeOK
<1>1. IInv => TypeOK
  BY TypesOfIInv
<1>2. QED BY <1>1, IInvInductive, PTL

(* For the LTC3888, the LTC3889 and the managers that are read word by      *)
(* word, whose reads fill as much of the buffer as their loops reach: what  *)
(* print shows was read from the part, after any reads that failed.        *)
THEOREM OnlyReadPrinted ==
  ASSUME ReadParts \subseteq {"LTC3888", "LTC3889", "LTC2972", "LTC2974", "LTC2975", "LTC2977"}
  PROVE  Spec => []PrintsWhatWasRead
<1>1. IInv => PrintsWhatWasRead
  <2>1. SUFFICES ASSUME Filled, Printing, part \in ReadParts, phase = "printing"
                 PROVE  L.telemetry <= written /\ printed \subseteq 0..(written - 1)
    BY DEF IInv, PrintsWhatWasRead
  <2>2. /\ L.words # 0 /\ ~L.crc => written = 2 * word
        /\ word = L.words
        /\ printed \subseteq L.telemetry..(IF L.ring THEN last ELSE L.telemetry + L.loops * L.length - 1)
    BY <2>1 DEF Printing, Laying
  <2>3. part \in Part
    BY <2>1 DEF Filled
  <2>4. CASE part \in {"LTC3888", "LTC3889"}
    <3>1. part \in Controllers
      BY <2>4 DEF Controllers
    <3>2. L.ring = FALSE /\ L.crc = FALSE
      BY <2>4, <3>1, ControllerLayout DEF L
    <3>3. L.words = 54 /\ L.telemetry = 27 /\ L.length = 20 /\ L.loops = 4
      BY <2>4, <3>1, ControllerLayout, ZenonT(60) DEF L
    <3>4. written = 108
      BY <2>2, <3>2, <3>3
    <3>5. printed \subseteq 27..106
      BY <2>2, <3>2, <3>3
    <3>6. QED BY <3>3, <3>4, <3>5
  <2>5. CASE part \in {"LTC2972", "LTC2974", "LTC2975", "LTC2977"}
    <3>1. part \in Managers /\ part # "LTC2978"
      BY <2>5 DEF Managers
    <3>2. L.ring = TRUE /\ L.crc = FALSE
      BY <3>1, ManagerLayout DEF L
    <3>3. L.words = 128
      BY <3>1, ManagerLayout DEF L
    <3>4. L.telemetry \in (L.length - 1)..79 /\ L.length \in 36..58
      BY <3>1, ManagerLayout DEF L
    <3>5. written = 256
      BY <2>2, <3>2, <3>3
    <3>6. printed \subseteq L.telemetry..last
      BY <2>2, <3>2
    <3>7. last \in 0..255
      BY <2>1, <2>3, BaseAndLast
    <3>8. QED BY <3>4, <3>5, <3>6, <3>7
  <2>6. QED BY <2>1, <2>4, <2>5
<1>2. QED BY <1>1, IInvInductive, PTL

(* For the LTC2974 and the LTC2975, whose rings are full with five loops:  *)
(* printAllLoops has printed every valid field when it ends, wherever the  *)
(* last position says that the loops lie.                                  *)
THEOREM WholeRingPrinted ==
  ASSUME WholeParts \subseteq {"LTC2974", "LTC2975"}
  PROVE  Spec => []WholeLogPrinted
<1>1. IInv => WholeLogPrinted
  <2>1. SUFFICES ASSUME Printing, part \in {"LTC2974", "LTC2975"}, phase = "printing", ~MoreLoops,
                        NEW i \in -1..8, NEW f \in Printable(i)
                 PROVE  (Start(i) + f.from)..(Start(i) + f.to) \subseteq printed
    BY DEF IInv, WholeLogPrinted
  <2>2. part \in Managers /\ part # "LTC2977"
    BY <2>1 DEF Managers
  <2>3. L.ring = TRUE /\ \A g \in L.fields : g.to >= 1
    BY <2>1, <2>2, ManagerLayout DEF L
  <2>4. /\ L.loops = 4 /\ L.length \in {54, 58} /\ L.end \in {237, 238}
        /\ L.telemetry + 4 * L.length > L.end
    <3>1. L.end \in {237, 238}
      BY <2>2, ManagerLayout, ZenonT(60) DEF L
    <3>2. L.loops = 4 /\ L.length \in {54, 58}
      BY <2>1, <2>2, ManagerLayout, ZenonT(60) DEF L
    <3>3. L.telemetry + 4 * L.length > L.end
      BY <2>1, <2>2, ManagerLayout DEF L
    <3>4. QED BY <3>1, <3>2, <3>3
  <2>5. L.telemetry \in Int
    <3>1. L.telemetry \in (L.length - 1)..79
      BY <2>2, ManagerLayout DEF L
    <3>2. QED BY <2>4, <3>1
  <2>6. last = L.end
    BY <2>1, <2>2, <2>3, LastBytes DEF Printing, Laying
  <2>7. base \in (L.telemetry - (L.length - 1))..L.telemetry
    BY <2>1, <2>3 DEF Printing, Laying
  <2>8. /\ f \in L.fields /\ Start(i) + f.from >= L.telemetry /\ Start(i) + f.to <= last
    BY <2>1, <2>3 DEF Printable, isValidData
  <2>9. f.from \in Nat /\ f.to \in Nat /\ f.from <= f.to /\ f.to < L.length /\ f.to >= 1
    <3>1. InLoop(L)
      BY <2>2, ManagerLayout DEF L
    <3>2. QED BY <2>3, <2>8, <3>1 DEF InLoop
  <2>10. index \in Nat /\ index <= 5
    BY <2>1, <2>3, <2>4 DEF Printing
  <2>11. index = 5 \/ (index = 4 /\ ~isValidData(Start(4), Start(4) + 1))
    BY <2>1, <2>3, <2>4, <2>10 DEF MoreLoops
  <2>12. i # -1
    BY <2>4, <2>5, <2>7, <2>8, <2>9 DEF Start
  <2>13. i \notin 5..8
    <3>1. SUFFICES ASSUME i \in 5..8 PROVE FALSE
      OBVIOUS
    <3>2. Start(i) >= base + 5 * L.length
      BY <2>4, <2>5, <2>7, <3>1 DEF Start
    <3>3. QED BY <2>4, <2>5, <2>6, <2>7, <2>8, <2>9, <3>2 DEF Start
  <2>14. i = 4 => index = 5
    <3>1. SUFFICES ASSUME i = 4, ~isValidData(Start(4), Start(4) + 1) PROVE FALSE
      BY <2>11
    <3>2. Start(4) = base + 4 * L.length
      BY DEF Start
    <3>3. Start(4) >= L.telemetry
      BY <2>4, <2>5, <2>7, <3>2
    <3>4. Start(4) + 1 > last
      BY <2>4, <2>5, <2>6, <2>7, <3>1, <3>2, <3>3 DEF isValidData
    <3>5. QED BY <2>4, <2>5, <2>6, <2>7, <2>8, <2>9, <3>1, <3>2, <3>4
  <2>15. i \in 0..(index - 1)
    BY <2>10, <2>11, <2>12, <2>13, <2>14
  <2>16. QED BY <2>1, <2>15 DEF Printing
<1>2. QED BY <1>1, IInvInductive, PTL
=============================================================================
