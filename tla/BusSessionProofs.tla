-------------------------- MODULE BusSessionProofs --------------------------
(***************************************************************************)
(* Proofs about BusSession, for any bus: the devices go on to be obeyed,    *)
(* a line that is printed is of the page that it names, and the rails that  *)
(* are found count the phases of the bus.                                  *)
(***************************************************************************)
EXTENDS BusSession, FiniteSetTheorems, FunctionTheorems, SumLemmas, TLAPS

(* The devices are chips, each with the class of its id.                   *)
Object == [address : Chips, class : Range(DetectOrder), pec : BOOLEAN]

Known == /\ devices \in Seq(Object)
         /\ \A i \in 1..Len(devices) : devices[i].class = FirstClass(IdOf[devices[i].address])

ChipsKept == /\ required \in [Chips -> BOOLEAN] /\ pec \in BOOLEAN /\ heard \in BOOLEAN
             /\ page \in [Chips -> Int]
             /\ \A c \in Chips : page[c] \in Pages(c) \cup {AllPages}
             /\ at \in Nat \ {0} /\ next \in Nat

(* Detection has found the chips behind it, in their order.                *)
Behind(c, n) == \E k \in 1..Len(Addresses) : k < n /\ Addresses[k] = c

Located == /\ \A i, j \in 1..Len(devices) : i < j => devices[i].address < devices[j].address
           /\ phase = "detect" => \A i \in 1..Len(devices) : Behind(devices[i].address, at)
           /\ \A c \in Chips : phase # "off" /\ (phase = "detect" => Behind(c, at)) =>
                                \E i \in 1..Len(devices) : devices[i].address = c

Finding == {"detect", "first", "second"}
Using == {"menu", "voltages", "currents", "status", "clear"}

(* Where PEC stands, if every chip obeyed the detection.  While it detects  *)
(* no chip asks for more than the bus sends; item 4 has moved the devices   *)
(* behind it; items 5 and 6 end in a detection, and promise nothing.       *)
Following ==
  /\ phase \in Finding => /\ \A c \in Chips : Obeys(c, pec)
                          /\ \A i \in 1..Len(devices) : devices[i].pec = pec
  /\ phase \in Using => \A i \in 1..Len(devices) : Obeys(devices[i].address, devices[i].pec)
  /\ phase = "tree" => \A i \in 1..Len(devices) : i < at => devices[i].pec = TRUE

Session == ChipsKept /\ Known /\ Located /\ (heard => Following) /\ LabelsTrue

-----------------------------------------------------------------------------
(* The table of the classes: ids of controllers and of managers lie apart.  *)
ControllerIds == \h4000..\h4FFF

IsController(class) == class.controller = TRUE /\ \A id \in class.ids : id \in ControllerIds
IsManager(class) == class.controller = FALSE /\ \A id \in class.ids : id \notin ControllerIds

LEMMA Controllers ==
  /\ IsController(LTC3880) /\ LTC3880.numPages \in Nat
  /\ IsController(LTC3882) /\ LTC3882.numPages \in Nat
  /\ IsController(LTC3883) /\ LTC3883.numPages \in Nat
  /\ IsController(LTC3884) /\ LTC3884.numPages \in Nat
  /\ IsController(LTC3886) /\ LTC3886.numPages \in Nat
  /\ IsController(LTC3887) /\ LTC3887.numPages \in Nat
  /\ IsController(LTC3888) /\ LTC3888.numPages \in Nat
  /\ IsController(LTC3889) /\ LTC3889.numPages \in Nat
  /\ IsController(LTC7880) /\ LTC7880.numPages \in Nat
  /\ IsController(LTM4664) /\ LTM4664.numPages \in Nat
  /\ IsController(LTM4675) /\ LTM4675.numPages \in Nat
  /\ IsController(LTM4676) /\ LTM4676.numPages \in Nat
  /\ IsController(LTM4677) /\ LTM4677.numPages \in Nat
  /\ IsController(LTM4678) /\ LTM4678.numPages \in Nat
  /\ IsController(LTM4680) /\ LTM4680.numPages \in Nat
  /\ IsController(LTM4686) /\ LTM4686.numPages \in Nat
  /\ IsController(LTM4700) /\ LTM4700.numPages \in Nat
<1>1. IsController(LTC3880) /\ LTC3880.numPages \in Nat
  BY DEF Controller, LTC3880, IsController, ControllerIds
<1>2. IsController(LTC3882) /\ LTC3882.numPages \in Nat
  BY DEF Controller, LTC3882, IsController, ControllerIds
<1>3. IsController(LTC3883) /\ LTC3883.numPages \in Nat
  BY DEF Controller, LTC3883, IsController, ControllerIds
<1>4. IsController(LTC3884) /\ LTC3884.numPages \in Nat
  BY DEF Controller, LTC3884, IsController, ControllerIds
<1>5. IsController(LTC3886) /\ LTC3886.numPages \in Nat
  BY DEF Controller, LTC3886, IsController, ControllerIds
<1>6. IsController(LTC3887) /\ LTC3887.numPages \in Nat
  BY DEF Controller, LTC3887, IsController, ControllerIds
<1>7. IsController(LTC3888) /\ LTC3888.numPages \in Nat
  BY DEF Controller, LTC3888, IsController, ControllerIds
<1>8. IsController(LTC3889) /\ LTC3889.numPages \in Nat
  BY DEF Controller, LTC3889, IsController, ControllerIds
<1>9. IsController(LTC7880) /\ LTC7880.numPages \in Nat
  BY DEF Controller, LTC7880, IsController, ControllerIds
<1>10. IsController(LTM4664) /\ LTM4664.numPages \in Nat
  BY DEF Controller, LTM4664, IsController, ControllerIds
<1>11. IsController(LTM4675) /\ LTM4675.numPages \in Nat
  BY DEF Controller, LTM4675, IsController, ControllerIds
<1>12. IsController(LTM4676) /\ LTM4676.numPages \in Nat
  BY DEF Controller, LTM4676, IsController, ControllerIds
<1>13. IsController(LTM4677) /\ LTM4677.numPages \in Nat
  BY DEF Controller, LTM4677, IsController, ControllerIds
<1>14. IsController(LTM4678) /\ LTM4678.numPages \in Nat
  BY DEF Controller, LTM4678, IsController, ControllerIds
<1>15. IsController(LTM4680) /\ LTM4680.numPages \in Nat
  BY DEF Controller, LTM4680, IsController, ControllerIds
<1>16. IsController(LTM4686) /\ LTM4686.numPages \in Nat
  BY DEF Controller, LTM4686, IsController, ControllerIds
<1>17. IsController(LTM4700) /\ LTM4700.numPages \in Nat
  BY DEF Controller, LTM4700, IsController, ControllerIds
<1>18. QED BY <1>1, <1>2, <1>3, <1>4, <1>5, <1>6, <1>7, <1>8, <1>9, <1>10, <1>11, <1>12,
     <1>13, <1>14, <1>15, <1>16, <1>17

LEMMA Managers ==
  /\ IsManager(LTC2972) /\ LTC2972.numPages \in Nat
  /\ IsManager(LTC2974) /\ LTC2974.numPages \in Nat
  /\ IsManager(LTC2975) /\ LTC2975.numPages \in Nat
  /\ IsManager(LTC2977) /\ LTC2977.numPages \in Nat
  /\ IsManager(LTC2978) /\ LTC2978.numPages \in Nat
  /\ IsManager(LTC2979) /\ LTC2979.numPages \in Nat
  /\ IsManager(LTC2980) /\ LTC2980.numPages \in Nat
  /\ IsManager(LTM2987) /\ LTM2987.numPages \in Nat
<1>1. IsManager(LTC2972) /\ LTC2972.numPages \in Nat
  BY DEF Manager, LTC2972, IsManager, ControllerIds
<1>2. IsManager(LTC2974) /\ LTC2974.numPages \in Nat
  BY DEF Manager, LTC2974, IsManager, ControllerIds
<1>3. IsManager(LTC2975) /\ LTC2975.numPages \in Nat
  BY DEF Manager, LTC2975, IsManager, ControllerIds
<1>4. IsManager(LTC2977) /\ LTC2977.numPages \in Nat
  BY DEF Manager, LTC2977, IsManager, ControllerIds
<1>5. IsManager(LTC2978) /\ LTC2978.numPages \in Nat
  <2>1. LTC2978.ids = {\h0110, \h0120}
    BY DEF Manager, LTC2978
  <2>2. LTC2978.controller = FALSE /\ LTC2978.numPages = 4
    BY DEF Manager, LTC2978
  <2>3. \h0110 \notin ControllerIds
    BY DEF ControllerIds
  <2>4. \h0120 \notin ControllerIds
    BY DEF ControllerIds
  <2>5. \A id \in LTC2978.ids : id \notin ControllerIds
    <3> SUFFICES ASSUME NEW id \in LTC2978.ids PROVE id \notin ControllerIds
      OBVIOUS
    <3>1. id = \h0110 \/ id = \h0120
      BY <2>1
    <3>2. QED BY <3>1, <2>3, <2>4
  <2>6. QED BY <2>2, <2>5 DEF IsManager
<1>6. IsManager(LTC2979) /\ LTC2979.numPages \in Nat
  <2>1. LTC2979.ids = {\h8060, \h8070}
    BY DEF Manager, LTC2979
  <2>2. LTC2979.controller = FALSE /\ LTC2979.numPages = 8
    BY DEF Manager, LTC2979
  <2>3. \h8060 \notin ControllerIds
    BY DEF ControllerIds
  <2>4. \h8070 \notin ControllerIds
    BY DEF ControllerIds
  <2>5. \A id \in LTC2979.ids : id \notin ControllerIds
    <3> SUFFICES ASSUME NEW id \in LTC2979.ids PROVE id \notin ControllerIds
      OBVIOUS
    <3>1. id = \h8060 \/ id = \h8070
      BY <2>1
    <3>2. QED BY <3>1, <2>3, <2>4
  <2>6. QED BY <2>2, <2>5 DEF IsManager
<1>7. IsManager(LTC2980) /\ LTC2980.numPages \in Nat
  <2>1. LTC2980.ids = {\h0130, \h8030, \h8040, \h80A0, \h80B0, \h80C0}
    BY DEF Manager, LTC2980
  <2>2. LTC2980.controller = FALSE /\ LTC2980.numPages = 8
    BY DEF Manager, LTC2980
  <2>3. \h0130 \notin ControllerIds
    BY DEF ControllerIds
  <2>4. \h8030 \notin ControllerIds
    BY DEF ControllerIds
  <2>5. \h8040 \notin ControllerIds
    BY DEF ControllerIds
  <2>6. \h80A0 \notin ControllerIds
    BY DEF ControllerIds
  <2>7. \h80B0 \notin ControllerIds
    BY DEF ControllerIds
  <2>8. \h80C0 \notin ControllerIds
    BY DEF ControllerIds
  <2>9. \A id \in LTC2980.ids : id \notin ControllerIds
    <3> SUFFICES ASSUME NEW id \in LTC2980.ids PROVE id \notin ControllerIds
      OBVIOUS
    <3>1. id = \h0130 \/ id = \h8030 \/ id = \h8040 \/ id = \h80A0 \/ id = \h80B0 \/ id = \h80C0
      BY <2>1
    <3>2. QED BY <3>1, <2>3, <2>4, <2>5, <2>6, <2>7, <2>8
  <2>10. QED BY <2>2, <2>9 DEF IsManager
<1>8. IsManager(LTM2987) /\ LTM2987.numPages \in Nat
  <2>1. LTM2987.ids = {\h8010, \h8020}
    BY DEF Manager, LTM2987
  <2>2. LTM2987.controller = FALSE /\ LTM2987.numPages = 8
    BY DEF Manager, LTM2987
  <2>3. \h8010 \notin ControllerIds
    BY DEF ControllerIds
  <2>4. \h8020 \notin ControllerIds
    BY DEF ControllerIds
  <2>5. \A id \in LTM2987.ids : id \notin ControllerIds
    <3> SUFFICES ASSUME NEW id \in LTM2987.ids PROVE id \notin ControllerIds
      OBVIOUS
    <3>1. id = \h8010 \/ id = \h8020
      BY <2>1
    <3>2. QED BY <3>1, <2>3, <2>4
  <2>6. QED BY <2>2, <2>5 DEF IsManager
<1>9. QED BY <1>1, <1>2, <1>3, <1>4, <1>5, <1>6, <1>7, <1>8

LEMMA Families ==
  \A k \in DOMAIN DetectOrder : /\ IsController(DetectOrder[k]) \/ IsManager(DetectOrder[k])
                                /\ DetectOrder[k].numPages \in Nat
<1>1. SUFFICES ASSUME NEW k \in 1..25
               PROVE  /\ IsController(DetectOrder[k]) \/ IsManager(DetectOrder[k])
                      /\ DetectOrder[k].numPages \in Nat
  BY DEF DetectOrder
<1>2. DetectOrder[k] \in {LTC3880, LTC3882, LTC3883, LTC3884, LTC3886, LTC3887, LTC3888, LTC3889,
                         LTC7880, LTM4664, LTM4675, LTM4676, LTM4677, LTM4678, LTM4680, LTM4686,
                         LTM4700, LTC2972, LTC2974, LTC2975, LTC2977, LTC2978, LTC2979, LTC2980,
                         LTM2987}
  BY DEF DetectOrder
<1>3. QED BY <1>2, Controllers, Managers, Zenon

(* Min of a set of natural numbers is one of them.                         *)
LEMMA MinIsMember ==
  ASSUME NEW S, S \subseteq Nat, S # {}
  PROVE  Min(S) \in S
<1>1. PICK x \in S : \A y \in S : ~(<<y, x>> \in OpToRel(<, Nat))
  BY NatLessThanWellFounded, WFMin
<1>2. \A y \in S : ~(y < x)
  BY <1>1, Zenon DEF OpToRel
<1>3. \A y \in S : x <= y
  BY <1>2
<1>4. QED BY <1>3 DEF Min

Hits(id) == {k \in DOMAIN DetectOrder : id \in DetectOrder[k].ids}

(* The class of an id that a class takes.                                  *)
LEMMA FirstClassTakes ==
  ASSUME NEW id, Hits(id) # {}
  PROVE  \E k \in DOMAIN DetectOrder : id \in DetectOrder[k].ids /\ FirstClass(id) = DetectOrder[k]
<1>1. Hits(id) \subseteq Nat
  BY DEF Hits, DetectOrder
<1>2. Min(Hits(id)) \in Hits(id)
  BY <1>1, MinIsMember
<1>3. QED BY <1>2 DEF Hits, FirstClass

LEMMA ChipIds == \A c \in Chips : Hits(IdOf[c]) # {}
BY ChipsAssumption DEF Hits

(* A rail is never a device: behind its address is a controller, and the    *)
(* class of a controller refuses the address that its rail address names.  *)
LEMMA RailsRefused ==
  ASSUME NEW a \in RailAddresses, NEW k \in DOMAIN DetectOrder
  PROVE  ~Detected(DetectOrder[k], IdRead(a), a, a)
<1>1. a \notin Chips
  BY RailsAssumption
<1>2. \E c \in Chips : \E p \in Pages(c) : RailOf[c][p] = a
  BY DEF RailAddresses
<1>3. PICK c \in Chips : IdRead(a) = IdOf[c] /\ \E p \in Pages(c) : RailOf[c][p] = a
  BY <1>1, <1>2 DEF IdRead
<1>4. a # NoRail
  BY DEF RailAddresses
<1>5. ~(~FirstClass(IdOf[c]).controller)
  BY <1>3, <1>4, ChipsAssumption
<1>6. PICK m \in DOMAIN DetectOrder : IdOf[c] \in DetectOrder[m].ids
                                      /\ FirstClass(IdOf[c]) = DetectOrder[m]
  BY FirstClassTakes, ChipIds
<1>7. IsController(DetectOrder[m])
  BY <1>5, <1>6, Families, Zenon DEF IsManager
<1>8. IdOf[c] \in ControllerIds
  BY <1>6, <1>7, Zenon DEF IsController
<1>9. IdOf[c] \in DetectOrder[k].ids => DetectOrder[k].controller = TRUE
  BY <1>8, Families, Zenon DEF IsController, IsManager
<1>10. QED BY <1>3, <1>9, Zenon DEF Detected

-----------------------------------------------------------------------------
(* The addresses.                                                          *)
LEMMA AnsweringFinite == /\ Answering \subseteq 16..126 /\ Chips \subseteq Answering
                         /\ Answering \subseteq Int
                         /\ IsFiniteSet(Answering) /\ Cardinality(Answering) \in Nat
<1>1. /\ Answering \subseteq 16..126 /\ Chips \subseteq Answering
  BY ChipsAssumption, RailsAssumption DEF Answering
<1>2. \A a, b \in Int : IsFiniteSet(a..b)
  BY FS_Interval
<1>3. 16 \in Int /\ 126 \in Int
  OBVIOUS
<1>4. IsFiniteSet(16..126)
  BY <1>2, <1>3, Zenon
<1>5. IsFiniteSet(Answering)
  BY <1>1, <1>4, FS_Subset
<1>6. Cardinality(Answering) \in Nat
  BY <1>5, FS_CardinalityType
<1>7. QED BY <1>1, <1>5, <1>6

(* How many addresses lie below: it rises with the address, and so counts   *)
(* through them.                                                           *)
Rank(a) == Cardinality(Below(a))

LEMMA RankRises ==
  /\ \A a \in Answering : Rank(a) \in 0..(Cardinality(Answering) - 1)
  /\ \A a, b \in Answering : a < b => Rank(a) < Rank(b)
<1>1. ASSUME NEW a \in Answering
      PROVE  IsFiniteSet(Below(a)) /\ Rank(a) \in 0..(Cardinality(Answering) - 1)
  <2>1. Below(a) \subseteq Answering /\ a \notin Below(a)
    BY AnsweringFinite DEF Below
  <2>2. /\ IsFiniteSet(Below(a)) /\ Cardinality(Below(a)) <= Cardinality(Answering)
        /\ Cardinality(Answering) = Cardinality(Below(a)) => Answering = Below(a)
    BY <2>1, AnsweringFinite, FS_Subset
  <2>3. Cardinality(Below(a)) \in Nat
    BY <2>2, FS_CardinalityType
  <2>4. QED BY <2>1, <2>2, <2>3, AnsweringFinite DEF Rank
<1>2. ASSUME NEW a \in Answering, NEW b \in Answering, a < b
      PROVE  Rank(a) < Rank(b)
  <2>0. \A c \in Answering : c \in Int
    BY AnsweringFinite
  <2>1. Below(a) \subseteq Below(b) /\ a \in Below(b) /\ a \notin Below(a)
    BY <1>2, <2>0 DEF Below
  <2>2. IsFiniteSet(Below(b)) /\ Rank(a) \in Nat /\ Rank(b) \in Nat
    BY <1>1, AnsweringFinite
  <2>3. /\ Cardinality(Below(a)) <= Cardinality(Below(b))
        /\ Cardinality(Below(b)) = Cardinality(Below(a)) => Below(b) = Below(a)
    BY <2>1, <2>2, FS_Subset
  <2>4. QED BY <2>1, <2>2, <2>3 DEF Rank
<1>3. QED BY <1>1, <1>2

LEMMA EveryRank ==
  \A i \in 1..Cardinality(Answering) : \E a \in Answering : Rank(a) = i - 1
<1> DEFINE n == Cardinality(Answering)
           rank == [a \in Answering |-> Rank(a)]
<1>1. n \in Nat
  BY AnsweringFinite
<1>2. rank \in [Answering -> 0..(n - 1)]
  BY RankRises
<1>3. ASSUME NEW a \in Answering, NEW b \in Answering, rank[a] = rank[b]
      PROVE  a = b
  <2>1. Rank(a) = Rank(b) /\ Rank(a) \in Int /\ Rank(b) \in Int /\ a \in Int /\ b \in Int
    BY <1>3, RankRises, AnsweringFinite
  <2>2. ~(a < b) /\ ~(b < a)
    BY <2>1, RankRises
  <2>3. QED BY <2>1, <2>2
<1>4. rank \in Injection(Answering, 0..(n - 1))
  BY <1>2, <1>3, Fun_IsInj
<1>5. IsFiniteSet(0..(n - 1)) /\ Cardinality(0..(n - 1)) = n
  BY <1>1, FS_Interval
<1>6. rank \in Surjection(Answering, 0..(n - 1))
  BY <1>4, <1>5, FS_Injection
<1>7. \A r \in 0..(n - 1) : \E a \in Answering : rank[a] = r
  BY <1>6 DEF Surjection
<1>8. SUFFICES ASSUME NEW i \in 1..n PROVE \E a \in Answering : Rank(a) = i - 1
  OBVIOUS
<1>9. i - 1 \in 0..(n - 1)
  BY <1>1
<1>10. PICK a \in Answering : rank[a] = i - 1
  BY <1>7, <1>9
<1>11. QED BY <1>10

(* The list holds every address that answers, in order.                    *)
LEMMA AddressesSorted ==
  /\ Len(Addresses) = Cardinality(Answering) /\ Len(Addresses) \in Nat
  /\ \A k \in 1..Len(Addresses) : Addresses[k] \in Answering
  /\ \A a \in Answering : \E k \in 1..Len(Addresses) : Addresses[k] = a
  /\ \A k, m \in 1..Len(Addresses) : k < m => Addresses[k] < Addresses[m]
<1> DEFINE n == Cardinality(Answering)
<1>1. n \in Nat
  BY AnsweringFinite
<1>2. \A k \in 1..n : Addresses[k] \in Answering /\ Rank(Addresses[k]) = k - 1
  BY EveryRank DEF Addresses, Rank
<1>3. Len(Addresses) = n
  BY <1>1, <1>2 DEF Addresses
<1>4. ASSUME NEW k \in 1..n, NEW m \in 1..n, k < m
      PROVE  Addresses[k] < Addresses[m]
  <2>1. /\ Addresses[k] \in Answering /\ Addresses[m] \in Answering
        /\ Rank(Addresses[k]) = k - 1 /\ Rank(Addresses[m]) = m - 1
        /\ Addresses[k] \in Int /\ Addresses[m] \in Int
    BY <1>2, AnsweringFinite
  <2>2. ~(Addresses[m] < Addresses[k])
    BY <1>1, <1>4, <2>1, RankRises
  <2>3. Addresses[m] # Addresses[k]
    BY <1>1, <1>4, <2>1
  <2>4. QED BY <2>1, <2>2, <2>3
<1>5. ASSUME NEW a \in Answering
      PROVE  \E k \in 1..n : Addresses[k] = a
  <2>1. Rank(a) \in 0..(n - 1) /\ Rank(a) + 1 \in 1..n
    BY <1>1, RankRises
  <2> DEFINE b == Addresses[Rank(a) + 1]
  <2>2. b \in Answering /\ Rank(b) = Rank(a)
    BY <1>2, <2>1
  <2>3. a \in Int /\ b \in Int
    BY <2>1, <2>2, AnsweringFinite
  <2>4. ~(a < b) /\ ~(b < a)
    BY <1>1, <2>1, <2>2, RankRises
  <2>5. a = b
    BY <2>3, <2>4
  <2>6. QED BY <2>1, <2>5
<1>6. QED BY <1>1, <1>2, <1>3, <1>4, <1>5

-----------------------------------------------------------------------------
(* The steps.                                                              *)
LEMMA PagesAreInt == \A c \in Chips : 0 \in Pages(c) /\ \A p \in Pages(c) : p \in 0..7
BY ChipsAssumption

LEMMA DevicesTyped ==
  ASSUME Session
  PROVE  /\ devices \in Seq(Object) /\ Len(devices) \in Nat /\ DOMAIN devices = 1..Len(devices)
         /\ \A i \in 1..Len(devices) :
              /\ devices[i] \in Object /\ devices[i].address \in Chips
              /\ devices[i].class = FirstClass(IdOf[devices[i].address])
<1>1. Known
  BY DEF Session
<1>2. devices \in Seq(Object)
  BY <1>1 DEF Known
<1>3. /\ Len(devices) \in Nat /\ DOMAIN devices = 1..Len(devices)
      /\ \A i \in 1..Len(devices) : devices[i] \in Object
  BY <1>2
<1>4. \A i \in 1..Len(devices) : devices[i].address \in Chips
  BY <1>3 DEF Object
<1>5. QED BY <1>1, <1>2, <1>3, <1>4 DEF Known

LEMMA SetPageKeeps ==
  ASSUME ChipsKept, NEW a, NEW p, NEW withPec, SetPage(a, p, withPec)
  PROVE  /\ page' \in [Chips -> Int]
         /\ \A c \in Chips : page'[c] \in Pages(c) \cup {AllPages}
BY PagesAreInt DEF ChipsKept, SetPage, AllPages

(* A step among those that follow a detection, with the devices it found.   *)
LEMMA Onward ==
  ASSUME Session,
         devices' = devices, heard' = heard, pec' = pec,
         required' \in [Chips -> BOOLEAN],
         page' \in [Chips -> Int], \A c \in Chips : page'[c] \in Pages(c) \cup {AllPages},
         at' \in Nat \ {0}, next' \in Nat,
         phase \notin {"off", "detect"}, phase' \notin {"off", "detect"},
         heard => Following', LabelsTrue'
  PROVE  Session'
<1>1. ChipsKept'
  BY DEF Session, ChipsKept
<1>2. Known'
  BY DEF Session, Known
<1>3. Located'
  BY DEF Session, Located
<1>4. QED BY <1>1, <1>2, <1>3 DEF Session

LEMMA InitSession == Init => Session
<1> SUFFICES ASSUME Init PROVE Session
  OBVIOUS
<1>1. ChipsKept
  <2>1. page \in [Chips -> Int] /\ \A c \in Chips : page[c] \in Pages(c) \cup {AllPages}
    BY PagesAreInt DEF Init
  <2>2. required \in [Chips -> BOOLEAN] /\ at \in Nat \ {0} /\ next \in Nat
    BY DEF Init
  <2>3. pec \in BOOLEAN /\ heard \in BOOLEAN
    BY Zenon DEF Init
  <2>4. QED BY <2>1, <2>2, <2>3 DEF ChipsKept
<1>2. devices = <<>> /\ phase = "off" /\ shown = None
  BY DEF Init
<1>3. Known
  BY <1>2 DEF Known
<1>4. Located
  BY <1>2 DEF Located
<1>5. Following /\ LabelsTrue
  BY <1>2 DEF Following, Finding, Using, LabelsTrue
<1>6. QED BY <1>1, <1>3, <1>4, <1>5 DEF Session

LEMMA RedetectKeeps ==
  ASSUME Session, NEW withPec \in BOOLEAN, Redetect(withPec), UNCHANGED chips
  PROVE  Session'
<1>1. /\ devices' = <<>> /\ phase' = "detect" /\ shown' = None /\ at' = 1 /\ next' = 0
      /\ pec' = withPec /\ page' = page /\ required' = required
      /\ heard' = \A c \in Chips : Obeys(c, withPec)
  BY DEF Redetect, chips
<1>2. ChipsKept'
  BY <1>1 DEF Session, ChipsKept
<1>3. Known'
  BY <1>1 DEF Known
<1>4. Located'
  BY <1>1, AddressesSorted DEF Located, Behind
<1>5. heard' => Following'
  <2> SUFFICES ASSUME heard' PROVE Following'
    OBVIOUS
  <2>1. \A c \in Chips : required[c] => withPec
    BY <1>1 DEF Obeys
  <2>2. \A c \in Chips : Obeys(c, pec)'
    BY <1>1, <2>1 DEF Obeys
  <2>3. Len(devices') = 0
    BY <1>1
  <2>4. QED BY <1>1, <2>2, <2>3 DEF Following, Using
<1>6. LabelsTrue'
  BY <1>1 DEF LabelsTrue
<1>7. QED BY <1>2, <1>3, <1>4, <1>5, <1>6 DEF Session

LEMMA EndKeeps == Session /\ End => Session'
<1> SUFFICES ASSUME Session, End PROVE Session'
  OBVIOUS
<1>1. /\ devices' = <<>> /\ phase' = "off" /\ shown' = None /\ at' = 1 /\ next' = 0
      /\ pec' = pec /\ page' = page /\ required' = required /\ heard' = heard
  BY DEF End, chips
<1>2. ChipsKept'
  BY <1>1 DEF Session, ChipsKept
<1>3. Known' /\ Located'
  BY <1>1 DEF Known, Located
<1>4. Following' /\ LabelsTrue'
  BY <1>1 DEF Following, Finding, Using, LabelsTrue
<1>5. QED BY <1>2, <1>3, <1>4 DEF Session

(* A chip is found with the class of its id, and a rail is not found.      *)
LEMMA ChipIsFound ==
  ASSUME Session, DetectDevice
  PROVE  LET a == Addresses[at]
         IN  devices' = IF a \in Chips
                          THEN Append(devices, [address |-> a, class |-> FirstClass(IdOf[a]), pec |-> pec])
                          ELSE devices
<1> DEFINE a == Addresses[at]
           Met(rail) == {k \in DOMAIN DetectOrder : Detected(DetectOrder[k], IdRead(a), a, rail)}
<1>1. at \in 1..Len(Addresses) /\ a \in Answering
  BY AddressesSorted DEF DetectDevice, Session, ChipsKept
<1>2. PICK rail \in RailRead(page, a) :
        devices' = IF Met(rail) = {} THEN devices
                   ELSE Append(devices, [address |-> a, class |-> DetectOrder[Min(Met(rail))], pec |-> pec])
  BY DEF DetectDevice
<1>3. CASE a \in Chips
  <2>1. rail # a
    <3>1. PICK p \in Selected(page, a) : rail = RailOf[a][p]
      BY <1>2, <1>3 DEF RailRead
    <3>2. p \in Pages(a)
      BY <1>3, <3>1 DEF Selected, Session, ChipsKept
    <3>3. rail \in RailAddresses \cup {NoRail}
      BY <1>3, <3>1, <3>2 DEF RailAddresses
    <3>4. QED BY <1>3, <3>3, RailsAssumption, ChipsAssumption
  <2>2. Met(rail) = Hits(IdOf[a])
    BY <1>3, <2>1 DEF Detected, IdRead, Hits
  <2>3. Met(rail) # {} /\ DetectOrder[Min(Met(rail))] = FirstClass(IdOf[a])
    BY <1>3, <2>2, ChipIds DEF FirstClass, Hits
  <2>4. QED BY <1>2, <1>3, <2>3
<1>4. CASE a \notin Chips
  <2>1. a \in RailAddresses /\ rail = a
    BY <1>1, <1>2, <1>4 DEF Answering, RailRead
  <2>2. Met(rail) = {}
    BY <2>1, RailsRefused
  <2>3. QED BY <1>2, <1>4, <2>2
<1>5. QED BY <1>3, <1>4

LEMMA DetectKeeps == Session /\ DetectDevice => Session'
<1> SUFFICES ASSUME Session, DetectDevice PROVE Session'
  OBVIOUS
<1> DEFINE a == Addresses[at]
           new == [address |-> a, class |-> FirstClass(IdOf[a]), pec |-> pec]
<1>1. /\ phase = "detect" /\ at <= Len(Addresses) /\ at' = at + 1
      /\ page' = page /\ required' = required /\ phase' = phase /\ next' = next
      /\ pec' = pec /\ shown' = shown /\ heard' = heard
  BY DEF DetectDevice, chips
<1>2. devices' = IF a \in Chips THEN Append(devices, new) ELSE devices
  BY ChipIsFound
<1>3. /\ at \in 1..Len(Addresses) /\ at \in Nat \ {0}
      /\ pec \in BOOLEAN /\ devices \in Seq(Object) /\ Len(devices) \in Nat
  BY <1>1, AddressesSorted DEF Session, ChipsKept, Known
<1>4. ChipsKept'
  BY <1>1 DEF Session, ChipsKept
<1>5. a \in Chips => new \in Object
  <2> SUFFICES ASSUME a \in Chips PROVE FirstClass(IdOf[a]) \in Range(DetectOrder)
    BY <1>3 DEF Object
  <2>1. QED BY FirstClassTakes, ChipIds DEF Range
<1>6. /\ a \in Chips => /\ Len(devices') = Len(devices) + 1
                        /\ devices'[Len(devices) + 1] = new
                        /\ \A i \in 1..Len(devices) : devices'[i] = devices[i]
      /\ a \notin Chips => devices' = devices
  BY <1>2, <1>3, <1>5
<1>7. \A c : Behind(c, at') <=> Behind(c, at) \/ c = a
  BY <1>1, <1>3 DEF Behind
<1>8. Known'
  BY <1>2, <1>3, <1>5, <1>6 DEF Session, Known
<1>9. Located'
  <2>1. \A i \in 1..Len(devices) : devices[i].address < a
    <3> SUFFICES ASSUME NEW i \in 1..Len(devices) PROVE devices[i].address < a
      OBVIOUS
    <3>1. PICK k \in 1..Len(Addresses) : k < at /\ Addresses[k] = devices[i].address
      BY <1>1 DEF Session, Located, Behind
    <3>2. QED BY <1>3, <3>1, AddressesSorted
  <2>2. ASSUME NEW i \in 1..Len(devices'), NEW j \in 1..Len(devices'), i < j
        PROVE  devices'[i].address < devices'[j].address
    <3>1. CASE j \in 1..Len(devices)
      <4>1. i \in 1..Len(devices)
        BY <1>3, <2>2, <3>1
      <4>2. devices'[i] = devices[i] /\ devices'[j] = devices[j]
        BY <1>6, <3>1, <4>1
      <4>3. QED BY <2>2, <3>1, <4>1, <4>2 DEF Session, Located
    <3>2. CASE j \notin 1..Len(devices)
      <4>1. a \in Chips /\ j = Len(devices) + 1 /\ i \in 1..Len(devices)
        BY <1>3, <1>6, <2>2, <3>2
      <4>2. devices'[i] = devices[i] /\ devices'[j].address = a
        BY <1>6, <4>1
      <4>3. QED BY <2>1, <4>1, <4>2
    <3>3. QED BY <3>1, <3>2
  <2>3. \A i \in 1..Len(devices') : Behind(devices'[i].address, at')
    BY <1>1, <1>3, <1>6, <1>7 DEF Session, Located
  <2>4. ASSUME NEW c \in Chips, Behind(c, at')
        PROVE  \E i \in 1..Len(devices') : devices'[i].address = c
    <3>1. CASE c = a
      BY <1>3, <1>6, <3>1
    <3>2. CASE c # a
      <4>1. Behind(c, at)
        BY <1>7, <2>4, <3>2
      <4>2. PICK i \in 1..Len(devices) : devices[i].address = c
        BY <1>1, <4>1 DEF Session, Located
      <4>3. QED BY <1>3, <1>6, <4>2
    <3>3. QED BY <3>1, <3>2
  <2>5. QED BY <1>1, <2>2, <2>3, <2>4 DEF Located
<1>10. heard' => Following'
  BY <1>1, <1>3, <1>6 DEF Session, Following, Finding, Using, Obeys
<1>11. LabelsTrue'
  BY <1>1 DEF Session, LabelsTrue
<1>12. QED BY <1>4, <1>8, <1>9, <1>10, <1>11 DEF Session

LEMMA DetectDoneKeeps == Session /\ DetectDone => Session'
<1> SUFFICES ASSUME Session, DetectDone PROVE Session'
  OBVIOUS
<1>1. /\ phase = "detect" /\ at > Len(Addresses) /\ phase' = "first" /\ at' = 1
      /\ page' = page /\ required' = required /\ next' = next
      /\ pec' = pec /\ devices' = devices /\ shown' = shown /\ heard' = heard
  BY DEF DetectDone, chips
<1>2. ChipsKept' /\ Known'
  BY <1>1 DEF Session, ChipsKept, Known
<1>3. \A c \in Chips : Behind(c, at)
  <2> SUFFICES ASSUME NEW c \in Chips PROVE Behind(c, at)
    OBVIOUS
  <2>1. PICK k \in 1..Len(Addresses) : Addresses[k] = c
    BY AddressesSorted, AnsweringFinite
  <2>2. k < at
    BY <1>1, <2>1, AddressesSorted DEF Session, ChipsKept
  <2>3. QED BY <2>1, <2>2 DEF Behind
<1>4. Located'
  BY <1>1, <1>3 DEF Session, Located
<1>5. heard' => Following'
  BY <1>1 DEF Session, Following, Finding, Using, Obeys
<1>6. LabelsTrue'
  BY <1>1 DEF Session, LabelsTrue
<1>7. QED BY <1>2, <1>4, <1>5, <1>6 DEF Session

LEMMA TreeKeeps == Session /\ TreeDevice => Session'
<1> SUFFICES ASSUME Session, TreeDevice PROVE Session'
  OBVIOUS
<1>1. /\ phase = "tree" /\ at <= Len(devices) /\ SwitchPec(devices[at].address, TRUE, FALSE)
      /\ devices' = [devices EXCEPT ![at].pec = TRUE] /\ at' = at + 1
      /\ page' = page /\ phase' = phase /\ next' = next /\ pec' = pec
      /\ shown' = shown /\ heard' = heard
  BY DEF TreeDevice
<1>2. /\ at \in 1..Len(devices) /\ at \in Nat \ {0}
      /\ devices \in Seq(Object) /\ Len(devices) \in Nat
  BY <1>1 DEF Session, ChipsKept, Known
<1>3. required' \in [Chips -> BOOLEAN]
  BY <1>1 DEF Session, ChipsKept, SwitchPec
<1>4. /\ Len(devices') = Len(devices)
      /\ \A i \in 1..Len(devices) : /\ devices'[i].address = devices[i].address
                                    /\ devices'[i].class = devices[i].class
      /\ \A i \in 1..Len(devices) : i # at => devices'[i] = devices[i]
      /\ devices'[at].pec = TRUE
  <2>1. /\ Len(devices') = Len(devices)
        /\ \A i \in 1..Len(devices) : i # at => devices'[i] = devices[i]
        /\ devices'[at] = [devices[at] EXCEPT !.pec = TRUE]
    <3> DEFINE moved == [devices[at] EXCEPT !.pec = TRUE]
    <3>1. devices' = [devices EXCEPT ![at] = moved]
      BY <1>1
    <3> HIDE DEF moved
    <3>2. /\ Len(devices') = Len(devices)
          /\ \A i \in 1..Len(devices) : i # at => devices'[i] = devices[i]
          /\ devices'[at] = moved
      BY <1>2, <3>1
    <3>3. QED BY <3>2 DEF moved
  <2>2. devices[at] \in Object
    BY <1>2
  <2>3. /\ devices'[at].address = devices[at].address
        /\ devices'[at].class = devices[at].class
        /\ devices'[at].pec = TRUE
    BY <2>1, <2>2 DEF Object
  <2>4. QED BY <2>1, <2>3
<1>5. devices' \in Seq(Object)
  <2>1. devices[at] \in Object
    BY <1>2
  <2>2. [devices[at] EXCEPT !.pec = TRUE] \in Object
    BY <2>1 DEF Object
  <2>3. QED BY <1>1, <1>2, <2>2
<1>6. ChipsKept' /\ Known'
  BY <1>1, <1>2, <1>3, <1>4, <1>5 DEF Session, ChipsKept, Known
<1>7. Located'
  BY <1>1, <1>4 DEF Session, Located
<1>8. heard' => Following'
  BY <1>1, <1>2, <1>4 DEF Session, Following, Finding, Using
<1>9. LabelsTrue'
  BY <1>1 DEF Session, LabelsTrue
<1>10. QED BY <1>6, <1>7, <1>8, <1>9 DEF Session

(* The steps that leave the devices as they are, but items 5 and 6.        *)
Stays == \/ FirstRail \/ SecondRail \/ ManagerRails \/ RailsDone
         \/ \E item \in Items : Choose(item)
         \/ PrintPaged \/ PrintStatus \/ NextDevice
         \/ PecDevice \/ ClearDevice \/ ItemDone
         \/ OperateGlobal \/ ResetGlobal \/ ClearGlobal \/ RestoreGlobal

LEMMA StaysPages ==
  ASSUME Session, Stays
  PROVE  page' \in [Chips -> Int] /\ \A c \in Chips : page'[c] \in Pages(c) \cup {AllPages}
<1>1. ChipsKept
  BY DEF Session
<1>2. CASE FirstRail \/ SecondRail \/ PrintPaged \/ ClearDevice
  <2>1. \E a, p, withPec : SetPage(a, p, withPec)
    BY <1>2 DEF FirstRail, SecondRail, PrintPaged, ClearDevice
  <2>2. QED BY <1>1, <2>1, SetPageKeeps
<1>3. CASE OperateGlobal \/ ResetGlobal \/ ClearGlobal
  BY <1>1, <1>3, PagesAreInt DEF OperateGlobal, ResetGlobal, ClearGlobal, Global, AllPages, ChipsKept
<1>4. CASE \/ ManagerRails \/ RailsDone \/ (\E item \in Items : Choose(item))
           \/ PrintStatus \/ NextDevice \/ PecDevice \/ ItemDone \/ RestoreGlobal
  BY <1>1, <1>4 DEF ManagerRails, RailsDone, Choose, PrintStatus, NextDevice, PecDevice, ItemDone,
     RestoreGlobal, chips, ChipsKept
<1>5. QED BY <1>2, <1>3, <1>4 DEF Stays

LEMMA StaysSame ==
  ASSUME Session, Stays
  PROVE  /\ devices' = devices /\ heard' = heard /\ pec' = pec
         /\ at' \in Nat \ {0} /\ next' \in Nat
         /\ phase \notin {"off", "detect"} /\ phase' \notin {"off", "detect"}
<1>1. at \in Nat \ {0} /\ next \in Nat
  BY DEF Session, ChipsKept
<1>2. QED
  BY <1>1 DEF Stays, FirstRail, SecondRail, ManagerRails, RailsDone, Choose, PrintPaged, PrintStatus,
     NextDevice, PecDevice, ClearDevice, ItemDone, OperateGlobal, ResetGlobal, ClearGlobal,
     RestoreGlobal, Items, ReadItems

(* A chip asks for more only in items 5 and 6.                             *)
LEMMA StaysRequired ==
  ASSUME Session, Stays
  PROVE  /\ required' \in [Chips -> BOOLEAN]
         /\ ~PecDevice => \A c \in Chips : required'[c] => required[c]
<1>1. required \in [Chips -> BOOLEAN]
  BY DEF Session, ChipsKept
<1>2. CASE PecDevice
  BY <1>1, <1>2 DEF PecDevice, SwitchPec, ReadItems
<1>3. CASE ResetGlobal \/ RestoreGlobal
  BY <1>1, <1>3 DEF ResetGlobal, RestoreGlobal
<1>4. CASE \/ FirstRail \/ SecondRail \/ ManagerRails \/ RailsDone
           \/ (\E item \in Items : Choose(item))
           \/ PrintPaged \/ PrintStatus \/ NextDevice \/ ClearDevice \/ ItemDone
           \/ OperateGlobal \/ ClearGlobal
  BY <1>1, <1>4 DEF FirstRail, SecondRail, ManagerRails, RailsDone, Choose, PrintPaged, PrintStatus,
     NextDevice, ClearDevice, ItemDone, OperateGlobal, ClearGlobal, chips
<1>5. QED BY <1>2, <1>3, <1>4 DEF Stays

(* The ways in which such a step leads from one phase to the next.         *)
LEMMA StaysPhases ==
  ASSUME Session, Stays, ~PecDevice
  PROVE  \/ phase \in Finding /\ phase' \in Finding \cup {"menu"}
         \/ phase \in Using /\ phase' \in Using
         \/ phase' = "tree" /\ at' = 1
         \/ phase' \in {"pec_on", "pec_off"}
         \/ phase = "tree" /\ phase' = "menu" /\ at > Len(devices)
<1>1. CASE FirstRail \/ SecondRail \/ ManagerRails \/ RailsDone
  BY <1>1 DEF FirstRail, SecondRail, ManagerRails, RailsDone, Finding
<1>2. CASE \E item \in Items : Choose(item)
  BY <1>2 DEF Choose, Items, ReadItems, Using
<1>3. CASE PrintPaged \/ PrintStatus \/ NextDevice \/ ClearDevice \/ ItemDone
  BY <1>3 DEF PrintPaged, PrintStatus, NextDevice, ClearDevice, ItemDone, ReadItems, Using
<1>4. CASE OperateGlobal \/ ResetGlobal \/ ClearGlobal \/ RestoreGlobal
  BY <1>4 DEF OperateGlobal, ResetGlobal, ClearGlobal, RestoreGlobal, Using
<1>5. QED BY <1>1, <1>2, <1>3, <1>4 DEF Stays

LEMMA StaysFollowing ==
  ASSUME Session, Stays, heard
  PROVE  Following'
<1>1. devices' = devices /\ pec' = pec
  BY StaysSame
<1>2. /\ Following /\ Len(devices) \in Nat /\ at \in Nat
      /\ \A i \in 1..Len(devices) : devices[i] \in Object /\ devices[i].address \in Chips
  BY DevicesTyped DEF Session, ChipsKept
<1>3. CASE PecDevice
  BY <1>3 DEF PecDevice, Following, Finding, Using
<1>4. CASE ~PecDevice
  <2>1. \A c \in Chips : required'[c] => required[c]
    BY <1>4, StaysRequired
  <2>2. \A c \in Chips : \A sent : Obeys(c, sent) => (required'[c] => sent)
    BY <2>1 DEF Obeys
  <2>3. CASE phase \in Finding /\ phase' \in Finding \cup {"menu"}
    <3>1. /\ \A c \in Chips : required'[c] => pec
          /\ \A i \in 1..Len(devices) : devices[i].pec = pec
      BY <1>2, <2>2, <2>3 DEF Following
    <3>2. \A i \in 1..Len(devices) : required'[devices[i].address] => devices[i].pec
      BY <1>2, <3>1
    <3>3. QED BY <1>1, <2>3, <3>1, <3>2 DEF Following, Finding, Using, Obeys
  <2>4. CASE phase \in Using /\ phase' \in Using
    <3>1. \A i \in 1..Len(devices) : required'[devices[i].address] => devices[i].pec
      BY <1>2, <2>2, <2>4 DEF Following
    <3>2. QED BY <1>1, <2>4, <3>1 DEF Following, Finding, Using, Obeys
  <2>5. CASE phase' = "tree" /\ at' = 1
    BY <1>1, <2>5 DEF Following, Finding, Using
  <2>6. CASE phase' \in {"pec_on", "pec_off"}
    BY <2>6 DEF Following, Finding, Using
  <2>7. CASE phase = "tree" /\ phase' = "menu" /\ at > Len(devices)
    <3>1. \A i \in 1..Len(devices) : devices[i].pec = TRUE
      BY <1>2, <2>7 DEF Following
    <3>2. QED BY <1>1, <2>7, <3>1 DEF Following, Finding, Using, Obeys
  <2>8. QED BY <1>4, <2>3, <2>4, <2>5, <2>6, <2>7, StaysPhases
<1>5. QED BY <1>3, <1>4

(* The page is set to the one that the line names before it is read, which  *)
(* needs that the chip obeys its device and has the page.                  *)
LEMMA PrintedPage ==
  ASSUME Session, PrintPaged, heard
  PROVE  shown'.read = shown'.label
<1>1. /\ phase \in {"voltages", "currents"} /\ at \in 1..Len(devices) /\ next \in Nat
      /\ next < devices[at].class.numPages
  BY DEF PrintPaged, Session, ChipsKept
<1> DEFINE a == devices[at].address
<1>2. a \in Chips /\ devices[at].class = FirstClass(IdOf[a])
  BY <1>1, DevicesTyped
<1>3. PICK k \in DOMAIN DetectOrder : FirstClass(IdOf[a]) = DetectOrder[k]
  BY <1>2, FirstClassTakes, ChipIds
<1>4. FirstClass(IdOf[a]).numPages \in Nat
  BY <1>3, Families
<1>5. next \in Pages(a) /\ next \in 0..7
  BY <1>1, <1>2, <1>4, PagesAssumption, PagesAreInt
<1>6. Obeys(a, devices[at].pec)
  BY <1>1 DEF Session, Following, Using
<1>7. page'[a] = next
  BY <1>2, <1>5, <1>6 DEF PrintPaged, SetPage
<1>8. Selected(page', a) = {next}
  BY <1>5, <1>7 DEF Selected, AllPages
<1>9. PICK p \in Selected(page', a) :
        shown' = [item |-> phase, label |-> <<a, next>>, read |-> <<a, p>>]
  BY DEF PrintPaged
<1>10. QED BY <1>8, <1>9

LEMMA StaysLabelled ==
  ASSUME Session, Stays
  PROVE  LabelsTrue'
<1>1. LabelsTrue /\ heard' = heard
  BY StaysSame DEF Session
<1>2. CASE PrintPaged
  BY <1>1, <1>2, PrintedPage DEF LabelsTrue
<1>3. CASE PrintStatus
  BY <1>3 DEF PrintStatus, LabelsTrue
<1>4. CASE \/ FirstRail \/ SecondRail \/ ManagerRails \/ RailsDone
           \/ (\E item \in Items : Choose(item))
           \/ NextDevice \/ PecDevice \/ ClearDevice \/ ItemDone
           \/ OperateGlobal \/ ResetGlobal \/ ClearGlobal \/ RestoreGlobal
  <2>1. shown' = shown \/ shown' = None
    BY <1>4 DEF FirstRail, SecondRail, ManagerRails, RailsDone, Choose, NextDevice, PecDevice,
       ClearDevice, ItemDone, OperateGlobal, ResetGlobal, ClearGlobal, RestoreGlobal
  <2>2. QED BY <1>1, <2>1 DEF LabelsTrue
<1>5. QED BY <1>2, <1>3, <1>4 DEF Stays

-----------------------------------------------------------------------------
LEMMA SessionKept == Session /\ [Next]_vars => Session'
<1> SUFFICES ASSUME Session, [Next]_vars PROVE Session'
  OBVIOUS
<1>1. CASE Start
  BY <1>1, RedetectKeeps DEF Start
<1>2. CASE PecDone
  <2>1. PecDone => Redetect(phase = "pec_on") /\ UNCHANGED chips
    BY DEF PecDone
  <2>2. (phase = "pec_on") \in BOOLEAN
    OBVIOUS
  <2>3. QED BY <1>2, <2>1, <2>2, RedetectKeeps
<1>3. CASE End
  BY <1>3, EndKeeps
<1>4. CASE DetectDevice
  BY <1>4, DetectKeeps
<1>5. CASE DetectDone
  BY <1>5, DetectDoneKeeps
<1>6. CASE TreeDevice
  BY <1>6, TreeKeeps
<1>7. CASE Stays
  BY <1>7, StaysSame, StaysPages, StaysRequired, StaysFollowing, StaysLabelled, Onward
<1>8. CASE UNCHANGED vars
  <2>1. /\ page' = page /\ required' = required /\ phase' = phase /\ at' = at /\ next' = next
        /\ pec' = pec /\ devices' = devices /\ shown' = shown /\ heard' = heard
    BY <1>8 DEF vars, chips
  <2>2. ChipsKept' /\ Known' /\ Located'
    BY <2>1 DEF Session, ChipsKept, Known, Located
  <2>3. heard' => Following'
    BY <2>1 DEF Session, Following, Obeys
  <2>4. LabelsTrue'
    BY <2>1 DEF Session, LabelsTrue
  <2>5. QED BY <2>2, <2>3, <2>4 DEF Session
<1>9. QED BY <1>1, <1>2, <1>3, <1>4, <1>5, <1>6, <1>7, <1>8 DEF Next, Stays

LEMMA SessionInvariant == Spec => []Session
BY InitSession, SessionKept, PTL DEF Spec

(* On any bus, whatever pages the chips were left on and whether they obey  *)
(* or not, getDevices finds each chip once, in order, with its class.      *)
THEOREM EveryDeviceFound == Spec => []DevicesFound
<1>1. Session => DevicesFound
  <2> SUFFICES ASSUME Session, phase = "menu"
               PROVE  /\ Len(devices) = Cardinality(Chips)
                      /\ \A i \in DOMAIN devices :
                           /\ devices[i].address \in Chips
                           /\ devices[i].class = FirstClass(IdOf[devices[i].address])
                      /\ \A i, j \in DOMAIN devices : i < j => devices[i].address < devices[j].address
    BY DEF DevicesFound
  <2>1. /\ devices \in Seq(Object) /\ Len(devices) \in Nat /\ DOMAIN devices = 1..Len(devices)
        /\ \A i \in 1..Len(devices) : devices[i].address \in Chips
    BY DevicesTyped
  <2>2. \A i, j \in 1..Len(devices) : i < j => devices[i].address < devices[j].address
    BY DEF Session, Located
  <2>3. \A c \in Chips : \E i \in 1..Len(devices) : devices[i].address = c
    BY DEF Session, Located
  <2> DEFINE address == [i \in 1..Len(devices) |-> devices[i].address]
  <2>4. address \in [1..Len(devices) -> Chips]
    BY <2>1
  <2>5. ASSUME NEW i \in 1..Len(devices), NEW j \in 1..Len(devices), address[i] = address[j]
        PROVE  i = j
    <3>1. devices[i].address = devices[j].address /\ devices[i].address \in Int
      BY <2>1, <2>5, AnsweringFinite
    <3>2. ~(i < j) /\ ~(j < i)
      BY <2>2, <3>1
    <3>3. QED BY <2>1, <3>2
  <2>6. address \in Bijection(1..Len(devices), Chips)
    BY <2>3, <2>4, <2>5, Fun_IsBij
  <2>7. IsFiniteSet(1..Len(devices)) /\ Cardinality(1..Len(devices)) = Len(devices)
    BY <2>1, FS_Interval
  <2>8. Len(devices) = Cardinality(Chips)
    BY <2>6, <2>7, FS_Bijection DEF ExistsBijection
  <2>9. QED BY <2>1, <2>2, <2>8, DevicesTyped
<1>2. QED BY <1>1, SessionInvariant, PTL

(* On any bus, a detection that every chip obeyed leaves no chip behind     *)
(* that requires a PEC which its object does not send, through any items.  *)
THEOREM EveryDeviceObeyed == Spec => []DevicesObeyed
<1>1. Session => DevicesObeyed
  <2> SUFFICES ASSUME Session, phase = "menu", heard, NEW i \in DOMAIN devices
               PROVE  Obeys(devices[i].address, devices[i].pec)
    BY DEF DevicesObeyed
  <2>1. i \in 1..Len(devices)
    BY DevicesTyped
  <2>2. QED BY <2>1 DEF Session, Following, Using
<1>2. QED BY <1>1, SessionInvariant, PTL

(* On any bus, after such a detection, what print_all_voltages and          *)
(* print_all_currents print beside a page was read of that page.           *)
THEOREM PagesLabelled == Spec => []LabelsTrue
<1>1. Session => LabelsTrue
  BY DEF Session
<1>2. QED BY <1>1, SessionInvariant, PTL

-----------------------------------------------------------------------------
AllPhases == {cp \in Chips \X (0..7) : cp[2] \in Pages(cp[1])}

(* What the rails say of the phases of P: which it is that each of them     *)
(* counts.                                                                 *)
Apart(r, s) == \/ r.address # s.address
               \/ r.multiphase = FALSE /\ Named(r) # Named(s)

CountsMany(r, P) == /\ r.address \in RailAddresses
                    /\ Len(r.pages) = Cardinality(P \cap Phases(r.address))

CountsOne(r, P) == /\ r.address \in Chips /\ Len(r.pages) = 1
                   /\ \E cp \in P \cap Phases(NoRail) : cp[1] = r.address /\ Named(r) = {cp}

Counts(r, P) == IF r.multiphase THEN CountsMany(r, P) ELSE CountsOne(r, P)

Stands(r, cp) == IF RailOf[cp[1]][cp[2]] = NoRail THEN r.multiphase = FALSE /\ Named(r) = {cp}
                 ELSE r.multiphase = TRUE /\ r.address = RailOf[cp[1]][cp[2]]

Counted(found, P) ==
  /\ \A i, j \in 1..Len(found) : i # j => Apart(found[i], found[j])
  /\ \A i \in 1..Len(found) : Counts(found[i], P)
  /\ \A cp \in P : \E i \in 1..Len(found) : Stands(found[i], cp)

LEMMA PhasesFinite ==
  /\ IsFiniteSet(AllPhases)
  /\ \A P \in SUBSET AllPhases : IsFiniteSet(P) /\ Cardinality(P) \in Nat
<1>1. IsFiniteSet(0..7)
  <2>1. \A a, b \in Int : IsFiniteSet(a..b)
    BY FS_Interval
  <2>2. 0 \in Int /\ 7 \in Int
    OBVIOUS
  <2>3. QED BY <2>1, <2>2, Zenon
<1>2. IsFiniteSet(Chips \X (0..7))
  BY <1>1, ChipsAssumption, FS_Product
<1>3. IsFiniteSet(AllPhases)
  BY <1>2, FS_Subset DEF AllPhases
<1>4. QED BY <1>3, FS_Subset, FS_CardinalityType

(* Phases behind two addresses are apart.                                  *)
LEMMA PhasesApart ==
  \A r, s : /\ Phases(r) \subseteq AllPhases
            /\ r # s => Phases(r) \cap Phases(s) = {}
BY DEF Phases, AllPhases

(* The phases of an address, once others are counted, too.                 *)
LEMMA PhasesGrow ==
  ASSUME NEW P \in SUBSET AllPhases, NEW Q \in SUBSET AllPhases, P \cap Q = {}, NEW r
  PROVE  /\ Q \subseteq Phases(r) =>
              Cardinality((P \cup Q) \cap Phases(r)) = Cardinality(P \cap Phases(r)) + Cardinality(Q)
         /\ Q \cap Phases(r) = {} => (P \cup Q) \cap Phases(r) = P \cap Phases(r)
<1>1. CASE Q \subseteq Phases(r)
  <2> DEFINE S == P \cap Phases(r)
  <2>1. (P \cup Q) \cap Phases(r) = S \cup Q /\ S \cap Q = {}
    BY <1>1
  <2>2. IsFiniteSet(S) /\ IsFiniteSet(Q) /\ Cardinality(S) \in Nat /\ Cardinality(Q) \in Nat
    BY PhasesFinite
  <2> HIDE DEF S
  <2>3. Cardinality(S \cup Q) = Cardinality(S) + Cardinality(Q) - Cardinality(S \cap Q)
    BY <2>2, FS_Union
  <2>4. Cardinality(S \cap Q) = 0
    BY <2>1, FS_EmptySet, Zenon
  <2>5. Cardinality(S \cup Q) = Cardinality(S) + Cardinality(Q)
    BY <2>2, <2>3, <2>4
  <2>6. Cardinality((P \cup Q) \cap Phases(r)) = Cardinality(P \cap Phases(r)) + Cardinality(Q)
    BY <2>1, <2>5, Zenon DEF S
  <2>7. QED BY <1>1, <2>6
<1>2. QED BY <1>1

(* A rail found in a device accounts for the phases of Q.                  *)
Finds(new, Q) ==
  IF new.multiphase THEN /\ new.address \in RailAddresses /\ Q # {}
                         /\ Q \subseteq Phases(new.address)
                         /\ Len(new.pages) = Cardinality(Q)
  ELSE /\ new.address \in Chips /\ Len(new.pages) = 1
       /\ Q \subseteq Phases(NoRail)
       /\ \E cp : Q = {cp} /\ cp[1] = new.address /\ Named(new) = Q

LEMMA RailsAreNotChips == /\ \A r \in RailAddresses : r \notin Chips /\ r # NoRail
                          /\ NoRail \notin Chips
BY RailsAssumption, ChipsAssumption DEF RailAddresses

LEMMA RailTyped ==
  ASSUME NEW r \in Rail
  PROVE  /\ r.multiphase \in BOOLEAN /\ r.pages \in Seq(0..7) /\ Len(r.pages) \in Nat
         /\ r.address \in 16..126 /\ r.unit \in 16..126
<1>1. r.pages \in Seq(0..7) /\ r.address \in 16..126 /\ r.unit \in 16..126
  BY DEF Rail
<1>2. r.multiphase \in BOOLEAN
  BY Zenon DEF Rail
<1>3. QED BY <1>1, <1>2

(* The rail goes to the end of the list.                                   *)
LEMMA RailAppended ==
  ASSUME NEW found \in Seq(Rail), NEW new \in Rail,
         NEW P \in SUBSET AllPhases, NEW Q \in SUBSET AllPhases, P \cap Q = {},
         Counted(found, P), Finds(new, Q),
         \A i \in 1..Len(found) : ~Merges(found[i], new)
  PROVE  Counted(Append(found, new), P \cup Q)
<1> DEFINE n == Len(found)
           g == Append(found, new)
<1>1. /\ n \in Nat /\ Len(g) = n + 1 /\ g[n + 1] = new
      /\ \A i \in 1..n : g[i] = found[i] /\ found[i] \in Rail
  OBVIOUS
<1>2. \A i \in 1..(n + 1) : i \in 1..n \/ i = n + 1
  BY <1>1
<1> HIDE DEF g, n
<1>3. ASSUME NEW i \in 1..n
      PROVE  Apart(found[i], new) /\ Apart(new, found[i]) /\ Counts(found[i], P \cup Q)
  <2> DEFINE f == found[i]
  <2>1. f \in Rail /\ Counts(f, P) /\ ~Merges(f, new)
    BY <1>1 DEF Counted, n
  <2> HIDE DEF f
  <2>2. CASE f.multiphase
    <3>1. f.address \in RailAddresses /\ Len(f.pages) = Cardinality(P \cap Phases(f.address))
      BY <2>1, <2>2 DEF Counts, CountsMany
    <3>2. f.address # new.address
      BY <2>1, <2>2 DEF Merges
    <3>3. Q \cap Phases(f.address) = {}
      BY <3>1, <3>2, PhasesApart, RailsAreNotChips DEF Finds
    <3>4. (P \cup Q) \cap Phases(f.address) = P \cap Phases(f.address)
      BY <3>3
    <3>5. QED BY <2>2, <3>1, <3>2, <3>4 DEF Apart, Counts, CountsMany, f
  <2>3. CASE ~f.multiphase
    <3>1. /\ f.address \in Chips /\ Len(f.pages) = 1 /\ f.multiphase = FALSE
      BY <2>1, <2>3, RailTyped DEF Counts, CountsOne
    <3>2. PICK cp \in P \cap Phases(NoRail) : cp[1] = f.address /\ Named(f) = {cp}
      BY <2>1, <2>3 DEF Counts, CountsOne
    <3>3. cp \in (P \cup Q) \cap Phases(NoRail)
      BY <3>2
    <3>4. Counts(f, P \cup Q)
      BY <2>3, <3>1, <3>2, <3>3 DEF Counts, CountsOne
    <3>5. CASE new.multiphase
      <4>1. new.address \in RailAddresses
        BY <3>5 DEF Finds
      <4>2. f.address # new.address
        BY <3>1, <4>1, RailsAreNotChips
      <4>3. QED BY <3>4, <4>2 DEF Apart, f
    <3>6. CASE ~new.multiphase
      <4>1. Named(new) = Q /\ new.multiphase = FALSE
        BY <3>6, RailTyped DEF Finds
      <4>2. Named(f) # Named(new)
        BY <3>2, <4>1
      <4>3. QED BY <3>1, <3>4, <4>1, <4>2 DEF Apart, f
    <3>7. QED BY <3>5, <3>6
  <2>4. QED BY <2>2, <2>3
<1>4. Counts(new, P \cup Q)
  <2>1. CASE new.multiphase
    <3>1. /\ new.address \in RailAddresses /\ Q \subseteq Phases(new.address)
          /\ Len(new.pages) = Cardinality(Q)
      BY <2>1 DEF Finds
    <3>2. P \cap Phases(new.address) = {}
      <4>1. SUFFICES ASSUME NEW cp \in P, cp \in Phases(new.address) PROVE FALSE
        OBVIOUS
      <4>2. RailOf[cp[1]][cp[2]] = new.address /\ new.address # NoRail
        BY <3>1, <4>1, RailsAreNotChips DEF Phases
      <4>3. PICK i \in 1..n : Stands(found[i], cp)
        BY DEF Counted, n
      <4>4. found[i].multiphase = TRUE /\ found[i].address = new.address
        BY <4>2, <4>3 DEF Stands
      <4>5. QED BY <4>4 DEF Merges, n
    <3>3. (P \cup Q) \cap Phases(new.address) = Q
      BY <3>1, <3>2
    <3>4. QED BY <2>1, <3>1, <3>3 DEF Counts, CountsMany
  <2>2. CASE ~new.multiphase
    <3>1. /\ new.address \in Chips /\ Len(new.pages) = 1 /\ Q \subseteq Phases(NoRail)
          /\ \E cp : Q = {cp} /\ cp[1] = new.address /\ Named(new) = Q
      BY <2>2 DEF Finds
    <3>2. \E cp \in (P \cup Q) \cap Phases(NoRail) : cp[1] = new.address /\ Named(new) = {cp}
      BY <3>1
    <3>3. QED BY <2>2, <3>1, <3>2 DEF Counts, CountsOne
  <2>3. QED BY <2>1, <2>2
<1>5. ASSUME NEW cp \in Q PROVE Stands(new, cp)
  <2>1. CASE new.multiphase
    <3>1. RailOf[cp[1]][cp[2]] = new.address /\ new.address # NoRail /\ new.multiphase = TRUE
      BY <2>1, RailsAreNotChips, RailTyped DEF Finds, Phases
    <3>2. QED BY <3>1 DEF Stands
  <2>2. CASE ~new.multiphase
    <3>1. RailOf[cp[1]][cp[2]] = NoRail /\ Named(new) = {cp} /\ new.multiphase = FALSE
      BY <2>2, RailTyped DEF Finds, Phases
    <3>2. QED BY <3>1 DEF Stands
  <2>3. QED BY <2>1, <2>2
<1>6. \A i, j \in 1..(n + 1) : i # j => Apart(g[i], g[j])
  BY <1>1, <1>2, <1>3 DEF Counted, n
<1>7. \A i \in 1..(n + 1) : Counts(g[i], P \cup Q)
  BY <1>1, <1>2, <1>3, <1>4
<1>8. ASSUME NEW cp \in P \cup Q PROVE \E i \in 1..(n + 1) : Stands(g[i], cp)
  <2>1. CASE cp \in Q
    BY <1>1, <1>5, <2>1
  <2>2. CASE cp \in P
    <3>1. PICK i \in 1..n : Stands(found[i], cp)
      BY <2>2 DEF Counted, n
    <3>2. i \in 1..(n + 1) /\ g[i] = found[i]
      BY <1>1
    <3>3. QED BY <3>1, <3>2
  <2>3. QED BY <2>1, <2>2
<1>9. Counted(g, P \cup Q)
  BY <1>1, <1>6, <1>7, <1>8 DEF Counted
<1>10. QED BY <1>9 DEF g

(* The rail is merged into the first of its address.                       *)
LEMMA RailMerged ==
  ASSUME NEW found \in Seq(Rail), NEW new \in Rail, NEW j \in 1..Len(found),
         NEW P \in SUBSET AllPhases, NEW Q \in SUBSET AllPhases, P \cap Q = {},
         Counted(found, P), Finds(new, Q), Merges(found[j], new)
  PROVE  Counted([found EXCEPT ![j].pages = @ \o new.pages], P \cup Q)
<1> DEFINE n == Len(found)
           r == new.address
           host == [found[j] EXCEPT !.pages = @ \o new.pages]
           g == [found EXCEPT ![j] = host]
<1>1. found[j] \in Rail /\ found[j].multiphase /\ found[j].address = r
  BY DEF Merges
<1>2. /\ host.address = r /\ host.multiphase = TRUE
      /\ Len(host.pages) = Len(found[j].pages) + Len(new.pages)
  <2>1. /\ host.address = found[j].address /\ host.multiphase = found[j].multiphase
        /\ host.pages = found[j].pages \o new.pages
    BY <1>1 DEF Rail
  <2>2. found[j].multiphase = TRUE
    BY <1>1, RailTyped
  <2>3. Len(found[j].pages \o new.pages) = Len(found[j].pages) + Len(new.pages)
    BY <1>1, RailTyped
  <2>4. QED BY <1>1, <2>1, <2>2, <2>3
<1> HIDE DEF host, r
<1>3. /\ n \in Nat /\ Len(g) = n /\ g[j] = host
      /\ \A i \in 1..n : i # j => g[i] = found[i]
      /\ \A i \in 1..n : found[i] \in Rail
  OBVIOUS
<1>4. g = [found EXCEPT ![j].pages = @ \o new.pages]
  BY DEF host
<1> HIDE DEF g, n
<1>5. /\ r \in RailAddresses /\ r \notin Chips /\ r # NoRail
      /\ Len(found[j].pages) = Cardinality(P \cap Phases(r))
  <2>1. Counts(found[j], P)
    BY DEF Counted
  <2>2. QED BY <1>1, <2>1, RailsAreNotChips DEF Counts, CountsMany
<1>6. new.multiphase = TRUE
  BY <1>5, RailTyped DEF Finds, r
<1>7. /\ Q \subseteq Phases(r) /\ Len(new.pages) = Cardinality(Q)
  BY <1>6 DEF Finds, r
<1>8. Counts(host, P \cup Q)
  <2>1. Cardinality((P \cup Q) \cap Phases(r)) = Cardinality(P \cap Phases(r)) + Cardinality(Q)
    BY <1>7, PhasesGrow, ZenonT(60)
  <2>2. Len(host.pages) = Cardinality((P \cup Q) \cap Phases(r))
    BY <1>2, <1>5, <1>7, <2>1
  <2>3. QED BY <1>2, <1>5, <2>2 DEF Counts, CountsMany
<1>9. ASSUME NEW i \in 1..n, i # j
      PROVE  Apart(found[i], host) /\ Apart(host, found[i]) /\ Counts(found[i], P \cup Q)
  <2> DEFINE f == found[i]
  <2>1. f \in Rail /\ Counts(f, P) /\ Apart(f, found[j]) /\ Apart(found[j], f)
    BY <1>3, <1>9 DEF Counted, n
  <2> HIDE DEF f
  <2>2. CASE f.multiphase
    <3>1. f.address \in RailAddresses /\ Len(f.pages) = Cardinality(P \cap Phases(f.address))
      BY <2>1, <2>2 DEF Counts, CountsMany
    <3>2. f.address # r
      BY <1>1, <2>1, <2>2, RailTyped DEF Apart
    <3>3. Q \cap Phases(f.address) = {}
      BY <1>7, <3>2, PhasesApart
    <3>4. (P \cup Q) \cap Phases(f.address) = P \cap Phases(f.address)
      BY <3>3
    <3>5. QED BY <1>2, <2>2, <3>1, <3>2, <3>4 DEF Apart, Counts, CountsMany, f
  <2>3. CASE ~f.multiphase
    <3>1. f.address \in Chips /\ Len(f.pages) = 1
      BY <2>1, <2>3 DEF Counts, CountsOne
    <3>2. PICK cp \in P \cap Phases(NoRail) : cp[1] = f.address /\ Named(f) = {cp}
      BY <2>1, <2>3 DEF Counts, CountsOne
    <3>3. cp \in (P \cup Q) \cap Phases(NoRail)
      BY <3>2
    <3>4. Counts(f, P \cup Q)
      BY <2>3, <3>1, <3>2, <3>3 DEF Counts, CountsOne
    <3>5. f.address # r
      BY <1>5, <3>1
    <3>6. QED BY <1>2, <3>4, <3>5 DEF Apart, f
  <2>4. QED BY <2>2, <2>3
<1>10. ASSUME NEW i \in 1..n, NEW k \in 1..n, i # k
       PROVE  Apart(g[i], g[k])
  <2>1. CASE i = j
    BY <1>3, <1>9, <1>10, <2>1
  <2>2. CASE k = j
    BY <1>3, <1>9, <1>10, <2>2
  <2>3. CASE i # j /\ k # j
    BY <1>3, <1>10, <2>3 DEF Counted, n
  <2>4. QED BY <2>1, <2>2, <2>3
<1>11. \A i \in 1..n : Counts(g[i], P \cup Q)
  BY <1>3, <1>8, <1>9
<1>12. ASSUME NEW cp \in P \cup Q PROVE \E i \in 1..n : Stands(g[i], cp)
  <2>1. CASE cp \in Q
    <3>1. RailOf[cp[1]][cp[2]] = r
      BY <1>7, <2>1 DEF Phases
    <3>2. Stands(host, cp)
      BY <1>2, <1>5, <3>1 DEF Stands
    <3>3. j \in 1..n
      BY DEF n
    <3>4. QED BY <1>3, <3>2, <3>3
  <2>2. CASE cp \in P
    <3>1. PICK i \in 1..n : Stands(found[i], cp)
      BY <2>2 DEF Counted, n
    <3>2. CASE i = j
      <4>1. Stands(host, cp)
        BY <1>1, <1>2, <3>1, <3>2 DEF Stands
      <4>2. QED BY <1>3, <3>2, <4>1
    <3>3. CASE i # j
      BY <1>3, <3>1, <3>3
    <3>4. QED BY <3>2, <3>3
  <2>3. QED BY <2>1, <2>2
<1>13. Counted(g, P \cup Q)
  BY <1>3, <1>10, <1>11, <1>12 DEF Counted
<1>14. QED BY <1>4, <1>13

LEMMA HostsOf ==
  ASSUME NEW found \in Seq(Rail), NEW new \in Rail
  PROVE  \/ /\ AddRail(found, new) = Append(found, new)
            /\ \A i \in 1..Len(found) : ~Merges(found[i], new)
         \/ \E j \in 1..Len(found) :
               /\ AddRail(found, new) = [found EXCEPT ![j].pages = @ \o new.pages]
               /\ Merges(found[j], new)
<1> DEFINE hosts == {j \in DOMAIN found : Merges(found[j], new)}
<1>1. hosts \subseteq Nat /\ DOMAIN found = 1..Len(found)
  OBVIOUS
<1>2. CASE hosts = {}
  BY <1>1, <1>2 DEF AddRail
<1>3. CASE hosts # {}
  <2>1. Min(hosts) \in hosts
    BY <1>1, <1>3, MinIsMember
  <2>2. AddRail(found, new) = [found EXCEPT ![Min(hosts)].pages = @ \o new.pages]
    BY <1>3 DEF AddRail
  <2>3. QED BY <1>1, <2>1, <2>2
<1>4. QED BY <1>2, <1>3

LEMMA AddRailTyped ==
  ASSUME NEW found \in Seq(Rail), NEW new \in Rail
  PROVE  AddRail(found, new) \in Seq(Rail)
<1>1. CASE AddRail(found, new) = Append(found, new)
  BY <1>1
<1>2. ASSUME NEW j \in 1..Len(found), AddRail(found, new) = [found EXCEPT ![j].pages = @ \o new.pages]
      PROVE  AddRail(found, new) \in Seq(Rail)
  <2> DEFINE host == [found[j] EXCEPT !.pages = @ \o new.pages]
  <2>1. found[j] \in Rail
    OBVIOUS
  <2>2. found[j].pages \o new.pages \in Seq(0..7)
    BY <2>1, RailTyped
  <2>3. host \in Rail
    BY <2>1, <2>2 DEF Rail
  <2>4. AddRail(found, new) = [found EXCEPT ![j] = host]
    BY <1>2
  <2> HIDE DEF host
  <2>5. QED BY <2>3, <2>4
<1>3. QED BY <1>1, <1>2, HostsOf

LEMMA RailCounted ==
  ASSUME NEW found \in Seq(Rail), NEW new \in Rail,
         NEW P \in SUBSET AllPhases, NEW Q \in SUBSET AllPhases, P \cap Q = {},
         Counted(found, P), Finds(new, Q)
  PROVE  Counted(AddRail(found, new), P \cup Q)
<1>1. CASE /\ AddRail(found, new) = Append(found, new)
           /\ \A i \in 1..Len(found) : ~Merges(found[i], new)
  BY <1>1, RailAppended
<1>2. ASSUME NEW j \in 1..Len(found), Merges(found[j], new),
             AddRail(found, new) = [found EXCEPT ![j].pages = @ \o new.pages]
      PROVE  Counted(AddRail(found, new), P \cup Q)
  <2>1. Counted([found EXCEPT ![j].pages = @ \o new.pages], P \cup Q)
    BY <1>2, RailMerged, Zenon
  <2>2. QED BY <1>2, <2>1, Zenon
<1>3. QED BY <1>1, <1>2, HostsOf

-----------------------------------------------------------------------------
(* The rails of a device, one after the other.                             *)
Adding(s, found, new, N) == s = [n \in 0..N |-> IF n = 0 THEN found ELSE AddRail(s[n - 1], new[n])]

LEMMA AddingExists ==
  ASSUME NEW found, NEW new, NEW N \in Nat
  PROVE  \E s : Adding(s, found, new, N)
<1> DEFINE S == {n \in Nat : \E s : Adding(s, found, new, n)}
<1>1. 0 \in S
  <2>1. Adding([n \in 0..0 |-> found], found, new, 0)
    BY DEF Adding
  <2>2. QED BY <2>1
<1>2. ASSUME NEW n \in Nat, n \in S PROVE n + 1 \in S
  <2>1. PICK s : Adding(s, found, new, n)
    BY <1>2
  <2> DEFINE t == [m \in 0..(n + 1) |-> IF m = n + 1 THEN AddRail(s[n], new[n + 1]) ELSE s[m]]
  <2>2. ASSUME NEW m \in 0..(n + 1)
        PROVE  t[m] = IF m = 0 THEN found ELSE AddRail(t[m - 1], new[m])
    BY <2>1 DEF Adding
  <2>3. Adding(t, found, new, n + 1)
    BY <2>2 DEF Adding
  <2>4. QED BY <2>3
<1>3. Nat \subseteq S
  <2> HIDE DEF S
  <2> QED BY <1>1, <1>2, SetInduction
<1>4. QED BY <1>3

LEMMA AddRailsSteps ==
  ASSUME NEW found, NEW new \in Seq(Rail)
  PROVE  \E s : /\ AddRails(found, new) = s[Len(new)] /\ s[0] = found
                /\ \A n \in 1..Len(new) : s[n] = AddRail(s[n - 1], new[n])
<1> DEFINE N == Len(new)
           s == CHOOSE f : Adding(f, found, new, N)
<1>1. N \in Nat
  OBVIOUS
<1>2. Adding(s, found, new, N)
  BY <1>1, AddingExists
<1>3. AddRails(found, new) = s[N]
  BY DEF AddRails, Adding
<1>4. s[0] = found /\ \A n \in 1..N : s[n] = AddRail(s[n - 1], new[n])
  <2> HIDE DEF s
  <2> QED BY <1>1, <1>2 DEF Adding
<1>5. QED BY <1>3, <1>4

LEMMA AddRailsTyped ==
  ASSUME NEW found \in Seq(Rail), NEW new \in Seq(Rail)
  PROVE  AddRails(found, new) \in Seq(Rail)
<1>1. PICK s : /\ AddRails(found, new) = s[Len(new)] /\ s[0] = found
               /\ \A n \in 1..Len(new) : s[n] = AddRail(s[n - 1], new[n])
  BY AddRailsSteps
<1> DEFINE S == {n \in Nat : n <= Len(new) => s[n] \in Seq(Rail)}
<1>2. 0 \in S
  BY <1>1
<1>3. ASSUME NEW n \in Nat, n \in S PROVE n + 1 \in S
  <2>1. SUFFICES ASSUME n + 1 <= Len(new) PROVE s[n + 1] \in Seq(Rail)
    OBVIOUS
  <2>2. n + 1 \in 1..Len(new) /\ (n + 1) - 1 = n /\ s[n] \in Seq(Rail) /\ new[n + 1] \in Rail
    BY <1>3, <2>1
  <2>3. s[n + 1] = AddRail(s[n], new[n + 1])
    BY <1>1, <2>2
  <2>4. QED BY <2>2, <2>3, AddRailTyped
<1>4. Nat \subseteq S
  <2> HIDE DEF S
  <2> QED BY <1>2, <1>3, SetInduction
<1>5. QED BY <1>1, <1>4

LEMMA RailsCounted ==
  ASSUME NEW found \in Seq(Rail), NEW new \in Seq(Rail), NEW P \in SUBSET AllPhases,
         NEW Q \in [1..Len(new) -> SUBSET AllPhases],
         Counted(found, P), \A i \in 1..Len(new) : Finds(new[i], Q[i]),
         \A i \in 1..Len(new) : P \cap Q[i] = {},
         \A i, k \in 1..Len(new) : i # k => Q[i] \cap Q[k] = {}
  PROVE  Counted(AddRails(found, new), P \cup UNION {Q[i] : i \in 1..Len(new)})
<1>1. PICK s : /\ AddRails(found, new) = s[Len(new)] /\ s[0] = found
               /\ \A n \in 1..Len(new) : s[n] = AddRail(s[n - 1], new[n])
  BY AddRailsSteps
<1> DEFINE Seen(n) == P \cup UNION {Q[i] : i \in 1..n}
           S == {n \in Nat : n <= Len(new) => s[n] \in Seq(Rail) /\ Counted(s[n], Seen(n))}
<1>2. 0 \in S
  <2>1. Seen(0) = P
    OBVIOUS
  <2>2. QED BY <1>1, <2>1
<1>3. ASSUME NEW n \in Nat, n \in S PROVE n + 1 \in S
  <2>1. SUFFICES ASSUME n + 1 <= Len(new) PROVE s[n + 1] \in Seq(Rail) /\ Counted(s[n + 1], Seen(n + 1))
    OBVIOUS
  <2>2. /\ n + 1 \in 1..Len(new) /\ (n + 1) - 1 = n
        /\ s[n] \in Seq(Rail) /\ Counted(s[n], Seen(n)) /\ new[n + 1] \in Rail
    BY <1>3, <2>1
  <2>3. s[n + 1] = AddRail(s[n], new[n + 1])
    BY <1>1, <2>2
  <2>4. Seen(n) \in SUBSET AllPhases /\ Q[n + 1] \in SUBSET AllPhases
    BY <2>2
  <2>5. Seen(n) \cap Q[n + 1] = {}
    <3>1. \A i \in 1..n : i \in 1..Len(new) /\ i # n + 1
      BY <2>1
    <3>2. QED BY <2>2, <3>1
  <2>6. Seen(n + 1) = Seen(n) \cup Q[n + 1]
    <3>1. 1..(n + 1) = (1..n) \cup {n + 1}
      OBVIOUS
    <3>2. QED BY <3>1
  <2>7. Finds(new[n + 1], Q[n + 1])
    BY <2>2
  <2> HIDE DEF Seen
  <2>8. s[n + 1] \in Seq(Rail)
    BY <2>2, <2>3, AddRailTyped
  <2>9. Counted(AddRail(s[n], new[n + 1]), Seen(n) \cup Q[n + 1])
    BY <2>2, <2>4, <2>5, <2>7, RailCounted
  <2>10. QED BY <2>3, <2>6, <2>8, <2>9
<1>4. Nat \subseteq S
  <2> HIDE DEF S
  <2> QED BY <1>2, <1>3, SetInduction
<1>5. Counted(s[Len(new)], Seen(Len(new)))
  <2>1. Len(new) \in Nat
    OBVIOUS
  <2> HIDE DEF Seen
  <2>2. QED BY <1>4, <2>1
<1>6. QED BY <1>1, <1>5

(* The numbers of pages in the table.                                      *)
LEMMA RailPagesBounded == \A k \in DOMAIN DetectOrder : DetectOrder[k].railPages \in 1..8
<1>1. SUFFICES ASSUME NEW k \in 1..25
               PROVE  DetectOrder[k].railPages \in 1..8
  BY DEF DetectOrder
<1>2. DetectOrder[k] \in {LTC3880, LTC3882, LTC3883, LTC3884, LTC3886, LTC3887, LTC3888, LTC3889,
                         LTC7880, LTM4664, LTM4675, LTM4676, LTM4677, LTM4678, LTM4680,
                         LTM4686, LTM4700}
     \/ DetectOrder[k] \in {LTC2972, LTC2974, LTC2975, LTC2977, LTC2978, LTC2979, LTC2980, LTM2987}
  BY DEF DetectOrder
<1>3. \A ids, n : Controller(ids, n).railPages = n
  BY DEF Controller
<1>4. ASSUME NEW class \in {LTC3880, LTC3882, LTC3883, LTC3884, LTC3886, LTC3887, LTC3888, LTC3889,
                           LTC7880, LTM4664, LTM4675, LTM4676, LTM4677, LTM4678, LTM4680,
                           LTM4686, LTM4700}
      PROVE  class.railPages \in {1, 2}
  BY <1>3 DEF LTC3880, LTC3882, LTC3883, LTC3884, LTC3886, LTC3887, LTC3888, LTC3889, LTC7880,
     LTM4664, LTM4675, LTM4676, LTM4677, LTM4678, LTM4680, LTM4686, LTM4700
<1>5. ASSUME NEW class \in {LTC2972, LTC2974, LTC2975, LTC2977, LTC2978, LTC2979, LTC2980, LTM2987}
      PROVE  class.railPages \in {2, 4, 8}
  <2>1. LTC2972.railPages = 2
    BY DEF Manager, LTC2972
  <2>2. LTC2974.railPages = 4
    BY DEF Manager, LTC2974
  <2>3. LTC2975.railPages = 8
    BY DEF Manager, LTC2975
  <2>4. LTC2977.railPages = 8
    BY DEF Manager, LTC2977
  <2>5. LTC2978.railPages = 8
    BY DEF Manager, LTC2978
  <2>6. LTC2979.railPages = 8
    BY DEF Manager, LTC2979
  <2>7. LTC2980.railPages = 8
    BY DEF Manager, LTC2980
  <2>8. LTM2987.railPages = 8
    BY DEF Manager, LTM2987
  <2>9. QED BY <2>1, <2>2, <2>3, <2>4, <2>5, <2>6, <2>7, <2>8
<1>6. QED BY <1>2, <1>4, <1>5

Describes(r, address, unit, pages, many) ==
  /\ r \in Rail /\ r.address = address /\ r.pages = pages /\ (r.multiphase <=> many)
  /\ Named(r) = {<<unit, pages[i]>> : i \in DOMAIN pages}

LEMMA NewRailIs ==
  ASSUME NEW address \in 16..126, NEW unit \in 16..126, NEW pages \in Seq(0..7),
         NEW many \in BOOLEAN, pec \in BOOLEAN
  PROVE  Describes(NewRail(address, unit, pages, many), address, unit, pages, many)
<1> DEFINE new == NewRail(address, unit, pages, many)
<1>1. new \in Rail
  BY DEF NewRail, Rail
<1>2. new.address = address /\ new.pages = pages /\ new.unit = unit
  BY DEF NewRail
<1>3. new.multiphase <=> many
  BY Zenon DEF NewRail
<1>4. Named(new) = {<<unit, pages[i]>> : i \in DOMAIN pages}
  BY <1>2, Zenon DEF Named
<1>5. QED BY <1>1, <1>2, <1>3, <1>4, Zenon DEF Describes

RailOrNone == RailAddresses \cup {NoRail}

LEMMA ControllerRailsAre ==
  ASSUME NEW a \in Chips, NEW rail0 \in RailOrNone, NEW rail1 \in RailOrNone, pec \in BOOLEAN
  PROVE  LET address0 == IF rail0 = NoRail THEN a ELSE rail0
             address1 == IF rail1 = NoRail THEN a ELSE rail1
         IN  /\ address0 \in 16..126 /\ address1 \in 16..126
             /\ rail0 = rail1 /\ rail0 # NoRail =>
                  ControllerRails(a, rail0, rail1) = <<NewRail(address0, a, <<0, 1>>, TRUE)>>
             /\ ~(rail0 = rail1 /\ rail0 # NoRail) =>
                  ControllerRails(a, rail0, rail1)
                    = <<NewRail(address0, a, <<0>>, rail0 # NoRail),
                        NewRail(address1, a, <<1>>, rail1 # NoRail)>>
             /\ ControllerRails(a, rail0, rail1) \in Seq(Rail)
<1> DEFINE address0 == IF rail0 = NoRail THEN a ELSE rail0
           address1 == IF rail1 = NoRail THEN a ELSE rail1
           both == <<NewRail(address0, a, <<0, 1>>, TRUE)>>
           each == <<NewRail(address0, a, <<0>>, rail0 # NoRail),
                     NewRail(address1, a, <<1>>, rail1 # NoRail)>>
<1>1. /\ a \in 16..126 /\ a \notin RailAddresses /\ a # NoRail
      /\ address0 \in 16..126 /\ address1 \in 16..126
  BY ChipsAssumption, RailsAssumption DEF RailOrNone
<1>2. <<0, 1>> \in Seq(0..7) /\ <<0>> \in Seq(0..7) /\ <<1>> \in Seq(0..7)
  OBVIOUS
<1>3. (rail0 # NoRail) \in BOOLEAN /\ (rail1 # NoRail) \in BOOLEAN
  OBVIOUS
<1> HIDE DEF address0, address1
<1>4. /\ NewRail(address0, a, <<0, 1>>, TRUE) \in Rail
      /\ NewRail(address0, a, <<0>>, rail0 # NoRail) \in Rail
      /\ NewRail(address1, a, <<1>>, rail1 # NoRail) \in Rail
  BY <1>1, <1>2, <1>3, NewRailIs, Zenon DEF Describes
<1>5. both \in Seq(Rail) /\ each \in Seq(Rail)
  <2>1. \A r, s \in Rail : <<r>> \in Seq(Rail) /\ <<r, s>> \in Seq(Rail)
    OBVIOUS
  <2>2. QED BY <1>4, <2>1, Zenon
<1>6. rail1 # NoRail /\ rail1 = address0 <=> rail0 = rail1 /\ rail0 # NoRail
  BY <1>1 DEF address0, RailOrNone
<1>7. CASE rail0 = rail1 /\ rail0 # NoRail
  <2>1. (rail0 # NoRail) = TRUE
    BY <1>7
  <2>2. ControllerRails(a, rail0, rail1) = both
    BY <1>6, <1>7, <2>1, Zenon DEF ControllerRails, address0, address1
  <2>3. QED BY <1>1, <1>5, <1>7, <2>2, Zenon DEF address0, address1
<1>8. CASE ~(rail0 = rail1 /\ rail0 # NoRail)
  <2>1. ControllerRails(a, rail0, rail1) = each
    BY <1>6, <1>8, Zenon DEF ControllerRails, address0, address1
  <2>2. QED BY <1>1, <1>5, <1>8, <2>1, Zenon DEF address0, address1
<1>9. QED BY <1>7, <1>8

PhasesOf(c) == {cp \in AllPhases : cp[1] = c}

LEMMA ControllerCounted ==
  ASSUME NEW found \in Seq(Rail), NEW P \in SUBSET AllPhases, Counted(found, P),
         NEW a \in Chips, pec \in BOOLEAN, Pages(a) = {0, 1}, P \cap PhasesOf(a) = {}
  PROVE  Counted(AddRails(found, ControllerRails(a, RailOf[a][0], RailOf[a][1])), P \cup PhasesOf(a))
<1> DEFINE rail0 == RailOf[a][0]
           rail1 == RailOf[a][1]
           address0 == IF rail0 = NoRail THEN a ELSE rail0
           address1 == IF rail1 = NoRail THEN a ELSE rail1
           new == ControllerRails(a, rail0, rail1)
<1>1. /\ rail0 \in RailOrNone /\ rail1 \in RailOrNone
      /\ rail0 # NoRail => rail0 \in RailAddresses
      /\ rail1 # NoRail => rail1 \in RailAddresses
  BY DEF RailAddresses, RailOrNone
<1>2. PhasesOf(a) = {<<a, 0>>, <<a, 1>>}
  <2>1. ASSUME NEW cp \in PhasesOf(a) PROVE cp \in {<<a, 0>>, <<a, 1>>}
    BY DEF PhasesOf, AllPhases
  <2>2. <<a, 0>> \in PhasesOf(a) /\ <<a, 1>> \in PhasesOf(a)
    BY DEF PhasesOf, AllPhases
  <2>3. QED BY <2>1, <2>2
<1>3. /\ {<<a, 0>>} \subseteq Phases(rail0) /\ {<<a, 1>>} \subseteq Phases(rail1)
      /\ {<<a, 0>>} \in SUBSET AllPhases /\ {<<a, 1>>} \in SUBSET AllPhases
  BY DEF Phases, AllPhases
<1>4. a \in 16..126 /\ address0 \in 16..126 /\ address1 \in 16..126 /\ new \in Seq(Rail)
  BY <1>1, ControllerRailsAre, ChipsAssumption, ZenonT(60)
<1>5. /\ Cardinality({<<a, 0>>}) = 1 /\ Cardinality({<<a, 1>>}) = 1
      /\ Cardinality({<<a, 0>>, <<a, 1>>}) = 2
  <2>1. \A x : IsFiniteSet({x}) /\ Cardinality({x}) = 1
    BY FS_Singleton
  <2> DEFINE x == <<a, 0>>
             y == <<a, 1>>
  <2>2. x # y
    OBVIOUS
  <2> HIDE DEF x, y
  <2>3. Cardinality({x} \cup {y}) = Cardinality({x}) + 1
    BY <2>1, <2>2, FS_AddElement
  <2>4. {x} \cup {y} = {x, y}
    OBVIOUS
  <2>5. Cardinality({x, y}) = 2
    <3>1. Cardinality({x, y}) = Cardinality({x}) + 1 /\ Cardinality({x}) = 1
      BY <2>1, <2>3, <2>4, Zenon
    <3>2. QED BY <3>1
  <2>6. QED BY <2>1, <2>5 DEF x, y
<1>6. /\ rail0 = rail1 /\ rail0 # NoRail => new = <<NewRail(address0, a, <<0, 1>>, TRUE)>>
      /\ ~(rail0 = rail1 /\ rail0 # NoRail) =>
           new = <<NewRail(address0, a, <<0>>, rail0 # NoRail), NewRail(address1, a, <<1>>, rail1 # NoRail)>>
  BY <1>1, ControllerRailsAre, Zenon
<1>7. <<0, 1>> \in Seq(0..7) /\ <<0>> \in Seq(0..7) /\ <<1>> \in Seq(0..7)
  OBVIOUS
<1>8. (rail0 # NoRail) \in BOOLEAN /\ (rail1 # NoRail) \in BOOLEAN /\ TRUE \in BOOLEAN
  OBVIOUS
<1> HIDE DEF rail0, rail1, address0, address1, new
<1>9. CASE rail0 = rail1 /\ rail0 # NoRail
  <2> DEFINE r == NewRail(address0, a, <<0, 1>>, TRUE)
  <2>1. Describes(r, address0, a, <<0, 1>>, TRUE)
    BY <1>4, <1>7, <1>8, NewRailIs, Zenon
  <2>2. new = <<r>>
    BY <1>6, <1>9
  <2>3. address0 = rail0 /\ rail0 \in RailAddresses
    BY <1>1, <1>9 DEF address0
  <2> HIDE DEF r
  <2>4. r \in Rail /\ r.address = address0 /\ r.pages = <<0, 1>> /\ r.multiphase
    BY <2>1 DEF Describes
  <2>5. Finds(r, PhasesOf(a))
    <3>1. PhasesOf(a) \subseteq Phases(r.address) /\ PhasesOf(a) # {}
      BY <1>2, <1>3, <1>9, <2>4, <2>3
    <3>2. Len(r.pages) = Cardinality(PhasesOf(a))
      BY <1>2, <1>5, <2>4
    <3>3. QED BY <2>4, <2>3, <3>1, <3>2 DEF Finds
  <2> DEFINE Q == [i \in 1..1 |-> PhasesOf(a)]
  <2>6. Len(new) = 1 /\ new[1] = r
    BY <2>2
  <2>7. Q \in [1..Len(new) -> SUBSET AllPhases]
    BY <2>6 DEF PhasesOf
  <2>8. /\ \A i \in 1..Len(new) : Finds(new[i], Q[i])
        /\ \A i \in 1..Len(new) : P \cap Q[i] = {}
        /\ \A i, k \in 1..Len(new) : i # k => Q[i] \cap Q[k] = {}
    BY <2>5, <2>6
  <2>9. UNION {Q[i] : i \in 1..Len(new)} = PhasesOf(a)
    BY <2>6
  <2> HIDE DEF Q
  <2>10. Counted(AddRails(found, new), P \cup UNION {Q[i] : i \in 1..Len(new)})
    BY <1>4, <2>7, <2>8, RailsCounted
  <2>11. QED BY <2>9, <2>10 DEF new, rail0, rail1
<1>10. CASE ~(rail0 = rail1 /\ rail0 # NoRail)
  <2> DEFINE r == NewRail(address0, a, <<0>>, rail0 # NoRail)
             s == NewRail(address1, a, <<1>>, rail1 # NoRail)
  <2>1. Describes(r, address0, a, <<0>>, rail0 # NoRail)
    BY <1>4, <1>7, <1>8, NewRailIs, Zenon
  <2>2. Describes(s, address1, a, <<1>>, rail1 # NoRail)
    BY <1>4, <1>7, <1>8, NewRailIs, Zenon
  <2>3. new = <<r, s>>
    BY <1>6, <1>10, Zenon
  <2> HIDE DEF r, s
  <2>4. Finds(r, {<<a, 0>>})
    <3>1. /\ r \in Rail /\ r.address = address0 /\ (r.multiphase <=> rail0 # NoRail)
          /\ Named(r) = {<<a, 0>>} /\ Len(r.pages) = 1
      BY <2>1 DEF Describes
    <3>2. CASE rail0 = NoRail
      <4>1. address0 = a
        BY <3>2 DEF address0
      <4>2. \E cp : {<<a, 0>>} = {cp} /\ cp[1] = a /\ Named(r) = {<<a, 0>>}
        <5>1. <<a, 0>>[1] = a
          OBVIOUS
        <5>2. QED BY <3>1, <5>1
      <4>3. QED BY <1>3, <3>1, <3>2, <4>1, <4>2 DEF Finds
    <3>3. CASE rail0 # NoRail
      <4>1. address0 = rail0 /\ rail0 \in RailAddresses
        BY <1>1, <3>3 DEF address0
      <4>2. QED BY <1>3, <1>5, <3>1, <3>3, <4>1 DEF Finds
    <3>4. QED BY <3>2, <3>3
  <2>5. Finds(s, {<<a, 1>>})
    <3>1. /\ s \in Rail /\ s.address = address1 /\ (s.multiphase <=> rail1 # NoRail)
          /\ Named(s) = {<<a, 1>>} /\ Len(s.pages) = 1
      BY <2>2 DEF Describes
    <3>2. CASE rail1 = NoRail
      <4>1. address1 = a
        BY <3>2 DEF address1
      <4>2. \E cp : {<<a, 1>>} = {cp} /\ cp[1] = a /\ Named(s) = {<<a, 1>>}
        <5>1. <<a, 1>>[1] = a
          OBVIOUS
        <5>2. QED BY <3>1, <5>1
      <4>3. QED BY <1>3, <3>1, <3>2, <4>1, <4>2 DEF Finds
    <3>3. CASE rail1 # NoRail
      <4>1. address1 = rail1 /\ rail1 \in RailAddresses
        BY <1>1, <3>3 DEF address1
      <4>2. QED BY <1>3, <1>5, <3>1, <3>3, <4>1 DEF Finds
    <3>4. QED BY <3>2, <3>3
  <2> DEFINE Q == [i \in 1..2 |-> IF i = 1 THEN {<<a, 0>>} ELSE {<<a, 1>>}]
  <2>6. Len(new) = 2 /\ new[1] = r /\ new[2] = s
    BY <2>3
  <2>7. 1..Len(new) = {1, 2} /\ Q[1] = {<<a, 0>>} /\ Q[2] = {<<a, 1>>}
    BY <2>6
  <2>8. Q \in [1..Len(new) -> SUBSET AllPhases]
    BY <1>3, <2>6
  <2> HIDE DEF Q
  <2>9. \A i \in 1..Len(new) : Finds(new[i], Q[i])
    BY <2>4, <2>5, <2>6, <2>7
  <2>10. \A i \in 1..Len(new) : P \cap Q[i] = {}
    BY <1>2, <2>7
  <2>11. \A i, k \in 1..Len(new) : i # k => Q[i] \cap Q[k] = {}
    <3>1. {<<a, 0>>} \cap {<<a, 1>>} = {}
      OBVIOUS
    <3>2. QED BY <2>7, <3>1
  <2>12. UNION {Q[i] : i \in 1..Len(new)} = PhasesOf(a)
    BY <1>2, <2>7
  <2>13. Counted(AddRails(found, new), P \cup UNION {Q[i] : i \in 1..Len(new)})
    BY <1>4, <2>8, <2>9, <2>10, <2>11, RailsCounted
  <2>14. QED BY <2>12, <2>13 DEF new, rail0, rail1
<1>11. QED BY <1>9, <1>10

(* The rails of a manager, a page each.                                    *)
ManagerRailsOf(a, n) == [i \in 1..n |-> NewRail(a, a, <<i - 1>>, FALSE)]

LEMMA ManagerRailsAre ==
  ASSUME NEW a \in Chips, NEW n \in 1..8, pec \in BOOLEAN
  PROVE  /\ ManagerRailsOf(a, n) \in Seq(Rail) /\ Len(ManagerRailsOf(a, n)) = n
         /\ \A i \in 1..n : Describes(ManagerRailsOf(a, n)[i], a, a, <<i - 1>>, FALSE)
<1>1. a \in 16..126 /\ FALSE \in BOOLEAN
  BY ChipsAssumption
<1>2. \A i \in 1..n : <<i - 1>> \in Seq(0..7)
  OBVIOUS
<1>3. \A i \in 1..n : Describes(NewRail(a, a, <<i - 1>>, FALSE), a, a, <<i - 1>>, FALSE)
  BY <1>1, <1>2, NewRailIs, Zenon
<1>4. \A i \in 1..n : ManagerRailsOf(a, n)[i] = NewRail(a, a, <<i - 1>>, FALSE)
  BY DEF ManagerRailsOf
<1>5. ManagerRailsOf(a, n) \in [1..n -> Rail]
  BY <1>3, Zenon DEF ManagerRailsOf, Describes
<1>6. \A f \in [1..n -> Rail] : f \in Seq(Rail) /\ Len(f) = n
  OBVIOUS
<1>7. QED BY <1>3, <1>4, <1>5, <1>6, Zenon

LEMMA ManagerCounted ==
  ASSUME NEW found \in Seq(Rail), NEW P \in SUBSET AllPhases, Counted(found, P),
         NEW a \in Chips, NEW n \in 1..8, pec \in BOOLEAN,
         Pages(a) = 0..(n - 1), \A p \in Pages(a) : RailOf[a][p] = NoRail,
         P \cap PhasesOf(a) = {}
  PROVE  Counted(AddRails(found, ManagerRailsOf(a, n)), P \cup PhasesOf(a))
<1> DEFINE new == ManagerRailsOf(a, n)
           Q == [i \in 1..n |-> {<<a, i - 1>>}]
<1>1. /\ new \in Seq(Rail) /\ Len(new) = n
      /\ \A i \in 1..n : /\ new[i].address = a /\ Len(new[i].pages) = 1
                         /\ ~new[i].multiphase /\ Named(new[i]) = {<<a, i - 1>>}
  <2>1. /\ new \in Seq(Rail) /\ Len(new) = n
        /\ \A i \in 1..n : Describes(new[i], a, a, <<i - 1>>, FALSE)
    BY ManagerRailsAre, Zenon
  <2> HIDE DEF new
  <2>2. ASSUME NEW i \in 1..n
        PROVE  /\ new[i].address = a /\ Len(new[i].pages) = 1
               /\ ~new[i].multiphase /\ Named(new[i]) = {<<a, i - 1>>}
    <3>1. Describes(new[i], a, a, <<i - 1>>, FALSE)
      BY <2>1
    <3>2. QED BY <3>1 DEF Describes
  <2>3. QED BY <2>1, <2>2
<1> HIDE DEF new
<1>2. \A i \in 1..n : <<a, i - 1>> \in PhasesOf(a) /\ <<a, i - 1>> \in Phases(NoRail)
  BY DEF PhasesOf, AllPhases, Phases
<1>3. ASSUME NEW cp \in PhasesOf(a) PROVE \E i \in 1..n : cp \in Q[i]
  <2>1. cp = <<a, cp[2]>> /\ cp[2] \in 0..(n - 1)
    BY DEF PhasesOf, AllPhases
  <2>2. cp[2] + 1 \in 1..n /\ (cp[2] + 1) - 1 = cp[2]
    BY <2>1
  <2>3. Q[cp[2] + 1] = {<<a, cp[2]>>}
    BY <2>2
  <2>4. QED BY <2>1, <2>2, <2>3
<1>4. Q \in [1..Len(new) -> SUBSET AllPhases]
  BY <1>1, <1>2 DEF PhasesOf
<1>5. \A i \in 1..n : Q[i] = {<<a, i - 1>>} /\ Q[i] \subseteq PhasesOf(a) /\ Q[i] \subseteq Phases(NoRail)
  BY <1>2
<1>6. \A i, k \in 1..n : i # k => Q[i] \cap Q[k] = {}
  <2>1. \A i, k \in 1..n : i # k => <<a, i - 1>> # <<a, k - 1>>
    OBVIOUS
  <2>2. QED BY <1>5, <2>1
<1> HIDE DEF Q
<1>7. \A i \in 1..n : P \cap Q[i] = {}
  BY <1>5
<1>8. \A i \in 1..n : Finds(new[i], Q[i])
  BY <1>1, <1>5 DEF Finds
<1>9. UNION {Q[i] : i \in 1..Len(new)} = PhasesOf(a)
  BY <1>1, <1>3, <1>5
<1>10. Counted(AddRails(found, new), P \cup UNION {Q[i] : i \in 1..Len(new)})
  BY <1>1, <1>4, <1>6, <1>7, <1>8, RailsCounted
<1>11. QED BY <1>9, <1>10 DEF new

(* What the lists hold in each phase.                                      *)
Walked == /\ phase \in {"off", "detect"} => rails = <<>>
          /\ phase \notin {"off", "detect"} => at <= Len(devices) + 1
          /\ phase = "second" => at <= Len(devices) /\ devices[at].class.controller = TRUE

Typing == Session /\ TypeOK /\ Walked

DevicesFit == Len(devices) <= Len(Addresses) /\ Len(devices) \in Nat

LEMMA DevicesFew == Session => DevicesFit
<1> SUFFICES ASSUME Session PROVE Len(devices) <= Len(Addresses) /\ Len(devices) \in Nat
  BY DEF DevicesFit
<1> DEFINE n == Len(devices)
           address == [i \in 1..n |-> devices[i].address]
<1>1. n \in Nat /\ \A i \in 1..n : devices[i].address \in Answering
  BY DevicesTyped, AnsweringFinite
<1>2. \A i, j \in 1..n : i < j => devices[i].address < devices[j].address
  BY DEF Session, Located
<1>3. address \in [1..n -> Answering]
  BY <1>1
<1>4. ASSUME NEW i \in 1..n, NEW j \in 1..n, address[i] = address[j] PROVE i = j
  <2>1. devices[i].address = devices[j].address /\ devices[i].address \in Int
    BY <1>1, <1>4, AnsweringFinite
  <2>2. ~(i < j) /\ ~(j < i)
    BY <1>2, <2>1
  <2>3. QED BY <1>1, <2>2
<1>5. address \in Injection(1..n, Answering)
  BY <1>3, <1>4, Fun_IsInj
<1>6. Cardinality(1..n) <= Cardinality(Answering)
  BY <1>5, AnsweringFinite, FS_Injection
<1>7. Cardinality(1..n) = n
  <2> HIDE DEF n
  <2>1. QED BY <1>1, FS_Interval
<1>8. QED BY <1>1, <1>6, <1>7, AddressesSorted

(* What is known of the device that a phase is at.                         *)
LEMMA DeviceAt ==
  ASSUME Session, NEW i \in 1..Len(devices)
  PROVE  /\ devices[i].address \in Chips /\ devices[i].class = FirstClass(IdOf[devices[i].address])
         /\ devices[i].class.numPages \in 0..8 /\ devices[i].class.railPages \in 1..8
         /\ \A n \in Nat : n < devices[i].class.numPages => n \in Pages(devices[i].address)
<1> DEFINE c == devices[i].address
           class == devices[i].class
<1>1. c \in Chips /\ class = FirstClass(IdOf[c])
  BY DevicesTyped
<1>2. PICK k \in DOMAIN DetectOrder : class = DetectOrder[k]
  BY <1>1, FirstClassTakes, ChipIds
<1>3. class.numPages \in Nat /\ class.railPages \in 1..8
  BY <1>2, Families, RailPagesBounded
<1> HIDE DEF c, class
<1>4. 0..(class.numPages - 1) \subseteq Pages(c) /\ Pages(c) \subseteq 0..7
  BY <1>1, PagesAssumption, PagesAreInt
<1>5. class.numPages <= 8
  <2>1. SUFFICES ASSUME class.numPages > 8 PROVE FALSE
    BY <1>3
  <2>2. 8 \in 0..(class.numPages - 1)
    BY <1>3, <2>1
  <2>3. QED BY <1>4, <2>2
<1>6. \A n \in Nat : n < class.numPages => n \in Pages(c)
  BY <1>3, <1>4
<1>7. QED BY <1>1, <1>3, <1>5, <1>6 DEF c, class

LEMMA InitTyped == Init => TypeOK /\ Walked
<1> SUFFICES ASSUME Init PROVE TypeOK /\ Walked
  OBVIOUS
<1>1. page \in [Chips -> 0..7 \cup {AllPages}] /\ required \in [Chips -> BOOLEAN]
  BY DEF Init
<1>2. /\ phase = "off" /\ at = 1 /\ next = 0 /\ first = NoRail /\ devices = <<>> /\ rails = <<>>
      /\ shown = None
  BY DEF Init
<1>3. pec \in BOOLEAN /\ heard \in BOOLEAN
  BY Zenon DEF Init
<1>4. Len(Addresses) \in Nat
  BY AddressesSorted
<1>5. QED BY <1>1, <1>2, <1>3, <1>4 DEF TypeOK, Walked, ReadItems

(* The parts of the type that a step may disturb.                          *)
Phased == phase \in {"off", "detect", "first", "second", "menu"} \cup Items
Counting == /\ next \in 0..8
            /\ phase \in ReadItems /\ at <= Len(devices) => next <= devices[at].class.numPages
Railed == first \in RailOrNone /\ rails \in Seq(Rail)
Showing == shown \in {None} \cup Line

LEMMA TypeParts == TypeOK => Phased /\ Counting /\ Railed /\ Showing /\ at \in 1..(Len(Addresses) + 1)
BY DEF TypeOK, Phased, Counting, Railed, Showing, RailOrNone

Fitting == phase \in {"off", "detect"} => at <= Len(Addresses) + 1

LEMMA TypeWhole == Session /\ Walked /\ Phased /\ Counting /\ Railed /\ Showing /\ Fitting => TypeOK
<1> SUFFICES ASSUME Session, Walked, Phased, Counting, Railed, Showing, Fitting PROVE TypeOK
  OBVIOUS
<1>1. page \in [Chips -> 0..7 \cup {AllPages}]
  BY PagesAreInt DEF Session, ChipsKept
<1>2. required \in [Chips -> BOOLEAN] /\ pec \in BOOLEAN /\ heard \in BOOLEAN
  BY DEF Session, ChipsKept
<1>3. devices \in Seq(Device)
  <2>1. \A o \in Object : o \in Device
    BY ChipsAssumption DEF Object, Device
  <2>2. devices \in Seq(Object)
    BY DevicesTyped
  <2>3. QED BY <2>1, <2>2
<1>4. at \in 1..(Len(Addresses) + 1)
  <2>1. at \in Nat \ {0}
    BY DEF Session, ChipsKept
  <2>2. at <= Len(Addresses) + 1
    BY <2>1, DevicesFew, AddressesSorted DEF Walked, Fitting, DevicesFit
  <2>3. QED BY <2>1, <2>2, AddressesSorted
<1>5. /\ phase \in {"off", "detect", "first", "second", "menu"} \cup Items
      /\ next \in 0..8
      /\ phase \in ReadItems /\ at <= Len(devices) => next <= devices[at].class.numPages
      /\ first \in {NoRail} \cup RailAddresses /\ rails \in Seq(Rail)
      /\ shown \in {None} \cup Line
  BY DEF Phased, Counting, Railed, Showing, RailOrNone
<1>6. QED BY <1>1, <1>2, <1>3, <1>4, <1>5 DEF TypeOK

LEMMA TypeWholeNext ==
  Session' /\ Walked' /\ Phased' /\ Counting' /\ Railed' /\ Showing' /\ Fitting' => TypeOK'
BY TypeWhole, PTL

(* The steps that leave every list and every place in them alone.          *)
Standing == OperateGlobal \/ ResetGlobal \/ ClearGlobal \/ RestoreGlobal \/ UNCHANGED vars

LEMMA StandingSame ==
  Standing => UNCHANGED <<phase, at, next, first, pec, devices, rails, shown, heard>>
BY DEF Standing, OperateGlobal, ResetGlobal, ClearGlobal, RestoreGlobal, vars, chips

(* A new detection, or the end of the process.                             *)
Restarting == Start \/ End \/ PecDone

LEMMA Restarts ==
  Restarting => /\ phase' \in {"off", "detect"} /\ at' = 1 /\ next' = 0 /\ first' = NoRail
                /\ devices' = <<>> /\ rails' = <<>> /\ shown' = None
BY DEF Restarting, Start, End, PecDone, Redetect

(* The other steps.                                                        *)
Walking == \/ DetectDevice \/ DetectDone
           \/ FirstRail \/ SecondRail \/ ManagerRails \/ RailsDone
           \/ \E item \in Items : Choose(item)
           \/ PrintPaged \/ PrintStatus \/ NextDevice
           \/ PecDevice \/ TreeDevice \/ ClearDevice \/ ItemDone

LEMMA StepKinds == [Next]_vars => Standing \/ Restarting \/ Walking
BY DEF Next, Standing, Restarting, Walking

LEMMA PhasedKept == Typing /\ [Next]_vars => Phased'
<1> SUFFICES ASSUME Typing, [Next]_vars PROVE Phased'
  OBVIOUS
<1>1. Phased
  BY TypeParts DEF Typing
<1>2. CASE Standing
  BY <1>1, <1>2, StandingSame DEF Phased
<1>3. CASE Restarting
  BY <1>3, Restarts DEF Phased
<1>4. CASE \/ DetectDone \/ FirstRail \/ SecondRail \/ RailsDone \/ ItemDone
           \/ \E item \in Items : Choose(item)
  BY <1>4 DEF Phased, DetectDone, FirstRail, SecondRail, RailsDone, Choose, ItemDone
<1>5. CASE \/ DetectDevice \/ ManagerRails \/ PrintPaged \/ PrintStatus \/ NextDevice
           \/ PecDevice \/ TreeDevice \/ ClearDevice
  BY <1>1, <1>5 DEF Phased, DetectDevice, ManagerRails, PrintPaged, PrintStatus, NextDevice, PecDevice,
     TreeDevice, ClearDevice
<1>6. QED BY <1>2, <1>3, <1>4, <1>5, StepKinds DEF Walking

LEMMA FittingKept == Typing /\ [Next]_vars => Fitting'
<1> SUFFICES ASSUME Typing, [Next]_vars PROVE Fitting'
  OBVIOUS
<1>1. at \in 1..(Len(Addresses) + 1) /\ Len(Addresses) \in Nat
  BY TypeParts, AddressesSorted DEF Typing
<1>2. CASE Standing
  BY <1>1, <1>2, StandingSame DEF Fitting
<1>3. CASE Restarting
  BY <1>1, <1>3, Restarts DEF Fitting
<1>4. CASE DetectDevice
  BY <1>1, <1>4 DEF Fitting, DetectDevice
<1>5. CASE Walking /\ ~DetectDevice
  BY <1>5 DEF Fitting, Walking, DetectDone, FirstRail, SecondRail, ManagerRails, RailsDone, Choose,
     PrintPaged, PrintStatus, NextDevice, PecDevice, TreeDevice, ClearDevice, ItemDone, Items, ReadItems
<1>6. QED BY <1>2, <1>3, <1>4, <1>5, StepKinds

LEMMA WalkedKept == Typing /\ [Next]_vars => Walked'
<1> SUFFICES ASSUME Typing, [Next]_vars PROVE Walked'
  OBVIOUS
<1>1. /\ Walked /\ at \in Nat \ {0} /\ Len(devices) \in Nat
      /\ \A i \in 1..Len(devices) : devices[i] \in Object
  BY DevicesTyped DEF Typing, Session, ChipsKept
<1>2. CASE Standing
  BY <1>1, <1>2, StandingSame DEF Walked
<1>3. CASE Restarting
  BY <1>3, Restarts DEF Walked
<1>4. CASE DetectDevice
  BY <1>1, <1>4 DEF Walked, DetectDevice
<1>5. CASE DetectDone
  BY <1>1, <1>5 DEF Walked, DetectDone
<1>6. CASE FirstRail
  <2>1. devices[at].class.controller = TRUE
    <3>1. devices[at].class.controller /\ at \in 1..Len(devices)
      BY <1>1, <1>6 DEF FirstRail
    <3>2. devices[at].class.controller \in BOOLEAN
      BY <3>1, DevicesTyped, FirstClassTakes, ChipIds, Families, Zenon DEF Typing, IsController, IsManager
    <3>3. QED BY <3>1, <3>2
  <2>2. QED BY <1>1, <1>6, <2>1 DEF Walked, FirstRail
<1>7. CASE SecondRail \/ ManagerRails \/ RailsDone \/ (\E item \in Items : Choose(item))
  BY <1>1, <1>7 DEF Walked, SecondRail, ManagerRails, RailsDone, Choose, Items, ReadItems
<1>8. CASE PrintPaged \/ PrintStatus \/ NextDevice \/ PecDevice \/ ClearDevice \/ ItemDone
  BY <1>1, <1>8 DEF Walked, PrintPaged, PrintStatus, NextDevice, PecDevice, ClearDevice, ItemDone, ReadItems
<1>9. CASE TreeDevice
  <2>1. Len(devices') = Len(devices)
    BY <1>9, DevicesTyped DEF TreeDevice, Typing
  <2>2. QED BY <1>1, <1>9, <2>1 DEF Walked, TreeDevice
<1>10. QED BY <1>2, <1>3, <1>4, <1>5, <1>6, <1>7, <1>8, <1>9, StepKinds DEF Walking

LEMMA CountingKept == Typing /\ [Next]_vars => Counting'
<1> SUFFICES ASSUME Typing, [Next]_vars PROVE Counting'
  OBVIOUS
<1>1. Counting /\ at \in Nat \ {0} /\ Len(devices) \in Nat
  BY TypeParts, DevicesTyped DEF Typing, Session, ChipsKept
<1>2. CASE Standing
  BY <1>1, <1>2, StandingSame DEF Counting
<1>3. CASE Restarting
  BY <1>3, Restarts DEF Counting, ReadItems
<1>4. CASE DetectDevice \/ DetectDone
  BY <1>1, <1>4 DEF Counting, DetectDevice, DetectDone, ReadItems
<1>5. CASE FirstRail \/ SecondRail \/ ManagerRails \/ RailsDone
  BY <1>1, <1>5 DEF Counting, FirstRail, SecondRail, ManagerRails, RailsDone, ReadItems
<1>6. CASE \E item \in Items : Choose(item)
  <2>1. next' = 0 /\ at' = 1 /\ devices' = devices
    BY <1>6 DEF Choose
  <2>2. 1 <= Len(devices) => devices[1].class.numPages \in 0..8
    BY <1>1, DeviceAt DEF Typing
  <2>3. QED BY <1>1, <2>1, <2>2 DEF Counting
<1>7. CASE PrintPaged \/ PrintStatus
  <2>1. /\ at \in 1..Len(devices) /\ next < devices[at].class.numPages /\ next' = next + 1
        /\ UNCHANGED <<phase, at, devices>>
    BY <1>1, <1>7 DEF PrintPaged, PrintStatus
  <2>2. devices[at].class.numPages \in 0..8
    BY <2>1, DeviceAt DEF Typing
  <2>3. QED BY <1>1, <2>1, <2>2 DEF Counting
<1>8. CASE NextDevice
  <2>1. next' = 0 /\ at' = at + 1 /\ devices' = devices /\ at' \in Nat \ {0}
    BY <1>1, <1>8 DEF NextDevice
  <2>2. at' <= Len(devices) => devices[at'].class.numPages \in 0..8
    BY <1>1, <2>1, DeviceAt DEF Typing
  <2>3. QED BY <1>1, <2>1, <2>2 DEF Counting
<1>9. CASE PecDevice \/ TreeDevice \/ ClearDevice \/ ItemDone
  BY <1>1, <1>9 DEF Counting, PecDevice, TreeDevice, ClearDevice, ItemDone, ReadItems
<1>10. QED BY <1>2, <1>3, <1>4, <1>5, <1>6, <1>7, <1>8, <1>9, StepKinds DEF Walking

LEMMA ShowingKept == Typing /\ [Next]_vars => Showing'
<1> SUFFICES ASSUME Typing, [Next]_vars PROVE Showing'
  OBVIOUS
<1>1. Showing /\ at \in Nat \ {0} /\ next \in Nat /\ Session
  BY TypeParts DEF Typing, Session, ChipsKept
<1>2. CASE Standing
  BY <1>1, <1>2, StandingSame DEF Showing
<1>3. CASE Restarting
  BY <1>3, Restarts DEF Showing
<1>4. CASE PrintPaged \/ PrintStatus
  <2> DEFINE a == devices[at].address
  <2>1. /\ phase \in ReadItems /\ at \in 1..Len(devices) /\ next < devices[at].class.numPages
    BY <1>1, <1>4 DEF PrintPaged, PrintStatus, ReadItems
  <2>2. a \in Chips /\ next \in Pages(a)
    BY <1>1, <2>1, DeviceAt
  <2>3. \/ \E p \in Selected(page, a) : shown' = [item |-> phase, label |-> <<a, next>>, read |-> <<a, p>>]
        \/ \E p \in Selected(page', a) : shown' = [item |-> phase, label |-> <<a, next>>, read |-> <<a, p>>]
    BY <1>4 DEF PrintPaged, PrintStatus
  <2>4. \A c \in Chips : page'[c] \in Pages(c) \cup {AllPages}
    <3>1. CASE PrintPaged
      BY <1>1, <3>1, StaysPages DEF Stays
    <3>2. CASE PrintStatus
      BY <1>1, <3>2, StaysPages DEF Stays
    <3>3. QED BY <1>4, <3>1, <3>2
  <2>5. Selected(page, a) \subseteq Pages(a) /\ Selected(page', a) \subseteq Pages(a)
    BY <1>1, <2>2, <2>4 DEF Selected, Session, ChipsKept
  <2> HIDE DEF a
  <2>6. PICK p \in Pages(a) : shown' = [item |-> phase, label |-> <<a, next>>, read |-> <<a, p>>]
    BY <2>3, <2>5
  <2>7. next \in 0..7 /\ p \in 0..7
    BY <2>2, <2>6, PagesAreInt
  <2>8. QED BY <2>1, <2>2, <2>6, <2>7 DEF Showing, Line
<1>5. CASE Walking /\ ~PrintPaged /\ ~PrintStatus
  BY <1>1, <1>5 DEF Showing, Walking, DetectDevice, DetectDone, FirstRail, SecondRail, ManagerRails,
     RailsDone, Choose, NextDevice, PecDevice, TreeDevice, ClearDevice, ItemDone
<1>6. QED BY <1>2, <1>3, <1>4, <1>5, StepKinds

(* What a controller reports of its two pages.                             *)
LEMMA ReadsARail ==
  ASSUME Session, FirstRail \/ SecondRail, at <= Len(devices)
  PROVE  /\ devices[at].address \in Chips
         /\ RailRead(page', devices[at].address) \subseteq RailOrNone
<1> DEFINE a == devices[at].address
<1>1. at \in 1..Len(devices) /\ a \in Chips
  BY DevicesTyped DEF Session, ChipsKept
<1>2. \A c \in Chips : page'[c] \in Pages(c) \cup {AllPages}
  BY StaysPages DEF Stays
<1>3. Selected(page', a) \subseteq Pages(a)
  BY <1>1, <1>2 DEF Selected
<1>4. \A p \in Pages(a) : RailOf[a][p] \in RailOrNone
  BY <1>1 DEF RailOrNone, RailAddresses
<1>5. QED BY <1>1, <1>3, <1>4 DEF RailRead

LEMMA RailedKept == Typing /\ [Next]_vars => Railed'
<1> SUFFICES ASSUME Typing, [Next]_vars PROVE Railed'
  OBVIOUS
<1>1. Railed /\ at \in Nat \ {0} /\ Session /\ pec \in BOOLEAN
  BY TypeParts DEF Typing, Session, ChipsKept
<1>2. CASE Standing
  BY <1>1, <1>2, StandingSame DEF Railed
<1>3. CASE Restarting
  BY <1>3, Restarts DEF Railed, RailOrNone
<1>4. CASE FirstRail
  BY <1>1, <1>4, ReadsARail DEF FirstRail, Railed
<1>5. CASE SecondRail
  <2>1. at <= Len(devices)
    BY <1>5 DEF SecondRail, Typing, Walked
  <2>2. PICK rail \in RailRead(page', devices[at].address) :
          rails' = AddRails(rails, ControllerRails(devices[at].address, first, rail))
    BY <1>5 DEF SecondRail
  <2>3. rail \in RailOrNone /\ devices[at].address \in Chips /\ first \in RailOrNone
    BY <1>1, <1>5, <2>1, ReadsARail DEF Railed
  <2>4. ControllerRails(devices[at].address, first, rail) \in Seq(Rail)
    BY <1>1, <2>3, ControllerRailsAre
  <2>5. rails' \in Seq(Rail)
    BY <1>1, <2>2, <2>4, AddRailsTyped DEF Railed
  <2>6. QED BY <1>5, <2>5 DEF SecondRail, Railed, RailOrNone
<1>6. CASE ManagerRails
  <2>1. at \in 1..Len(devices)
    BY <1>1, <1>6 DEF ManagerRails
  <2>2. rails' = AddRails(rails, ManagerRailsOf(devices[at].address, devices[at].class.railPages))
    BY <1>6 DEF ManagerRails, ManagerRailsOf
  <2>3. devices[at].address \in Chips /\ devices[at].class.railPages \in 1..8
    BY <1>1, <2>1, DeviceAt
  <2>4. ManagerRailsOf(devices[at].address, devices[at].class.railPages) \in Seq(Rail)
    BY <1>1, <2>3, ManagerRailsAre
  <2>5. rails' \in Seq(Rail)
    BY <1>1, <2>2, <2>4, AddRailsTyped DEF Railed
  <2>6. QED BY <1>1, <1>6, <2>5 DEF ManagerRails, Railed
<1>7. CASE ItemDone
  <2>1. \A r \in Rail : [r EXCEPT !.pec = TRUE] \in Rail
    BY DEF Rail
  <2> DEFINE moved == [i \in DOMAIN rails |-> [rails[i] EXCEPT !.pec = TRUE]]
  <2>2. rails \in Seq(Rail) /\ DOMAIN rails = 1..Len(rails) /\ Len(rails) \in Nat
    BY <1>1 DEF Railed
  <2>3. moved \in [1..Len(rails) -> Rail]
    BY <2>1, <2>2
  <2>4. moved \in Seq(Rail)
    BY <2>2, <2>3
  <2>5. QED BY <1>1, <1>7, <2>4 DEF ItemDone, Railed
<1>8. CASE Walking /\ ~FirstRail /\ ~SecondRail /\ ~ManagerRails /\ ~ItemDone
  BY <1>1, <1>8 DEF Railed, Walking, DetectDevice, DetectDone, RailsDone, Choose, PrintPaged, PrintStatus,
     NextDevice, PecDevice, TreeDevice, ClearDevice
<1>9. QED BY <1>2, <1>3, <1>4, <1>5, <1>6, <1>7, <1>8, StepKinds

LEMMA TypingKept == Typing /\ [Next]_vars => Typing'
<1>1. Typing /\ [Next]_vars => Session'
  BY SessionKept DEF Typing
<1>2. Typing /\ [Next]_vars => TypeOK'
  BY <1>1, PhasedKept, FittingKept, WalkedKept, CountingKept, ShowingKept, RailedKept, TypeWholeNext
<1>3. QED BY <1>1, <1>2, WalkedKept DEF Typing

LEMMA TypingInvariant == Spec => []Typing
<1>1. Init => Typing
  BY InitSession, InitTyped DEF Typing
<1>2. QED BY <1>1, TypingKept, PTL DEF Spec

(* Every variable keeps its type: no page beyond those of a chip is ever    *)
(* printed, and no list of devices outgrows the addresses.                 *)
THEOREM TypeCorrect == Spec => []TypeOK
<1>1. Typing => TypeOK
  BY DEF Typing
<1>2. QED BY <1>1, TypingInvariant, PTL

-----------------------------------------------------------------------------
(* The rails that are found count the phases of the devices behind at.     *)
Taken == {cp \in AllPhases : \E i \in 1..Len(devices) : i < at /\ devices[i].address = cp[1]}

Tallied == /\ phase \in {"first", "second"} => Counted(rails, Taken)
           /\ phase = "second" => first = RailOf[devices[at].address][0]
           /\ phase \notin {"off", "detect", "first", "second"} => Counted(rails, AllPhases)

Tallying == Typing /\ (heard => Tallied)

(* Only addresses and pages matter.                                        *)
LEMMA CountedAlike ==
  ASSUME NEW found, NEW g, NEW P, Counted(found, P), Len(g) = Len(found),
         \A i \in 1..Len(found) :
           /\ g[i].address = found[i].address /\ g[i].unit = found[i].unit /\ g[i].pages = found[i].pages
           /\ g[i].multiphase \in BOOLEAN /\ found[i].multiphase \in BOOLEAN
           /\ g[i].multiphase <=> found[i].multiphase
  PROVE  Counted(g, P)
<1>1. ASSUME NEW i \in 1..Len(found)
      PROVE  /\ Named(g[i]) = Named(found[i]) /\ Counts(g[i], P)
             /\ \A cp : Stands(found[i], cp) => Stands(g[i], cp)
  <2>1. Named(g[i]) = Named(found[i])
    BY Zenon DEF Named
  <2>2. Counts(found[i], P)
    BY DEF Counted
  <2>3. Counts(g[i], P)
    BY <2>1, <2>2 DEF Counts, CountsMany, CountsOne
  <2>4. QED BY <2>1, <2>3 DEF Stands
<1>2. ASSUME NEW i \in 1..Len(found), NEW j \in 1..Len(found), i # j PROVE Apart(g[i], g[j])
  BY <1>1, <1>2 DEF Counted, Apart
<1>3. \A cp \in P : \E i \in 1..Len(found) : Stands(g[i], cp)
  BY <1>1 DEF Counted
<1>4. QED BY <1>1, <1>2, <1>3 DEF Counted

(* The first page of a controller, and the second, are those that it reads. *)
LEMMA RailsRead ==
  ASSUME Session, PagesAsCounted, heard, FirstRail \/ SecondRail, at <= Len(devices),
         devices[at].class.controller = TRUE
  PROVE  LET a == devices[at].address
         IN  /\ a \in Chips /\ Pages(a) = {0, 1}
             /\ FirstRail => RailRead(page', a) = {RailOf[a][0]}
             /\ SecondRail => RailRead(page', a) = {RailOf[a][1]}
<1> DEFINE a == devices[at].address
<1>1. at \in 1..Len(devices) /\ a \in Chips /\ devices[at].class = FirstClass(IdOf[a])
  BY DevicesTyped DEF Session, ChipsKept
<1>2. Pages(a) = {0, 1}
  <2>1. Pages(a) = 0..(2 - 1)
    BY <1>1 DEF PagesAsCounted
  <2>2. QED BY <2>1
<1>3. Obeys(a, devices[at].pec)
  <2>1. phase \in Finding
    BY DEF FirstRail, SecondRail, Finding
  <2>2. QED BY <1>1, <2>1 DEF Session, Following, Obeys
<1> HIDE DEF a
<1>4. FirstRail => page'[a] = 0
  BY <1>1, <1>2, <1>3 DEF FirstRail, SetPage, a
<1>5. SecondRail => page'[a] = 1
  BY <1>1, <1>2, <1>3 DEF SecondRail, SetPage, a
<1>6. QED BY <1>1, <1>2, <1>4, <1>5 DEF RailRead, Selected, AllPages, a

(* The device that detection is at adds its phases to those taken.         *)
LEMMA TakesDevice ==
  ASSUME Session, at \in 1..Len(devices), devices' = devices, at' = at + 1
  PROVE  LET a == devices[at].address
         IN  /\ Taken' = Taken \cup PhasesOf(a) /\ Taken \cap PhasesOf(a) = {}
             /\ Taken \in SUBSET AllPhases
<1> DEFINE a == devices[at].address
<1>1. Len(devices) \in Nat /\ \A i \in 1..Len(devices) : devices[i].address \in Int
  BY DevicesTyped, AnsweringFinite
<1>2. \A i \in 1..Len(devices) : i < at => devices[i].address # a
  BY <1>1 DEF Session, Located
<1>3. \A i \in 1..Len(devices) : i < at + 1 <=> i < at \/ i = at
  BY <1>1
<1>4. Taken' = {cp \in AllPhases : \E i \in 1..Len(devices) : i < at + 1 /\ devices[i].address = cp[1]}
  BY DEF Taken, AllPhases
<1>5. Taken \in SUBSET AllPhases
  BY DEF Taken
<1>6. Taken' = Taken \cup PhasesOf(a)
  <2>1. \A cp \in AllPhases : cp \in Taken' <=> cp \in Taken \/ cp \in PhasesOf(a)
    BY <1>3, <1>4 DEF Taken, PhasesOf
  <2>2. Taken' \subseteq AllPhases /\ PhasesOf(a) \subseteq AllPhases
    BY <1>4 DEF PhasesOf
  <2>3. QED BY <1>5, <2>1, <2>2
<1>7. Taken \cap PhasesOf(a) = {}
  BY <1>2 DEF Taken, PhasesOf
<1>8. QED BY <1>5, <1>6, <1>7

LEMMA FirstTallied ==
  ASSUME Tallying, PagesAsCounted, heard, FirstRail
  PROVE  Tallied'
<1>1. Session /\ Tallied /\ at <= Len(devices) /\ phase = "first"
  BY DEF Tallying, Typing, Session, ChipsKept, FirstRail
<1>2. devices[at].class.controller = TRUE
  <2>1. Walked'
    BY WalkedKept DEF Tallying, Next
  <2>2. QED BY <2>1 DEF Walked, FirstRail
<1>3. RailRead(page', devices[at].address) = {RailOf[devices[at].address][0]}
  BY <1>1, <1>2, RailsRead, Zenon
<1>4. /\ first' = RailOf[devices[at].address][0]
      /\ rails' = rails /\ devices' = devices /\ at' = at /\ phase' = "second"
  BY <1>3 DEF FirstRail
<1>5. Taken' = Taken
  BY <1>4 DEF Taken, AllPhases
<1>6. Counted(rails, Taken)
  BY <1>1 DEF Tallied
<1>7. QED BY <1>4, <1>5, <1>6 DEF Tallied

LEMMA SecondTallied ==
  ASSUME Tallying, PagesAsCounted, heard, SecondRail
  PROVE  Tallied'
<1> DEFINE a == devices[at].address
<1>1. /\ Session /\ Tallied /\ pec \in BOOLEAN /\ phase = "second" /\ rails \in Seq(Rail)
      /\ at \in Nat \ {0} /\ at <= Len(devices) /\ devices[at].class.controller = TRUE
  BY TypeParts DEF Tallying, Typing, Walked, Session, ChipsKept, SecondRail, Railed
<1>2. at \in 1..Len(devices)
  BY <1>1, DevicesTyped
<1>3. /\ a \in Chips /\ Pages(a) = {0, 1} /\ RailRead(page', a) = {RailOf[a][1]}
  BY <1>1, RailsRead
<1>4. /\ rails' = AddRails(rails, ControllerRails(a, first, RailOf[a][1]))
      /\ devices' = devices /\ at' = at + 1 /\ phase' = "first"
  BY <1>3 DEF SecondRail
<1>5. first = RailOf[a][0] /\ Counted(rails, Taken)
  BY <1>1 DEF Tallied
<1>6. /\ Taken' = Taken \cup PhasesOf(a) /\ Taken \cap PhasesOf(a) = {} /\ Taken \in SUBSET AllPhases
  BY <1>1, <1>2, <1>4, TakesDevice
<1> HIDE DEF a
<1>7. Counted(AddRails(rails, ControllerRails(a, RailOf[a][0], RailOf[a][1])), Taken \cup PhasesOf(a))
  BY <1>1, <1>3, <1>5, <1>6, ControllerCounted
<1>8. Counted(rails', Taken')
  BY <1>4, <1>5, <1>6, <1>7
<1>9. QED BY <1>4, <1>8 DEF Tallied

LEMMA ManagerTallied ==
  ASSUME Tallying, PagesAsCounted, heard, ManagerRails
  PROVE  Tallied'
<1> DEFINE a == devices[at].address
           n == devices[at].class.railPages
<1>1. /\ Session /\ Tallied /\ pec \in BOOLEAN /\ phase = "first" /\ rails \in Seq(Rail)
      /\ at \in 1..Len(devices)
  BY TypeParts DEF Tallying, Typing, Session, ChipsKept, ManagerRails, Railed
<1>2. a \in Chips /\ n \in 1..8 /\ devices[at].class = FirstClass(IdOf[a])
  BY <1>1, DeviceAt
<1>3. ~FirstClass(IdOf[a]).controller
  BY <1>2 DEF ManagerRails
<1>4. Pages(a) = 0..(n - 1)
  BY <1>2, <1>3 DEF PagesAsCounted
<1>5. \A p \in Pages(a) : RailOf[a][p] = NoRail
  BY <1>2, <1>3, ChipsAssumption
<1>6. /\ rails' = AddRails(rails, ManagerRailsOf(a, n))
      /\ devices' = devices /\ at' = at + 1 /\ phase' = phase
  BY DEF ManagerRails, ManagerRailsOf
<1>7. Counted(rails, Taken)
  BY <1>1 DEF Tallied
<1>8. /\ Taken' = Taken \cup PhasesOf(a) /\ Taken \cap PhasesOf(a) = {} /\ Taken \in SUBSET AllPhases
  BY <1>1, <1>6, TakesDevice
<1> HIDE DEF a, n
<1>9. Counted(AddRails(rails, ManagerRailsOf(a, n)), Taken \cup PhasesOf(a))
  BY <1>1, <1>2, <1>4, <1>5, <1>7, <1>8, ManagerCounted
<1>10. Counted(rails', Taken')
  BY <1>6, <1>8, <1>9
<1>11. QED BY <1>1, <1>6, <1>10 DEF Tallied

(* Behind the last device every phase is taken.                            *)
LEMMA AllTaken ==
  ASSUME Session, phase = "first", at > Len(devices)
  PROVE  Taken = AllPhases
<1>1. at \in Nat /\ Len(devices) \in Nat
  BY DevicesTyped DEF Session, ChipsKept
<1>2. ASSUME NEW cp \in AllPhases PROVE cp \in Taken
  <2>1. cp[1] \in Chips
    BY DEF AllPhases
  <2>2. PICK i \in 1..Len(devices) : devices[i].address = cp[1]
    BY <2>1 DEF Session, Located
  <2>3. i < at
    BY <1>1
  <2>4. QED BY <2>2, <2>3 DEF Taken
<1>3. Taken \subseteq AllPhases
  BY DEF Taken
<1>4. QED BY <1>2, <1>3

LEMMA TallyKept == PagesAsCounted /\ Tallying /\ [Next]_vars => Tallying'
<1> SUFFICES ASSUME PagesAsCounted, Tallying, [Next]_vars PROVE Tallying'
  OBVIOUS
<1>1. Typing /\ (heard => Tallied) /\ Session /\ Walked
  BY DEF Tallying, Typing
<1>2. Typing'
  BY <1>1, TypingKept
<1>3. CASE Restarting
  <2>1. phase' \in {"off", "detect"}
    BY <1>3, Restarts
  <2>2. QED BY <1>2, <2>1 DEF Tallying, Tallied
<1>4. heard' = heard \/ Restarting
  <2>1. Standing => heard' = heard
    BY StandingSame
  <2>2. Walking => heard' = heard
    BY DEF Walking, DetectDevice, DetectDone, FirstRail, SecondRail, ManagerRails, RailsDone, Choose,
       PrintPaged, PrintStatus, NextDevice, PecDevice, TreeDevice, ClearDevice, ItemDone
  <2>3. QED BY <2>1, <2>2, StepKinds
<1>5. SUFFICES ASSUME heard, ~Restarting PROVE Tallied'
  BY <1>2, <1>3, <1>4 DEF Tallying
<1>6. Tallied
  BY <1>1, <1>5
<1>7. CASE Standing
  <2>1. UNCHANGED <<phase, at, first, devices, rails>>
    BY <1>7, StandingSame
  <2>2. Taken' = Taken
    BY <2>1 DEF Taken, AllPhases
  <2>3. QED BY <1>6, <2>1, <2>2 DEF Tallied
<1>8. CASE DetectDevice
  BY <1>8 DEF DetectDevice, Tallied
<1>9. CASE DetectDone
  <2>1. /\ rails' = <<>> /\ phase' = "first" /\ at' = 1 /\ devices' = devices
    BY <1>1, <1>9 DEF DetectDone, Walked
  <2>2. Taken' = {}
    BY <2>1 DEF Taken
  <2>3. Counted(<<>>, {})
    BY DEF Counted
  <2>4. QED BY <2>1, <2>2, <2>3 DEF Tallied
<1>10. CASE FirstRail \/ SecondRail \/ ManagerRails
  BY <1>5, <1>10, FirstTallied, SecondTallied, ManagerTallied
<1>11. CASE RailsDone
  <2>1. Counted(rails, AllPhases) /\ rails' = rails /\ phase' = "menu"
    BY <1>1, <1>6, <1>11, AllTaken DEF RailsDone, Tallied
  <2>2. QED BY <2>1 DEF Tallied
<1>12. CASE \/ (\E item \in Items : Choose(item)) \/ PrintPaged \/ PrintStatus \/ NextDevice
            \/ PecDevice \/ TreeDevice \/ ClearDevice
  <2>1. /\ rails' = rails /\ phase \notin {"off", "detect", "first", "second"}
        /\ phase' \notin {"off", "detect", "first", "second"}
    BY <1>12 DEF Choose, PrintPaged, PrintStatus, NextDevice, PecDevice, TreeDevice, ClearDevice,
       Items, ReadItems
  <2>2. QED BY <1>6, <2>1 DEF Tallied
<1>13. CASE ItemDone
  <2>1. Counted(rails, AllPhases) /\ phase' = "menu"
    BY <1>6, <1>13 DEF ItemDone, Tallied, ReadItems
  <2>2. rails \in Seq(Rail)
    BY <1>1, TypeParts DEF Typing, Railed
  <2>3. CASE rails' = rails
    BY <2>1, <2>3 DEF Tallied
  <2>4. CASE rails' = [i \in DOMAIN rails |-> [rails[i] EXCEPT !.pec = TRUE]]
    <3>1. /\ DOMAIN rails = 1..Len(rails) /\ Len(rails) \in Nat
          /\ \A i \in 1..Len(rails) : rails[i] \in Rail
      BY <2>2
    <3>2. Len(rails') = Len(rails) /\ \A i \in 1..Len(rails) : rails'[i] = [rails[i] EXCEPT !.pec = TRUE]
      BY <2>4, <3>1
    <3>3. ASSUME NEW r \in Rail
          PROVE  LET s == [r EXCEPT !.pec = TRUE]
                 IN  /\ s.address = r.address /\ s.unit = r.unit /\ s.pages = r.pages
                     /\ s.multiphase = r.multiphase
      BY DEF Rail
    <3>4. \A i \in 1..Len(rails) :
            /\ rails'[i].address = rails[i].address /\ rails'[i].unit = rails[i].unit
            /\ rails'[i].pages = rails[i].pages /\ rails'[i].multiphase = rails[i].multiphase
      BY <3>1, <3>2, <3>3
    <3>5. \A i \in 1..Len(rails) : rails[i].multiphase \in BOOLEAN
      BY <3>1, RailTyped
    <3>6. \A i \in 1..Len(rails) :
            /\ rails'[i].address = rails[i].address /\ rails'[i].unit = rails[i].unit
            /\ rails'[i].pages = rails[i].pages
            /\ rails'[i].multiphase \in BOOLEAN /\ rails[i].multiphase \in BOOLEAN
            /\ rails'[i].multiphase <=> rails[i].multiphase
      BY <3>4, <3>5, Zenon
    <3>7. Counted(rails', AllPhases)
      BY <2>1, <3>2, <3>6, CountedAlike
    <3>8. QED BY <2>1, <3>7 DEF Tallied
  <2>5. QED BY <1>13, <2>3, <2>4 DEF ItemDone
<1>14. QED BY <1>5, <1>7, <1>8, <1>9, <1>10, <1>11, <1>12, <1>13, StepKinds DEF Walking

LEMMA TallyInvariant ==
  ASSUME PagesAsCounted
  PROVE  Spec => []Tallying
<1>1. Init => Tallying
  BY InitSession, InitTyped DEF Tallying, Typing, Tallied, Init
<1>2. Tallying /\ [Next]_vars => Tallying'
  BY TallyKept
<1>3. QED BY <1>1, <1>2, PTL DEF Spec

(* What is counted in the menu.                                            *)
LEMMA AllCounted ==
  ASSUME rails \in Seq(Rail), Counted(rails, AllPhases)
  PROVE  /\ \A i, j \in DOMAIN rails : i # j =>
           rails[i].address # rails[j].address
             \/ (~rails[i].multiphase /\ Named(rails[i]) # Named(rails[j]))
         /\ {rails[i].address : i \in {k \in DOMAIN rails : rails[k].multiphase}} = RailAddresses
         /\ \A i \in DOMAIN rails :
              IF rails[i].multiphase THEN Len(rails[i].pages) = Cardinality(Phases(rails[i].address))
              ELSE Len(rails[i].pages) = 1 /\ Named(rails[i]) \subseteq Phases(NoRail)
         /\ Cardinality({i \in DOMAIN rails : ~rails[i].multiphase}) = Cardinality(Phases(NoRail))
<1>1. /\ DOMAIN rails = 1..Len(rails) /\ Len(rails) \in Nat
      /\ \A i \in 1..Len(rails) : rails[i] \in Rail /\ rails[i].multiphase \in BOOLEAN
  BY RailTyped
<1>2. \A r : AllPhases \cap Phases(r) = Phases(r)
  BY PhasesApart
<1>3. \A i \in 1..Len(rails) : Counts(rails[i], AllPhases)
  BY DEF Counted
<1>4. \A i, j \in 1..Len(rails) : i # j => Apart(rails[i], rails[j])
  BY DEF Counted
<1>5. \A cp \in AllPhases : \E i \in 1..Len(rails) : Stands(rails[i], cp)
  BY DEF Counted
<1> DEFINE many == {k \in 1..Len(rails) : rails[k].multiphase}
           one == {k \in 1..Len(rails) : ~rails[k].multiphase}
<1>6. {rails[i].address : i \in many} = RailAddresses
  <2>1. ASSUME NEW i \in many PROVE rails[i].address \in RailAddresses
    BY <1>3 DEF Counts, CountsMany
  <2>2. ASSUME NEW r \in RailAddresses PROVE \E i \in many : rails[i].address = r
    <3>1. PICK c \in Chips : \E p \in Pages(c) : RailOf[c][p] = r
      BY DEF RailAddresses
    <3>2. PICK p \in Pages(c) : RailOf[c][p] = r
      BY <3>1
    <3>3. p \in 0..7 /\ r # NoRail
      BY PagesAreInt, RailsAreNotChips
    <3>4. <<c, p>> \in AllPhases
      BY <3>2, <3>3 DEF AllPhases
    <3>5. PICK i \in 1..Len(rails) : Stands(rails[i], <<c, p>>)
      BY <1>5, <3>4
    <3>6. rails[i].multiphase = TRUE /\ rails[i].address = r
      BY <3>2, <3>3, <3>5 DEF Stands
    <3>7. QED BY <3>6
  <2>3. QED BY <2>1, <2>2
<1>7. \A i \in 1..Len(rails) :
        IF rails[i].multiphase THEN Len(rails[i].pages) = Cardinality(Phases(rails[i].address))
        ELSE Len(rails[i].pages) = 1 /\ Named(rails[i]) \subseteq Phases(NoRail)
  <2>1. SUFFICES ASSUME NEW i \in 1..Len(rails)
                 PROVE  IF rails[i].multiphase THEN Len(rails[i].pages) = Cardinality(Phases(rails[i].address))
                        ELSE Len(rails[i].pages) = 1 /\ Named(rails[i]) \subseteq Phases(NoRail)
    OBVIOUS
  <2>2. CASE rails[i].multiphase
    BY <1>2, <1>3, <2>2 DEF Counts, CountsMany
  <2>3. CASE ~rails[i].multiphase
    BY <1>2, <1>3, <2>3 DEF Counts, CountsOne
  <2>4. QED BY <2>2, <2>3
<1>8. Cardinality(one) = Cardinality(Phases(NoRail))
  <2> DEFINE phaseOf == [i \in one |-> CHOOSE cp : Named(rails[i]) = {cp}]
  <2>1. ASSUME NEW i \in one
        PROVE  /\ phaseOf[i] \in Phases(NoRail) /\ phaseOf[i][1] = rails[i].address
               /\ Named(rails[i]) = {phaseOf[i]}
    <3>1. CountsOne(rails[i], AllPhases)
      BY <1>3 DEF Counts
    <3>2. PICK cp \in AllPhases \cap Phases(NoRail) : cp[1] = rails[i].address /\ Named(rails[i]) = {cp}
      BY <3>1 DEF CountsOne
    <3>3. phaseOf[i] = cp
      BY <3>2
    <3>4. QED BY <3>1, <3>2, <3>3 DEF CountsOne
  <2>2. phaseOf \in [one -> Phases(NoRail)]
    BY <2>1
  <2>3. ASSUME NEW i \in one, NEW j \in one, phaseOf[i] = phaseOf[j] PROVE i = j
    <3>1. Named(rails[i]) = Named(rails[j])
      BY <2>1, <2>3
    <3>2. rails[i].address = rails[j].address
      BY <2>1, <2>3
    <3>3. QED BY <1>4, <3>1, <3>2 DEF Apart
  <2>4. ASSUME NEW cp \in Phases(NoRail) PROVE \E i \in one : phaseOf[i] = cp
    <3>1. cp \in AllPhases /\ RailOf[cp[1]][cp[2]] = NoRail
      BY <1>2 DEF Phases
    <3>2. PICK i \in 1..Len(rails) : Stands(rails[i], cp)
      BY <1>5, <3>1
    <3>3. i \in one /\ Named(rails[i]) = {cp}
      BY <1>1, <3>1, <3>2 DEF Stands
    <3>4. QED BY <2>1, <3>3
  <2>5. phaseOf \in Bijection(one, Phases(NoRail))
    BY <2>2, <2>3, <2>4, Fun_IsBij
  <2>6. IsFiniteSet(one)
    <3>1. one \subseteq 1..Len(rails)
      OBVIOUS
    <3>2. IsFiniteSet(1..Len(rails))
      BY <1>1, FS_Interval
    <3>3. QED BY <3>1, <3>2, FS_Subset
  <2> HIDE DEF one, phaseOf
  <2>7. ExistsBijection(one, Phases(NoRail))
    BY <2>5 DEF ExistsBijection
  <2>8. QED BY <2>6, <2>7, FS_Bijection
<1>9. \A i, j \in 1..Len(rails) : i # j =>
           rails[i].address # rails[j].address
             \/ (~rails[i].multiphase /\ Named(rails[i]) # Named(rails[j]))
  BY <1>4 DEF Apart
<1>10. QED BY <1>1, <1>6, <1>7, <1>8, <1>9, Zenon

(* On a bus whose chips have the pages that getRails counts, the rails of a *)
(* detection that every chip obeyed partition its pages: each rail address  *)
(* has one rail, with a page of each phase behind it, and every page that    *)
(* has no rail address is a rail of its own.                               *)
THEOREM EveryPhaseCounted ==
  ASSUME PagesAsCounted
  PROVE  Spec => []PhasesCounted
<1>1. Tallying => PhasesCounted
  <2> SUFFICES ASSUME Tallying, phase = "menu", heard PROVE PhasesCounted
    BY DEF PhasesCounted
  <2>1. rails \in Seq(Rail) /\ Counted(rails, AllPhases)
    BY TypeParts DEF Tallying, Typing, Railed, Tallied
  <2>2. QED BY <2>1, AllCounted, Zenon DEF PhasesCounted
<1>2. QED BY <1>1, TallyInvariant, PTL
=============================================================================
