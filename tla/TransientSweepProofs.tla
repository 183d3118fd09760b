------------------------ MODULE TransientSweepProofs ------------------------
(***************************************************************************)
(* Proofs about TransientSweep, for any phases, rails, outputs and settings *)
(* that satisfy the assumptions.                                           *)
(***************************************************************************)
EXTENDS TransientSweep, SequenceTheorems, TLAPS

Definitions == [address : Addresses, pages : Seq(Int)]

LEMMA RailLengths ==
  ASSUME NEW r \in Rails
  PROVE  /\ r \in Seq(Definitions) /\ Len(r) \in Nat /\ Len(r) > 0
         /\ \A k \in 1..Len(r) : /\ r[k] \in Definitions
                                 /\ r[k].pages \in Seq(Int) /\ Len(r[k].pages) \in Nat
<1>1. r \in Seq(Definitions) /\ Len(r) > 0
  BY RailsAssumption DEF Definitions
<1>2. Len(r) \in Nat
  BY <1>1, LenProperties
<1>3. ASSUME NEW k \in 1..Len(r)
      PROVE  r[k] \in Definitions /\ r[k].pages \in Seq(Int) /\ Len(r[k].pages) \in Nat
  <2>1. r[k] \in Definitions
    BY <1>1, ElementOfSeq
  <2> QED
    BY <2>1, LenProperties DEF Definitions
<1> QED
  BY <1>1, <1>2, <1>3

(* A transfer reaches a phase of the bus, and so does the page to be set.   *)
LEMMA PhaseReached ==
  ASSUME TypeOK
  PROVE  /\ address \in Addresses
         /\ page[address] \in Int
         /\ Reached \in Phases
         /\ Len(rail[d].pages) \in Nat
         /\ MorePages => Meant \in Phases /\ rail[d].pages[j + 1] \in Int
<1>1. rail \in Rails
  BY DEF TypeOK
<1>2. d \in 1..Len(rail) /\ j \in 0..Len(rail[d].pages)
  BY DEF TypeOK
<1>3. /\ rail \in Seq(Definitions)
      /\ rail[d] \in Definitions /\ Len(rail[d].pages) \in Nat
  BY <1>1, <1>2, RailLengths
<1>4. address \in Addresses /\ rail[d].pages \in Seq(Int)
  BY <1>3 DEF address, Definitions
<1>5. page[address] \in Int /\ Reached \in Phases
  BY <1>4 DEF TypeOK, Reached
<1>6. ASSUME MorePages
      PROVE  Meant \in Phases /\ rail[d].pages[j + 1] \in Int
  <2>1. j + 1 \in 1..Len(rail[d].pages)
    BY <1>2, <1>4, <1>6, LenProperties DEF MorePages
  <2>2. DOMAIN rail[d].pages = 1..Len(rail[d].pages) /\ DOMAIN rail = 1..Len(rail)
    BY <1>3, <1>4, LenProperties
  <2>3. Meant \in Phases
    BY <1>1, <1>2, <2>1, <2>2, RailsAssumption DEF Meant, address
  <2> QED
    BY <1>4, <2>1, <2>3, ElementOfSeq
<1> QED
  BY <1>3, <1>4, <1>5, <1>6

LEMMA TypeInitially == Init => TypeOK
<1> SUFFICES ASSUME Init PROVE TypeOK
  OBVIOUS
<1>1. page \in [Addresses -> Int] /\ \A a \in Addresses : <<a, page[a]>> \in Phases
  BY PhasesAssumption DEF Init
<1>2. /\ limit \in [Phases -> Int] /\ response \in [Phases -> Responses]
      /\ faulted \in [Phases -> BOOLEAN]
  BY StoredAssumption DEF Init
<1>3. rail \in Rails
  BY DEF Init
<1>4. Len(rail) \in Nat /\ Len(rail) > 0
  BY <1>3, RailLengths
<1>5. d \in 1..Len(rail) /\ Len(rail[d].pages) \in Nat
  BY <1>3, <1>4, RailLengths DEF Init
<1>6. j \in 0..Len(rail[d].pages)
  BY <1>5 DEF Init
<1>7. calls \in 0..MaxCalls
  BY PhasesAssumption DEF Init
<1>8. /\ at \in Steps /\ (at \notin {"idle", "page"} => j < Len(rail[d].pages))
      /\ vout \in Int /\ vout_uv \in Int /\ vout_response \in Responses /\ v \in Int /\ max \in Nat
      /\ broken \subseteq Phases
  BY DEF Init, Steps, Responses
<1>9. queueing \in BOOLEAN
  BY DEF Init
<1> QED
  BY <1>1, <1>2, <1>3, <1>5, <1>6, <1>7, <1>8, <1>9 DEF TypeOK

LEMMA TypeKept == TypeOK /\ [Next]_vars => TypeOK'
<1> SUFFICES ASSUME TypeOK, [Next]_vars PROVE TypeOK'
  OBVIOUS
<1>a. /\ address \in Addresses /\ page[address] \in Int /\ Reached \in Phases
      /\ Len(rail[d].pages) \in Nat
      /\ MorePages => Meant \in Phases /\ rail[d].pages[j + 1] \in Int
  BY PhaseReached
<1> USE DEF TypeOK, Steps, chips, place, reads, session
<1>1. ASSUME NEW r \in Rails, Measure(r)
      PROVE  TypeOK'
  <2>1. 1 \in 1..Len(r) /\ Len(r[1].pages) \in Nat
    BY RailLengths
  <2>2. rail' = r /\ d' = 1 /\ j' = 0 /\ at' = "page"
    BY <1>1 DEF Measure
  <2>3. rail' \in Rails /\ d' \in 1..Len(rail') /\ j' \in 0..Len(rail'[d'].pages)
    BY <2>1, <2>2
  <2>4. max' = 0 /\ calls' \in 0..MaxCalls
    BY <1>1, PhasesAssumption DEF Measure
  <2> QED
    BY <1>1, <2>2, <2>3, <2>4 DEF Measure
<1>2. CASE SkipSlave
  BY <1>2, <1>a DEF SkipSlave, MorePages
<1>3. CASE SetPage
  BY <1>3, <1>a DEF SetPage, Sent, MorePages, Meant
<1>4. CASE ReadPage
  BY <1>4, <1>a, PhasesAssumption DEF ReadPage
<1>5. CASE IgnoreFaults
  <2>1. Ignore \in Responses
    BY DEF Ignore, Responses
  <2>2. response' \in [Phases -> Responses]
    BY <1>5, <1>a, <2>1 DEF IgnoreFaults, Sent
  <2> QED
    BY <1>5, <2>2 DEF IgnoreFaults
<1>6. CASE ClearBefore
  BY <1>6, <1>a DEF ClearBefore, ClearStatus, Sent, Below
<1>7. CASE RaiseLimit
  BY <1>7, <1>a DEF RaiseLimit, Sent, Below
<1>8. CASE ReadStatus
  BY <1>8, <1>a DEF ReadStatus
<1>9. CASE SweepDone
  BY <1>9, <1>a DEF SweepDone
<1>10. CASE RestoreLimit
  BY <1>10, <1>a DEF RestoreLimit, Sent
<1>11. CASE RestoreResponse
  BY <1>11, <1>a DEF RestoreResponse, Sent
<1>12. CASE ClearAfter
  BY <1>12, <1>a DEF ClearAfter, ClearStatus, Sent, Below
<1>13. CASE NextDefinition
  BY <1>13, <1>a DEF NextDefinition
<1>14. CASE Return
  BY <1>14, <1>a DEF Return
<1>15. CASE Fail
  BY <1>15, <1>a DEF Fail
<1>16. CASE ClearFaults
  BY <1>16, <1>a DEF ClearFaults
<1>17. CASE NewProcess
  BY <1>17, <1>a DEF NewProcess
<1>18. ASSUME NEW p \in Phases, Dip(p)
      PROVE  TypeOK'
  BY <1>18 DEF Dip
<1>19. ASSUME NEW a \in Addresses, PowerUp(a)
      PROVE  TypeOK'
  BY <1>19, StoredAssumption DEF PowerUp
<1>20. CASE UNCHANGED vars
  BY <1>20 DEF vars
<1> QED
  BY <1>1, <1>2, <1>3, <1>4, <1>5, <1>6, <1>7, <1>8, <1>9, <1>10, <1>11, <1>12, <1>13, <1>14, <1>15, <1>16, <1>17, <1>18, <1>19, <1>20 DEF Next

(* Every variable keeps its type: no page is addressed that a rail does not  *)
(* have, for any rails and phases.                                         *)
THEOREM TypeCorrect == Spec => []TypeOK
  BY TypeInitially, TypeKept, PTL DEF Spec

-----------------------------------------------------------------------------
(* Between the first write of a measurement and its last the fault of the    *)
(* phase is ignored, and what was read of it is a safe setting, or one that  *)
(* ignores the fault as well.                                              *)
Holding == {"clear", "limit", "status", "restore", "respond"}
SafeInv == /\ NeverTrips
           /\ at \in Holding \cup {"ignore"} /\ vout_response # Ignore => vout_uv <= Low[Reached]
           /\ at \in Holding /\ queueing = FALSE => response[Reached] = Ignore
           /\ at = "respond" /\ queueing = FALSE => limit[Reached] = vout_uv

LEMMA SafeInitially == Init => SafeInv
  BY StoredAssumption DEF Init, SafeInv, NeverTrips, Holding

LEMMA SafeKept == TypeOK /\ SafeInv /\ [Next]_vars => SafeInv'
<1> SUFFICES ASSUME TypeOK, SafeInv, [Next]_vars PROVE SafeInv'
  OBVIOUS
<1>a. Reached \in Phases
  BY PhaseReached
<1>b. /\ page \in [Addresses -> Int]
      /\ limit \in [Phases -> Int] /\ response \in [Phases -> Responses]
      /\ queueing = TRUE \/ queueing = FALSE
  BY DEF TypeOK
<1> USE DEF SafeInv, NeverTrips, Holding, chips, place, reads, session
<1>1. ASSUME NEW r \in Rails, Measure(r)
      PROVE  SafeInv'
  BY <1>1 DEF Measure
<1>2. CASE SkipSlave
  BY <1>2, <1>a, <1>b DEF SkipSlave
<1>3. CASE SetPage
  BY <1>3, <1>a, <1>b DEF SetPage
<1>4. CASE ReadPage
  BY <1>4, <1>a, <1>b DEF ReadPage, Reached, address
<1>5. CASE IgnoreFaults
  BY <1>5, <1>a, <1>b DEF IgnoreFaults, Sent, Reached, address
<1>6. CASE ClearBefore
  BY <1>6, <1>a, <1>b DEF ClearBefore, Reached, address
<1>7. CASE RaiseLimit
  BY <1>7, <1>a, <1>b DEF RaiseLimit, Sent, Reached, address
<1>8. CASE ReadStatus
  BY <1>8, <1>a, <1>b DEF ReadStatus, Reached, address
<1>9. CASE SweepDone
  BY <1>9, <1>a, <1>b DEF SweepDone, Reached, address
<1>10. CASE RestoreLimit
  BY <1>10, <1>a, <1>b DEF RestoreLimit, Sent, Reached, address
<1>11. CASE RestoreResponse
  BY <1>11, <1>a, <1>b DEF RestoreResponse, Sent, Reached, address
<1>12. CASE ClearAfter
  BY <1>12, <1>a, <1>b DEF ClearAfter
<1>13. CASE NextDefinition
  BY <1>13, <1>a, <1>b DEF NextDefinition
<1>14. CASE Return
  BY <1>14, <1>a, <1>b DEF Return
<1>15. CASE Fail
  BY <1>15, <1>a, <1>b DEF Fail
<1>16. CASE ClearFaults
  BY <1>16, <1>a, <1>b DEF ClearFaults
<1>17. CASE NewProcess
  BY <1>17, <1>a, <1>b DEF NewProcess
<1>18. ASSUME NEW p \in Phases, Dip(p)
      PROVE  SafeInv'
  BY <1>18 DEF Dip, Reached, address
<1>19. ASSUME NEW a \in Addresses, PowerUp(a)
      PROVE  SafeInv'
  BY <1>19, StoredAssumption DEF PowerUp
<1>20. CASE UNCHANGED vars
  BY <1>20 DEF vars, Reached, address
<1> QED
  BY <1>1, <1>2, <1>3, <1>4, <1>5, <1>6, <1>7, <1>8, <1>9, <1>10, <1>11, <1>12, <1>13, <1>14, <1>15, <1>16, <1>17, <1>18, <1>19, <1>20 DEF Next

(* No measurement shuts its rail down, whatever fails and is tried again.    *)
THEOREM MeasuresSafely == Spec => []NeverTrips
<1>1. TypeOK /\ SafeInv /\ [Next]_vars => TypeOK' /\ SafeInv'
  BY TypeKept, SafeKept
<1>2. Spec => [](TypeOK /\ SafeInv)
  BY <1>1, TypeInitially, SafeInitially, PTL DEF Spec
<1>3. SafeInv => NeverTrips
  BY DEF SafeInv
<1> QED
  BY <1>2, <1>3, PTL

-----------------------------------------------------------------------------
(* A measurement reaches the phase it means, and what it read of a phase     *)
(* that no call was broken off at is what the phase was set up with.  Where  *)
(* writes are stored there is none.                                        *)
KeptInv == /\ SetUpKept
           /\ at \notin {"idle", "page"} /\ queueing = FALSE => Reached = Meant
           /\ queueing = TRUE => \A p \in Phases \ broken : AsStored(p)
           /\ at \in Holding \cup {"ignore"} /\ queueing = FALSE /\ Reached \notin broken =>
                vout_uv = StoredLimit[Reached] /\ vout_response = StoredResponse[Reached]
           /\ at = "respond" /\ queueing = FALSE /\ Reached \notin broken =>
                limit[Reached] = StoredLimit[Reached]

LEMMA KeptInitially == Init => KeptInv
  BY DEF Init, KeptInv, SetUpKept, AsStored, Holding

LEMMA KeptKept == TypeOK /\ KeptInv /\ [Next]_vars => KeptInv'
<1> SUFFICES ASSUME TypeOK, KeptInv, [Next]_vars PROVE KeptInv'
  OBVIOUS
<1>a. Reached \in Phases
  BY PhaseReached
<1>b. /\ page \in [Addresses -> Int]
      /\ limit \in [Phases -> Int] /\ response \in [Phases -> Responses]
      /\ queueing = TRUE \/ queueing = FALSE
      /\ broken \subseteq Phases
  BY DEF TypeOK
<1>c. address \in Addresses
  BY PhaseReached
<1> USE DEF KeptInv, SetUpKept, AsStored, Measuring, Holding, chips, place, reads, session
<1>1. ASSUME NEW r \in Rails, Measure(r)
      PROVE  KeptInv'
  BY <1>1 DEF Measure
<1>2. CASE SkipSlave
  BY <1>2, <1>a, <1>b DEF SkipSlave
<1>3. CASE SetPage
  BY <1>3, <1>a, <1>b, <1>c DEF SetPage, Sent, Meant, Reached, address
<1>4. CASE ReadPage
  BY <1>4, <1>a, <1>b DEF ReadPage, Meant, Reached, address
<1>5. CASE IgnoreFaults
  BY <1>5, <1>a, <1>b DEF IgnoreFaults, Sent, Meant, Reached, address
<1>6. CASE ClearBefore
  BY <1>6, <1>a, <1>b DEF ClearBefore, Meant, Reached, address
<1>7. CASE RaiseLimit
  BY <1>7, <1>a, <1>b DEF RaiseLimit, Sent, Meant, Reached, address
<1>8. CASE ReadStatus
  BY <1>8, <1>a, <1>b DEF ReadStatus, Meant, Reached, address
<1>9. CASE SweepDone
  BY <1>9, <1>a, <1>b DEF SweepDone, Meant, Reached, address
<1>10. CASE RestoreLimit
  BY <1>10, <1>a, <1>b DEF RestoreLimit, Sent, Meant, Reached, address
<1>11. CASE RestoreResponse
  BY <1>11, <1>a, <1>b DEF RestoreResponse, Sent, Meant, Reached, address
<1>12. CASE ClearAfter
  BY <1>12, <1>a, <1>b DEF ClearAfter
<1>13. CASE NextDefinition
  BY <1>13, <1>a, <1>b DEF NextDefinition
<1>14. CASE Return
  BY <1>14, <1>a, <1>b DEF Return
<1>15. CASE Fail
  BY <1>15, <1>a, <1>b DEF Fail
<1>16. CASE ClearFaults
  BY <1>16, <1>a, <1>b DEF ClearFaults
<1>17. CASE NewProcess
  BY <1>17, <1>a, <1>b DEF NewProcess
<1>18. ASSUME NEW p \in Phases, Dip(p)
      PROVE  KeptInv'
  BY <1>18 DEF Dip, Meant, Reached, address
<1>19. ASSUME NEW a \in Addresses, PowerUp(a)
      PROVE  KeptInv'
  BY <1>19 DEF PowerUp
<1>20. CASE UNCHANGED vars
  BY <1>20 DEF vars, Meant, Reached, address
<1> QED
  BY <1>1, <1>2, <1>3, <1>4, <1>5, <1>6, <1>7, <1>8, <1>9, <1>10, <1>11, <1>12, <1>13, <1>14, <1>15, <1>16, <1>17, <1>18, <1>19, <1>20 DEF Next

(* Limits and responses are those of the set-up, but for the phase being     *)
(* measured and those of calls that were broken off.                       *)
THEOREM KeepsSetUp == Spec => []SetUpKept
<1>1. TypeOK /\ KeptInv /\ [Next]_vars => TypeOK' /\ KeptInv'
  BY TypeKept, KeptKept
<1>2. Spec => [](TypeOK /\ KeptInv)
  BY <1>1, TypeInitially, KeptInitially, PTL DEF Spec
<1>3. KeptInv => SetUpKept
  BY DEF KeptInv
<1> QED
  BY <1>2, <1>3, PTL

-----------------------------------------------------------------------------
(* The sweep of a phase: its command was read, it starts from a limit below  *)
(* the output, with no fault, and a fault during it means that the limit    *)
(* has passed the lowest output; without one it ends above the command.    *)
SweepInv ==
  queueing = FALSE /\ broken = {} =>
    /\ max = 0 \/ \E p \in PhasesOf(rail) : max <= Command[p] - Low[p]
    /\ at \in Holding \cup {"ignore", "after"} => vout = Command[Reached]
    /\ at \in {"ignore", "clear"} => limit[Reached] <= Low[Reached]
    /\ at \in {"limit", "status"} /\ (faulted[Reached] \/ limit[Reached] > Low[Reached]) => v > Low[Reached]
    /\ at \in {"restore", "respond", "after"} => vout - v <= 0 \/ vout - v <= Command[Reached] - Low[Reached]

(* Every step of a measurement keeps it; the others have no depth yet.     *)
LEMMA SweepKept ==
  ASSUME TypeOK, KeptInv, SweepInv, [Next]_vars
  PROVE  SweepInv'
<1>a. Reached \in Phases /\ address \in Addresses
  BY PhaseReached
<1>b. /\ page \in [Addresses -> Int] /\ limit \in [Phases -> Int] /\ faulted \in [Phases -> BOOLEAN]
      /\ Low[Reached] \in Int /\ High[Reached] \in Int /\ Command[Reached] \in Int /\ Low[Reached] <= High[Reached]
      /\ limit[Reached] \in Int /\ faulted[Reached] \in BOOLEAN
      /\ vout \in Int /\ v \in Int /\ max \in Nat /\ Reach \in Nat
  BY <1>a, PhasesAssumption DEF TypeOK
<1> USE DEF Holding, chips, place, reads, session
<1>1. ASSUME queueing' = FALSE, broken' = {}, max' = 0, at' \in {"idle", "page"}
      PROVE  SweepInv'
  BY <1>1 DEF SweepInv
<1>2. ASSUME NEW r \in Rails, Measure(r)
      PROVE  SweepInv'
  <2>1. max' = 0 /\ at' = "page"
    BY <1>2 DEF Measure
  <2>2. QED BY <2>1 DEF SweepInv
<1>3. CASE NextDefinition \/ Fail \/ NewProcess
  <2>1. max' = 0 /\ at' \in {"idle", "page"}
    BY <1>3 DEF NextDefinition, Fail, NewProcess
  <2>2. QED BY <2>1 DEF SweepInv
<1>4. ASSUME NEW a \in Addresses, PowerUp(a)
      PROVE  SweepInv'
  <2>1. max' = 0 /\ at' = "idle"
    BY <1>4 DEF PowerUp
  <2>2. QED BY <2>1 DEF SweepInv
<1>5. CASE ClearFaults
  BY <1>5 DEF ClearFaults, SweepInv
<1> SUFFICES ASSUME ~(\E r \in Rails : Measure(r)), ~NextDefinition, ~Fail, ~NewProcess, ~ClearFaults,
                    ~(\E a \in Addresses : PowerUp(a)),
                    queueing' = FALSE, broken' = {}
             PROVE  SweepInv'
  BY <1>2, <1>3, <1>4, <1>5 DEF SweepInv
<1>6. queueing = FALSE /\ broken = {} /\ rail' = rail /\ d' = d
  BY DEF Next, vars, SkipSlave, SetPage, ReadPage, IgnoreFaults, ClearBefore, RaiseLimit, ReadStatus,
     SweepDone, RestoreLimit, RestoreResponse, ClearAfter, Return, Dip
<1>7. /\ max = 0 \/ \E p \in PhasesOf(rail) : max <= Command[p] - Low[p]
      /\ at \in Holding \cup {"ignore", "after"} => vout = Command[Reached]
      /\ at \in {"ignore", "clear"} => limit[Reached] <= Low[Reached]
      /\ at \in {"limit", "status"} /\ (faulted[Reached] \/ limit[Reached] > Low[Reached]) => v > Low[Reached]
      /\ at \in {"restore", "respond", "after"} => vout - v <= 0 \/ vout - v <= Command[Reached] - Low[Reached]
  BY <1>6 DEF SweepInv
<1>8. CASE SkipSlave \/ SetPage \/ Return
  <2>1. max' = max /\ at' \in {"idle", "page", "read"}
    BY <1>8 DEF SkipSlave, SetPage, Return
  <2>2. QED BY <1>6, <1>7, <2>1 DEF SweepInv
<1>9. ASSUME page' = page
      PROVE  Reached' = Reached
  BY <1>6, <1>9 DEF Reached, address
<1>10. CASE ReadPage
  <2>1. AsStored(Reached)
    BY <1>10, <1>6, <1>a DEF KeptInv, SetUpKept, Measuring, ReadPage
  <2>2. limit[Reached] <= Low[Reached]
    BY <1>a, <2>1, StoredAssumption DEF AsStored
  <2>3. Reached' = Reached /\ max' = max /\ limit' = limit /\ at' = "ignore"
        /\ vout' = Command[Reached]
    BY <1>9, <1>10 DEF ReadPage
  <2>4. QED BY <1>6, <1>7, <2>2, <2>3 DEF SweepInv
<1>11. CASE IgnoreFaults
  <2>1. Reached' = Reached /\ max' = max /\ limit' = limit /\ at' = "clear" /\ vout' = vout /\ at = "ignore"
    BY <1>9, <1>11 DEF IgnoreFaults
  <2>2. QED BY <1>6, <1>7, <2>1 DEF SweepInv
<1>12. CASE ClearBefore
  <2>1. Reached' = Reached /\ max' = max /\ limit' = limit /\ at' = "limit" /\ vout' = vout /\ at = "clear"
    BY <1>9, <1>12 DEF ClearBefore
  <2>2. faulted'[Reached] <=> limit[Reached] > High[Reached]
    BY <1>6, <1>12, <1>a, <1>b DEF ClearBefore, ClearStatus, Sent, Below
  <2>3. ~faulted'[Reached] /\ ~(limit[Reached] > Low[Reached])
    BY <1>b, <1>7, <2>1, <2>2
  <2>4. QED BY <1>6, <1>7, <2>1, <2>3 DEF SweepInv
<1>13. CASE RaiseLimit
  <2>1. Reached' = Reached /\ max' = max /\ at' = "status" /\ vout' = vout /\ v' = v /\ at = "limit"
    BY <1>9, <1>13 DEF RaiseLimit
  <2>2. limit'[Reached] = v /\ (faulted'[Reached] <=> faulted[Reached] \/ v > High[Reached])
    BY <1>6, <1>13, <1>a, <1>b DEF RaiseLimit, Sent, Below
  <2>3. faulted'[Reached] \/ limit'[Reached] > Low[Reached] => v > Low[Reached]
    BY <1>b, <1>7, <2>1, <2>2
  <2>4. QED BY <1>6, <1>7, <2>1, <2>3 DEF SweepInv
<1>14. CASE ReadStatus
  <2>1. /\ Reached' = Reached /\ max' = max /\ vout' = vout /\ limit' = limit /\ faulted' = faulted
        /\ at = "status"
    BY <1>9, <1>14 DEF ReadStatus
  <2>2. CASE faulted[Reached]
    <3>1. at' = "restore" /\ v' = v
      BY <1>14, <2>2 DEF ReadStatus
    <3>2. vout - v <= 0 \/ vout - v <= Command[Reached] - Low[Reached]
      BY <1>b, <1>7, <2>1, <2>2
    <3>3. QED BY <1>6, <1>7, <2>1, <3>1, <3>2 DEF SweepInv
  <2>3. CASE ~faulted[Reached]
    <3>1. at' = "limit" /\ v' = v + 1
      BY <1>14, <2>3 DEF ReadStatus
    <3>2. faulted[Reached] \/ limit[Reached] > Low[Reached] => v + 1 > Low[Reached]
      BY <1>b, <1>7, <2>1
    <3>3. QED BY <1>6, <1>7, <2>1, <3>1, <3>2 DEF SweepInv
  <2>4. QED BY <2>2, <2>3
<1>15. CASE SweepDone
  <2>1. /\ Reached' = Reached /\ max' = max /\ vout' = vout /\ v' = v /\ at = "limit" /\ at' = "restore"
        /\ v >= vout + Reach
    BY <1>9, <1>15 DEF SweepDone
  <2>2. vout - v <= 0
    BY <1>b, <2>1
  <2>3. QED BY <1>6, <1>7, <2>1, <2>2 DEF SweepInv
<1>16. CASE RestoreLimit
  <2>1. Reached' = Reached /\ max' = max /\ vout' = vout /\ v' = v /\ at = "restore" /\ at' = "respond"
    BY <1>9, <1>16 DEF RestoreLimit
  <2>2. QED BY <1>6, <1>7, <2>1 DEF SweepInv
<1>17. CASE RestoreResponse
  <2>1. Reached' = Reached /\ max' = max /\ vout' = vout /\ v' = v /\ at = "respond" /\ at' = "after"
    BY <1>9, <1>17 DEF RestoreResponse
  <2>2. QED BY <1>6, <1>7, <2>1 DEF SweepInv
<1>18. CASE ClearAfter
  <2>1. max' = (IF max < vout - v THEN vout - v ELSE max) /\ at = "after" /\ at' = "page"
    BY <1>18 DEF ClearAfter
  <2>2. vout - v <= 0 \/ vout - v <= Command[Reached] - Low[Reached]
    BY <1>7, <2>1
  <2>3. Reached \in PhasesOf(rail)
    <3>1. Reached = Meant
      BY <1>6, <2>1 DEF KeptInv
    <3>2. rail \in Rails /\ d \in 1..Len(rail) /\ j \in 0..Len(rail[d].pages) /\ j < Len(rail[d].pages)
      BY <2>1 DEF TypeOK
    <3>3. /\ rail \in Seq(Definitions) /\ rail[d].pages \in Seq(Int)
          /\ Len(rail[d].pages) \in Nat /\ Len(rail) \in Nat
      BY <3>2, RailLengths
    <3>4. d \in DOMAIN rail /\ j + 1 \in DOMAIN rail[d].pages
      BY <3>2, <3>3
    <3>5. QED BY <3>1, <3>4 DEF PhasesOf, Meant, address
  <2>4. max' = max \/ max' <= Command[Reached] - Low[Reached]
    BY <1>b, <2>1, <2>2
  <2>5. QED BY <1>6, <1>7, <2>1, <2>3, <2>4 DEF SweepInv
<1>19. ASSUME NEW p \in Phases, Dip(p)
      PROVE  SweepInv'
  <2>1. /\ Reached' = Reached /\ max' = max /\ vout' = vout /\ v' = v /\ at' = at /\ limit' = limit
        /\ limit[p] > Low[p] /\ faulted' = [faulted EXCEPT ![p] = TRUE]
    BY <1>9, <1>19 DEF Dip
  <2>2. faulted'[Reached] => faulted[Reached] \/ limit[Reached] > Low[Reached]
    BY <1>a, <1>b, <2>1
  <2>3. QED BY <1>6, <1>7, <2>1, <2>2 DEF SweepInv
<1>20. CASE UNCHANGED vars
  <2>1. /\ Reached' = Reached /\ max' = max /\ vout' = vout /\ v' = v /\ at' = at /\ limit' = limit
        /\ faulted' = faulted
    BY <1>9, <1>20 DEF vars
  <2>2. QED BY <1>6, <1>7, <2>1 DEF SweepInv
<1>21. QED BY <1>8, <1>10, <1>11, <1>12, <1>13, <1>14, <1>15, <1>16, <1>17, <1>18, <1>19, <1>20 DEF Next

(* The depth that readTransient returns is no more than the output of some   *)
(* phase of the rail can be below its VOUT_COMMAND, whatever faults the     *)
(* status held before, for any rails, outputs, commands and reach.         *)
THEOREM OverstatesNever == Spec => []NeverOverstates
<1>1. Init => SweepInv
  BY DEF Init, SweepInv, Holding
<1>2. TypeOK /\ KeptInv /\ [Next]_vars => TypeOK' /\ KeptInv'
  BY TypeKept, KeptKept
<1>3. TypeOK /\ KeptInv /\ SweepInv /\ [Next]_vars => SweepInv'
  BY SweepKept
<1>4. SweepInv => NeverOverstates
  BY DEF SweepInv, NeverOverstates
<1>5. QED BY <1>1, <1>2, <1>3, <1>4, TypeInitially, KeptInitially, PTL DEF Spec
=============================================================================
