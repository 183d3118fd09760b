--------------------------- MODULE TransientSweep ---------------------------
(***************************************************************************)
(* LT_PMBusRail::readTransient: how deep the output of a live rail dips      *)
(* below its VOUT_COMMAND is found out by raising its undervoltage limit,   *)
(* step by step, until the chip reports a fault.  Meanwhile the response to the fault is "ignore";   *)
(* both are put back afterwards.  A transfer that fails leaves them as they  *)
(* are.  Writes go through LT_SMBusGroup, which LT_PMBusRail::clearFaults    *)
(* sets to store them and which never sends what it has stored.             *)
(***************************************************************************)
EXTENDS Integers, Sequences

CONSTANTS Phases,          \* the pairs <<address, page>> on the bus
          Rails,           \* sequences of definitions [address, pages]
          Slaves,          \* the phases that MFR_PADS of an LTC3882 calls slaves
          Low, High,       \* phase -> its lowest and its highest output
          Command,         \* phase -> its VOUT_COMMAND, which it may miss by any offset
          Reach,           \* the sweep begins and ends so far from VOUT_COMMAND: 5 %
          StoredLimit,     \* phase -> the limit in its EEPROM
          StoredResponse,  \* phase -> the response in its EEPROM
          MaxCalls         \* calls of the session (a bound)

Ignore == 0
Responses == 0..255
Addresses == {p[1] : p \in Phases}

ASSUME PhasesAssumption ==
  /\ \A p \in Phases : p = <<p[1], p[2]>> /\ p[2] \in Int
  /\ Low \in [Phases -> Int] /\ High \in [Phases -> Int] /\ Command \in [Phases -> Int]
  /\ \A p \in Phases : Low[p] <= High[p]
  /\ Slaves \subseteq Phases
  /\ Reach \in Nat /\ MaxCalls \in Nat

ASSUME RailsAssumption ==
  \A r \in Rails : /\ r \in Seq([address : Addresses, pages : Seq(Int)]) /\ Len(r) > 0
                   /\ \A d \in DOMAIN r : \A i \in DOMAIN r[d].pages :
                        <<r[d].address, r[d].pages[i]>> \in Phases

(* What is stored does not shut a rail down at once.                       *)
ASSUME StoredAssumption ==
  /\ StoredLimit \in [Phases -> Int] /\ StoredResponse \in [Phases -> Responses]
  /\ \A p \in Phases : StoredLimit[p] <= Low[p]

VARIABLES
  page,      \* address -> PAGE
  limit,     \* phase -> VOUT_UV_FAULT_LIMIT
  response,  \* phase -> VOUT_UV_FAULT_RESPONSE
  faulted,   \* phase -> bit 4 of STATUS_VOUT
  at,        \* the next transfer of the call under way, "idle" between calls
  rail, d, j,                    \* the rail, its definition, the index of the page
  vout, vout_uv, vout_response,  \* what was read of the page
  v, max,
  queueing,  \* of LT_SMBusGroup
  broken,    \* phases whose measurement was broken off
  calls      \* calls so far

chips == <<page, limit, response, faulted>>
place == <<rail, d, j>>
reads == <<vout, vout_uv, vout_response>>
session == <<queueing, broken, calls>>
vars == <<chips, at, place, reads, v, max, session>>

Steps == {"idle", "page", "read", "ignore", "clear", "limit", "status", "restore", "respond", "after"}

TypeOK == /\ page \in [Addresses -> Int] /\ \A a \in Addresses : <<a, page[a]>> \in Phases
          /\ limit \in [Phases -> Int] /\ response \in [Phases -> Responses]
          /\ faulted \in [Phases -> BOOLEAN]
          /\ at \in Steps
          /\ rail \in Rails /\ d \in 1..Len(rail) /\ j \in 0..Len(rail[d].pages)
          /\ at \notin {"idle", "page"} => j < Len(rail[d].pages)
          /\ vout \in Int /\ vout_uv \in Int /\ vout_response \in Responses
          /\ v \in Int /\ max \in Nat
          /\ queueing \in BOOLEAN /\ broken \subseteq Phases /\ calls \in 0..MaxCalls

(* Faults of the past may be in the status.                                *)
Init == /\ page \in {f \in [Addresses -> {p[2] : p \in Phases}] :
                       \A a \in Addresses : <<a, f[a]>> \in Phases}
        /\ limit = StoredLimit /\ response = StoredResponse
        /\ faulted \in [Phases -> BOOLEAN]
        /\ at = "idle" /\ rail \in Rails /\ d = 1 /\ j = 0
        /\ vout = 0 /\ vout_uv = 0 /\ vout_response = 0 /\ v = 0 /\ max = 0
        /\ queueing = FALSE /\ broken = {} /\ calls = 0

-----------------------------------------------------------------------------
address == rail[d].address
MorePages == j < Len(rail[d].pages)

(* The phase that is to be measured, and the one that the transfers reach.  *)
Meant == <<address, rail[d].pages[j + 1]>>
Reached == <<address, page[address]>>

(* LT_SMBusGroup: a write is sent or stored; nothing sends what is stored.  *)
Sent(register, p, value) == IF queueing THEN register ELSE [register EXCEPT ![p] = value]

(* The chip reports a fault for sure where even the highest output is below *)
(* the limit, and at some time where the lowest is.                        *)
Below(p, limits) == limits[p] > High[p]

Measure(r) == /\ at = "idle" /\ calls < MaxCalls
              /\ at' = "page"
              /\ rail' = r /\ d' = 1 /\ j' = 0 /\ max' = 0
              /\ calls' = calls + 1
              /\ UNCHANGED <<chips, reads, v, queueing, broken>>

(* "Skip LTC3882 Slave phases": bit 14 + j of MFR_PADS, which has 16 bits;   *)
(* it is the bit of page j, whatever page stands at that index.            *)
Skipped == <<address, j>> \in Slaves

SkipSlave == /\ at = "page" /\ MorePages /\ Skipped
             /\ j' = j + 1
             /\ UNCHANGED <<chips, at, rail, d, reads, v, max, session>>

SetPage == /\ at = "page" /\ MorePages /\ ~Skipped
           /\ page' = Sent(page, address, rail[d].pages[j + 1])
           /\ at' = "read"
           /\ UNCHANGED <<limit, response, faulted, place, reads, v, max, session>>

(* getVout reads VOUT_COMMAND; then VOUT_UV_FAULT_LIMIT and                  *)
(* VOUT_UV_FAULT_RESPONSE.  The limit survives its conversion to a float.  *)
ReadPage == /\ at = "read"
            /\ vout' = Command[Reached]
            /\ vout_uv' = limit[Reached]
            /\ vout_response' = response[Reached]
            /\ at' = "ignore"
            /\ UNCHANGED <<chips, place, v, max, session>>

IgnoreFaults == /\ at = "ignore"
                /\ response' = Sent(response, Reached, Ignore)
                /\ at' = "clear"
                /\ UNCHANGED <<page, limit, faulted, place, reads, v, max, session>>

(* Mutant of ClearStatus: it is not cleared before the sweep.              *)
ClearAfterOnly == faulted' = IF at = "clear" THEN faulted
                             ELSE Sent(faulted, Reached, Below(Reached, limit))

(* A one to STATUS_VOUT, or CLEAR_FAULTS: a fault that persists comes back. *)
ClearStatus == faulted' = Sent(faulted, Reached, Below(Reached, limit))

ClearBefore == /\ at = "clear"
               /\ ClearStatus
               /\ v' = vout - Reach
               /\ at' = "limit"
               /\ UNCHANGED <<page, limit, response, place, reads, max, session>>

RaiseLimit == /\ at = "limit" /\ v < vout + Reach
              /\ limit' = Sent(limit, Reached, v)
              /\ faulted' = Sent(faulted, Reached, faulted[Reached] \/ Below(Reached, limit'))
              /\ at' = "status"
              /\ UNCHANGED <<page, response, place, reads, v, max, session>>

ReadStatus == /\ at = "status"
              /\ IF faulted[Reached] THEN at' = "restore" /\ v' = v
                                     ELSE at' = "limit" /\ v' = v + 1
              /\ UNCHANGED <<chips, place, reads, max, session>>

SweepDone == /\ at = "limit" /\ v >= vout + Reach
             /\ at' = "restore"
             /\ UNCHANGED <<chips, place, reads, v, max, session>>

(* Mutants of RestoreLimit: the response is put back before the limit, and  *)
(* the limit is left at what stopped the sweep.                            *)
RestoreEarly == /\ at = "restore"
                /\ response' = Sent(response, Reached, vout_response)
                /\ at' = "respond"
                /\ UNCHANGED <<page, limit, faulted, place, reads, v, max, session>>

RestoreToVout == /\ at = "restore"
                 /\ limit' = Sent(limit, Reached, vout - Reach)
                 /\ at' = "respond"
                 /\ UNCHANGED <<page, response, faulted, place, reads, v, max, session>>

RestoreLimit == /\ at = "restore"
                /\ limit' = Sent(limit, Reached, vout_uv)
                /\ at' = "respond"
                /\ UNCHANGED <<page, response, faulted, place, reads, v, max, session>>

RestoreResponse == /\ at = "respond"
                   /\ response' = Sent(response, Reached, vout_response)
                   /\ at' = "after"
                   /\ UNCHANGED <<page, limit, faulted, place, reads, v, max, session>>

(* Mutant of ClearAfter: one page too far.                                 *)
ClearAfterMore == /\ at = "after"
                  /\ ClearStatus
                  /\ max' = max
                  /\ j' = j + 2 /\ at' = "page"
                  /\ UNCHANGED <<page, limit, response, rail, d, reads, v, session>>

ClearAfter == /\ at = "after"
              /\ ClearStatus
              /\ max' = IF max < vout - v THEN vout - v ELSE max
              /\ j' = j + 1 /\ at' = "page"
              /\ UNCHANGED <<page, limit, response, rail, d, reads, v, session>>

(* Each definition begins with max = 0.                                    *)
NextDefinition == /\ at = "page" /\ ~MorePages /\ d < Len(rail)
                  /\ d' = d + 1 /\ j' = 0 /\ max' = 0
                  /\ UNCHANGED <<chips, at, rail, reads, v, session>>

Return == /\ at = "page" /\ ~MorePages /\ d = Len(rail)
          /\ at' = "idle"
          /\ UNCHANGED <<chips, place, reads, v, max, session>>

(* A transfer fails: its exception leaves the call.                        *)
Fail == /\ at # "idle"
        /\ at' = "idle" /\ max' = 0
        /\ broken' = IF at \in {"page", "read", "ignore", "after"} \/ queueing THEN broken
                     ELSE broken \cup {Reached}
        /\ UNCHANGED <<chips, place, reads, v, queueing, calls>>

(* LT_PMBusRail::clearFaults: beginStoring, writes that are stored, and      *)
(* execute, "Not implemented", which leaves queueing as it is.              *)
ClearFaults == /\ at = "idle"
               /\ queueing' = TRUE
               /\ UNCHANGED <<chips, at, place, reads, v, max, broken, calls>>

(* The process ends, and another one has an LT_SMBusGroup of its own.       *)
NewProcess == /\ at = "idle"
              /\ queueing' = FALSE /\ max' = 0
              /\ UNCHANGED <<chips, at, place, reads, v, broken, calls>>

(* The output dips below the limit.                                        *)
Dip(p) == /\ limit[p] > Low[p]
          /\ faulted' = [faulted EXCEPT ![p] = TRUE]
          /\ UNCHANGED <<page, limit, response, at, place, reads, v, max, session>>

(* A chip is powered up: its registers are as its EEPROM has them, and what *)
(* was measured before is of no interest.                                  *)
PowerUp(a) == LET Loaded(register, stored) ==
                    [p \in Phases |-> IF p[1] = a THEN stored[p] ELSE register[p]]
              IN  /\ at = "idle"
                  /\ limit' = Loaded(limit, StoredLimit)
                  /\ response' = Loaded(response, StoredResponse)
                  /\ faulted' = Loaded(faulted, [p \in Phases |-> FALSE])
                  /\ broken' = {p \in broken : p[1] # a}
                  /\ max' = 0
                  /\ UNCHANGED <<page, at, place, reads, v, queueing, calls>>

Next == \/ \E r \in Rails : Measure(r)
        \/ SkipSlave \/ SetPage \/ ReadPage \/ IgnoreFaults \/ ClearBefore
        \/ RaiseLimit \/ ReadStatus \/ SweepDone
        \/ RestoreLimit \/ RestoreResponse \/ ClearAfter
        \/ NextDefinition \/ Return
        \/ Fail \/ ClearFaults \/ NewProcess
        \/ \E p \in Phases : Dip(p)
        \/ \E a \in Addresses : PowerUp(a)

Spec == Init /\ [][Next]_vars

-----------------------------------------------------------------------------
(* A measurement never shuts its rail down: a phase whose fault is not       *)
(* ignored has its limit below its output, between any two writes, after a  *)
(* call that was broken off, and in the calls after that one, which take     *)
(* what is left of it for the setting.                                     *)
NeverTrips == \A p \in Phases : response[p] # Ignore => limit[p] <= Low[p]

(* Limit and response of every phase are those it was set up with, but for   *)
(* the one being measured and those of calls that were broken off: nothing   *)
(* is forgotten, and no other page or rail is touched.                      *)
Measuring == at \in {"clear", "limit", "status", "restore", "respond"}
AsStored(p) == limit[p] = StoredLimit[p] /\ response[p] = StoredResponse[p]
SetUpKept == \A p \in Phases \ broken : (Measuring /\ p = Meant) \/ AsStored(p)

(* No more is returned than the output of some phase of the rail can be      *)
(* below its VOUT_COMMAND, whatever faults the status held before, wherever *)
(* the output lies and whether or not the sweep gets to it.                 *)
PhasesOf(r) == UNION {{<<r[k].address, r[k].pages[i]>> : i \in DOMAIN r[k].pages} : k \in DOMAIN r}
NeverOverstates == ~queueing /\ broken = {} =>
                     max = 0 \/ \E p \in PhasesOf(rail) : max <= Command[p] - Low[p]

(* The last two are what comments say and the code does not do; no run        *)
(* checks them.                                                            *)

(* "Read READ_VOUT" (LT_PMBus.cpp:1591): what is returned would be a dip of  *)
(* the output itself.                                                      *)
DipOfTheOutput == ~queueing /\ broken = {} =>
                    max = 0 \/ \E p \in PhasesOf(rail) : max <= High[p] - Low[p]

(* "Skip LTC3882 Slave phases": none of them would be measured.              *)
SlavesSkipped == at \notin {"idle", "page"} => Meant \notin Slaves
=============================================================================
