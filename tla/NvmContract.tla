---------------------------- MODULE NvmContract ----------------------------
(***************************************************************************)
(* What the NVM class promises its callers (LT_Nvm.h): programWith* may     *)
(* change EEPROMs and returns true only when they hold what the data say;  *)
(* verifyWith* changes none of them, and returns true only then.  A call   *)
(* may also never return, when an exception ends the process.              *)
(***************************************************************************)
CONSTANTS Chips,     \* the devices
          Contents,  \* what the EEPROM of a device can hold
          Jobs,      \* the data a call is given
          Required,  \* job -> the content it asks of each chip it names
          NoJob

VARIABLES eeprom, call, job, outcome

vars == <<eeprom, call, job, outcome>>

Init == /\ eeprom \in [Chips -> Contents]
        /\ call = "none" /\ job = NoJob /\ outcome = "none"

Begin(c, j) == /\ call = "none"
               /\ call' = c /\ job' = j /\ outcome' = "none"
               /\ UNCHANGED eeprom

Change == /\ call = "program"
          /\ \E c \in Chips, e \in Contents : eeprom' = [eeprom EXCEPT ![c] = e]
          /\ UNCHANGED <<call, job, outcome>>

Satisfied == \A c \in DOMAIN Required[job] : eeprom[c] = Required[job][c]

Finish(o) == /\ call # "none"
             /\ o = "SUCCESS" => Satisfied
             /\ outcome' = o /\ call' = "none" /\ job' = NoJob
             /\ UNCHANGED eeprom

Abandon == /\ call # "none"
           /\ call' = "none" /\ job' = NoJob
           /\ UNCHANGED <<eeprom, outcome>>

Next == \/ \E c \in {"program", "verify"}, j \in Jobs : Begin(c, j)
        \/ Change
        \/ \E o \in {"SUCCESS", "FAILURE"} : Finish(o)
        \/ Abandon

Spec == Init /\ [][Next]_vars
=============================================================================
