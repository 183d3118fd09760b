---------------------------- MODULE BusSession ----------------------------
(***************************************************************************)
(* A session of the interactive application: the devices are detected, the *)
(* rails found and merged, values printed page by page, faults cleared, and *)
(* PEC turned on and off.  The state that matters lies in the chips: the    *)
(* page that their paged commands address, and whether they require a PEC. *)
(* Such a chip ignores a write without PEC and answers every read.          *)
(***************************************************************************)
EXTENDS DeviceTable, SequencesExt

CONSTANTS Chips,   \* the addresses of the chips on the bus
          IdOf,    \* chip -> its MFR_SPECIAL_ID, masked
          RailOf,  \* chip -> page -> MFR_RAIL_ADDRESS
          NoRail,  \* the rail address of a page that has none: 0x80
          None     \* no line printed

Pages(c) == DOMAIN RailOf[c]
RailAddresses == (UNION {{RailOf[c][p] : p \in Pages(c)} : c \in Chips}) \ {NoRail}

ASSUME ChipsAssumption ==
  /\ IsFiniteSet(Chips)
  /\ \A c \in Chips : /\ c \in 16..126 \ {\h5A, \h5B, \h7C}
                      /\ \E k \in DOMAIN DetectOrder : IdOf[c] \in DetectOrder[k].ids
                      /\ \E n \in 1..8 : Pages(c) = 0..(n - 1)
                      /\ ~FirstClass(IdOf[c]).controller => \A p \in Pages(c) : RailOf[c][p] = NoRail

ASSUME RailsAssumption == /\ RailAddresses \subseteq 16..126 \ (Chips \cup {\h5A, \h5B, \h7C})
                          /\ NoRail \notin 16..126

(* A chip has the pages that its class counts.                             *)
ASSUME PagesAssumption == \A c \in Chips : 0..(FirstClass(IdOf[c]).numPages - 1) \subseteq Pages(c)

(* The addresses that answer probeUnique, in its order: chips and rails.    *)
Answering == Chips \cup RailAddresses
Below(a) == {b \in Answering : b < a}
Addresses == [i \in 1..Cardinality(Answering) |->
                CHOOSE a \in Answering : Cardinality(Below(a)) = i - 1]

VARIABLES
  page,      \* chip -> PAGE
  required,  \* chip -> it requires a PEC
  phase,     \* "off", "detect", "first" and "second" (page of getRails), "menu", a menu item
  at,        \* the address or device that phase is at
  next,      \* the page to print
  first,     \* the rail address read of page 0, inside getRails
  pec,       \* pmbus is pmbusPec
  devices, rails,
  shown,     \* the line printed last: its item, its label and the page read
  heard      \* every chip obeyed the last detection

chips == <<page, required>>
vars == <<chips, phase, at, next, first, pec, devices, rails, shown, heard>>

ReadItems == {"voltages", "currents", "status"}
Items == ReadItems \cup {"pec_on", "pec_off", "tree", "clear"}

Device == [address : 16..126, class : Range(DetectOrder), pec : BOOLEAN]
Rail == [address : 16..126, unit : 16..126, pages : Seq(0..7), multiphase : BOOLEAN, pec : BOOLEAN]
Line == [item : ReadItems, label : Chips \X (0..7), read : Chips \X (0..7)]

TypeOK ==
  /\ page \in [Chips -> 0..7 \cup {AllPages}] /\ required \in [Chips -> BOOLEAN]
  /\ phase \in {"off", "detect", "first", "second", "menu"} \cup Items
  /\ at \in 1..(Len(Addresses) + 1) /\ next \in 0..8
  /\ phase \in ReadItems /\ at <= Len(devices) => next <= devices[at].class.numPages
  /\ first \in {NoRail} \cup RailAddresses
  /\ pec \in BOOLEAN /\ heard \in BOOLEAN
  /\ devices \in Seq(Device) /\ rails \in Seq(Rail)
  /\ shown \in {None} \cup Line

Init == /\ page = [c \in Chips |-> 0] /\ required = [c \in Chips |-> FALSE]
        /\ phase = "off" /\ at = 1 /\ next = 0 /\ first = NoRail
        /\ pec = FALSE /\ devices = <<>> /\ rails = <<>>
        /\ shown = None /\ heard = TRUE

-----------------------------------------------------------------------------
(* The chips.                                                              *)
Obeys(c, withPec) == required[c] => withPec

SetPage(a, p, withPec) ==
  page' = [c \in Chips |-> IF c = a /\ Obeys(c, withPec) /\ p \in Pages(c) \cup {AllPages}
                             THEN p ELSE page[c]]

(* What a paged command reads; of all pages at once, any.                   *)
Selected(pages, c) == IF pages[c] = AllPages THEN Pages(c) ELSE {pages[c]}

RailRead(pages, a) == IF a \in Chips THEN {RailOf[a][p] : p \in Selected(pages, a)} ELSE {a}

IdRead(a) == IF a \in Chips THEN IdOf[a]
             ELSE IdOf[CHOOSE c \in Chips : \E p \in Pages(c) : RailOf[c][p] = a]

-----------------------------------------------------------------------------
(* Mutant of Detected: a rail address is a device, too.                    *)
DetectedRails(class, id, a, rail) == id \in class.ids

(* detect() of a class.                                                    *)
Detected(class, id, a, rail) == /\ id \in class.ids
                                /\ class.controller => rail # a

(* The ifs of LT_PMBusDetect::detect, for one address.                     *)
DetectDevice ==
  /\ phase = "detect" /\ at <= Len(Addresses)
  /\ LET a == Addresses[at] IN
     \E rail \in RailRead(page, a) :
       LET hits == {k \in DOMAIN DetectOrder : Detected(DetectOrder[k], IdRead(a), a, rail)}
       IN  devices' = IF hits = {} THEN devices
                      ELSE Append(devices, [address |-> a, class |-> DetectOrder[Min(hits)],
                                            pec |-> pec])
  /\ at' = at + 1
  /\ UNCHANGED <<chips, phase, next, first, pec, rails, shown, heard>>

DetectDone == /\ phase = "detect" /\ at > Len(Addresses)
              /\ phase' = "first" /\ at' = 1
              /\ UNCHANGED <<chips, next, first, pec, devices, rails, shown, heard>>

NewRail(address, unit, pages, multiphase) ==
  [address |-> address, unit |-> unit, pages |-> pages, multiphase |-> multiphase, pec |-> pec]

(* Mutant of Merges: pages without a rail address merge, too.               *)
MergesSingles(old, new) == old.address = new.address

(* The condition on which a rail found before takes in a new one.           *)
Merges(old, new) == old.multiphase /\ old.address = new.address

(* A rail is merged into the first of its address, or added.  merge() only  *)
(* appends pages: the address of the merged device is lost.                 *)
AddRail(found, new) ==
  LET hosts == {j \in DOMAIN found : Merges(found[j], new)}
  IN  IF hosts = {} THEN Append(found, new)
      ELSE [found EXCEPT ![Min(hosts)].pages = @ \o new.pages]

(* The rails of a device, one after the other.                              *)
AddRails(found, new) ==
  LET added[n \in 0..Len(new)] == IF n = 0 THEN found ELSE AddRail(added[n - 1], new[n])
  IN  added[Len(new)]

(* The rails of a controller whose pages report these rail addresses.      *)
ControllerRails(a, rail0, rail1) ==
  LET address0 == IF rail0 = NoRail THEN a ELSE rail0
      address1 == IF rail1 = NoRail THEN a ELSE rail1
  IN  IF rail1 # NoRail /\ rail1 = address0
        THEN <<NewRail(address0, a, <<0, 1>>, rail0 # NoRail)>>
        ELSE <<NewRail(address0, a, <<0>>, rail0 # NoRail), NewRail(address1, a, <<1>>, rail1 # NoRail)>>

(* LT_PMBusDeviceController::getRails, its page 0.                         *)
FirstRail ==
  /\ phase = "first" /\ at <= Len(devices) /\ devices[at].class.controller
  /\ SetPage(devices[at].address, 0, devices[at].pec)
  /\ first' \in RailRead(page', devices[at].address)
  /\ phase' = "second"
  /\ UNCHANGED <<required, at, next, pec, devices, rails, shown, heard>>

(* Its page 1, asked for whatever the number of pages (no_pages_ > 0).      *)
SecondRail ==
  /\ phase = "second"
  /\ SetPage(devices[at].address, 1, devices[at].pec)
  /\ \E rail \in RailRead(page', devices[at].address) :
       rails' = AddRails(rails, ControllerRails(devices[at].address, first, rail))
  /\ phase' = "first" /\ at' = at + 1 /\ first' = NoRail
  /\ UNCHANGED <<required, next, pec, devices, shown, heard>>

(* LT_PMBusDeviceManager::getRails, which asks the chip nothing.           *)
ManagerRails ==
  /\ phase = "first" /\ at <= Len(devices) /\ ~devices[at].class.controller
  /\ LET d == devices[at]
     IN  rails' = AddRails(rails, [i \in 1..d.class.railPages |->
                                     NewRail(d.address, d.address, <<i - 1>>, FALSE)])
  /\ at' = at + 1
  /\ UNCHANGED <<chips, phase, next, first, pec, devices, shown, heard>>

RailsDone == /\ phase = "first" /\ at > Len(devices)
             /\ phase' = "menu" /\ at' = 1
             /\ UNCHANGED <<chips, next, first, pec, devices, rails, shown, heard>>

(* A new detector on a bus with or without PEC.                             *)
Redetect(withPec) == /\ phase' = "detect" /\ at' = 1
                     /\ pec' = withPec
                     /\ heard' = \A c \in Chips : Obeys(c, withPec)
                     /\ devices' = <<>> /\ rails' = <<>>
                     /\ next' = 0 /\ first' = NoRail /\ shown' = None

(* The process starts, without PEC, whatever the chips were left with.      *)
Start == phase = "off" /\ Redetect(FALSE) /\ UNCHANGED chips

(* Quit, or a failed transfer, whose exception ends the process.            *)
End == /\ phase # "off"
       /\ phase' = "off" /\ at' = 1 /\ devices' = <<>> /\ rails' = <<>>
       /\ next' = 0 /\ first' = NoRail /\ shown' = None
       /\ UNCHANGED <<chips, pec, heard>>

-----------------------------------------------------------------------------
(* The menus.                                                              *)
Choose(item) == /\ phase = "menu"
                /\ phase' = item /\ at' = 1 /\ next' = 0
                /\ UNCHANGED <<chips, first, pec, devices, rails, shown, heard>>

(* hasCapability: every class has voltages and a status word.              *)
Printing(d) == phase = "currents" => d.class.hasIout

(* Mutant of PrintPaged: the page is not set.                              *)
PrintUnpaged == /\ phase \in {"voltages", "currents"} /\ at <= Len(devices)
                /\ Printing(devices[at]) /\ next < devices[at].class.numPages
                /\ LET a == devices[at].address IN
                   \E p \in Selected(page, a) :
                     shown' = [item |-> phase, label |-> <<a, next>>, read |-> <<a, p>>]
                /\ next' = next + 1
                /\ UNCHANGED <<chips, phase, at, first, pec, devices, rails, heard>>

(* Mutant of PrintPaged: one page too many.                                *)
PrintPagedMore ==
  /\ phase \in {"voltages", "currents"} /\ at <= Len(devices)
  /\ Printing(devices[at]) /\ next <= devices[at].class.numPages
  /\ SetPage(devices[at].address, next, devices[at].pec)
  /\ next' = next + 1
  /\ UNCHANGED <<required, phase, at, first, pec, devices, rails, shown, heard>>

(* print_all_voltages, print_all_currents: a page of a device.             *)
PrintPaged ==
  /\ phase \in {"voltages", "currents"} /\ at <= Len(devices)
  /\ Printing(devices[at]) /\ next < devices[at].class.numPages
  /\ LET a == devices[at].address IN
       /\ SetPage(a, next, devices[at].pec)
       /\ \E p \in Selected(page', a) :
            shown' = [item |-> phase, label |-> <<a, next>>, read |-> <<a, p>>]
  /\ next' = next + 1
  /\ UNCHANGED <<required, phase, at, first, pec, devices, rails, heard>>

(* print_all_status: the same loop, without setPage.                       *)
PrintStatus ==
  /\ phase = "status" /\ at <= Len(devices)
  /\ next < devices[at].class.numPages
  /\ LET a == devices[at].address IN
     \E p \in Selected(page, a) :
       shown' = [item |-> phase, label |-> <<a, next>>, read |-> <<a, p>>]
  /\ next' = next + 1
  /\ UNCHANGED <<chips, phase, at, first, pec, devices, rails, heard>>

NextDevice == /\ phase \in ReadItems /\ at <= Len(devices)
              /\ ~Printing(devices[at]) \/ next >= devices[at].class.numPages
              /\ at' = at + 1 /\ next' = 0
              /\ UNCHANGED <<chips, phase, first, pec, devices, rails, shown, heard>>

(* enablePec and disablePec, over a bus with or without PEC.                *)
SwitchPec(c, on, withPec) ==
  required' = IF IdOf[c] \in PecIds /\ Obeys(c, withPec) THEN [required EXCEPT ![c] = on] ELSE required

(* Items 5 and 6, a device, and the new detection behind the last.          *)
PecDevice == /\ phase \in {"pec_on", "pec_off"} /\ at <= Len(devices)
             /\ SwitchPec(devices[at].address, phase = "pec_on", devices[at].pec)
             /\ at' = at + 1
             /\ UNCHANGED <<page, phase, next, first, pec, devices, rails, shown, heard>>

PecDone == /\ phase \in {"pec_on", "pec_off"} /\ at > Len(devices)
           /\ Redetect(phase = "pec_on")
           /\ UNCHANGED chips

(* Mutant of TreeDevice: the device keeps its bus.                         *)
TreeDeviceKept == /\ phase = "tree" /\ at <= Len(devices)
                  /\ SwitchPec(devices[at].address, TRUE, FALSE)
                  /\ at' = at + 1
                  /\ UNCHANGED <<page, phase, next, first, pec, devices, rails, shown, heard>>

(* Item 4, a device: PEC is enabled over pmbusNoPec, and the device moved   *)
(* to pmbusPec; pmbus stays what it is.                                    *)
TreeDevice == /\ phase = "tree" /\ at <= Len(devices)
              /\ SwitchPec(devices[at].address, TRUE, FALSE)
              /\ devices' = [devices EXCEPT ![at].pec = TRUE]
              /\ at' = at + 1
              /\ UNCHANGED <<page, phase, next, first, pec, rails, shown, heard>>

(* clearFaults of a device, all of its pages.                              *)
ClearDevice ==
  /\ phase = "clear" /\ at <= Len(devices)
  /\ LET c == devices[at].address
         last == LastCleared(IdOf[c])
     IN  SetPage(c, IF last = AllPages THEN last ELSE Max({p \in Pages(c) : p <= last}), devices[at].pec)
  /\ at' = at + 1
  /\ UNCHANGED <<required, phase, next, first, pec, devices, rails, shown, heard>>

(* Back to the menu; the rails of the tree are moved to pmbusPec.           *)
ItemDone == /\ phase \in ReadItems \cup {"tree", "clear"} /\ at > Len(devices)
            /\ phase' = "menu" /\ at' = 1 /\ shown' = None
            /\ rails' = IF phase = "tree" THEN [i \in DOMAIN rails |-> [rails[i] EXCEPT !.pec = TRUE]]
                        ELSE rails
            /\ UNCHANGED <<chips, next, first, pec, devices, heard>>

Global == [c \in Chips |-> IF Obeys(c, pec) THEN AllPages ELSE page[c]]

(* Margins and sequencing: PAGE of every chip, then OPERATION.             *)
OperateGlobal == /\ phase = "menu"
                 /\ page' = Global
                 /\ UNCHANGED <<required, phase, at, next, first, pec, devices, rails, shown, heard>>

(* Item 8: a reset controller is as its EEPROM has it, without PEC.        *)
ResetGlobal == LET Reset(c) == FirstClass(IdOf[c]).controller /\ Obeys(c, pec) IN
               /\ phase = "menu"
               /\ page' = [c \in Chips |-> IF Reset(c) THEN 0 ELSE Global[c]]
               /\ required' = [c \in Chips |-> required[c] /\ ~Reset(c)]
               /\ UNCHANGED <<phase, at, next, first, pec, devices, rails, shown, heard>>

(* Menu 3, clear faults: PAGE 0xFF, and 0 for the chips that have no 0xFF. A *)
(* failure between the two is OperateGlobal, then End.                      *)
ClearGlobal == /\ phase = "menu"
               /\ page' = [c \in Chips |-> IF Obeys(c, pec) THEN 0 ELSE page[c]]
               /\ UNCHANGED <<required, phase, at, next, first, pec, devices, rails, shown, heard>>

(* Menus 2 and 3: every chip that obeys loads its EEPROM, which has no PEC;  *)
(* PAGE is not kept there.                                                  *)
RestoreGlobal ==
  /\ phase = "menu"
  /\ required' = [c \in Chips |-> required[c] /\ ~Obeys(c, pec)]
  /\ UNCHANGED <<page, phase, at, next, first, pec, devices, rails, shown, heard>>

Next == \/ Start \/ End
        \/ DetectDevice \/ DetectDone
        \/ FirstRail \/ SecondRail \/ ManagerRails \/ RailsDone
        \/ \E item \in Items : Choose(item)
        \/ PrintPaged \/ PrintStatus \/ NextDevice
        \/ PecDevice \/ PecDone \/ TreeDevice \/ ClearDevice \/ ItemDone
        \/ OperateGlobal \/ ResetGlobal \/ ClearGlobal \/ RestoreGlobal

Spec == Init /\ [][Next]_vars

-----------------------------------------------------------------------------
(* Detection finds every chip, with the class of its id and in the order of *)
(* the addresses, and takes no rail address for a device, whatever pages    *)
(* the chips were left on and whether or not they obey.                     *)
DevicesFound ==
  phase = "menu" =>
    /\ Len(devices) = Cardinality(Chips)
    /\ \A i \in DOMAIN devices : /\ devices[i].address \in Chips
                                 /\ devices[i].class = FirstClass(IdOf[devices[i].address])
    /\ \A i, j \in DOMAIN devices : i < j => devices[i].address < devices[j].address

Phases(address) == {cp \in Chips \X (0..7) : cp[2] \in Pages(cp[1]) /\ RailOf[cp[1]][cp[2]] = address}

Named(rail) == {<<rail.unit, rail.pages[i]>> : i \in DOMAIN rail.pages}

(* A chip has the pages that the getRails of its class counts, a controller *)
(* those two that it asks for: LTC3883s and LTC2975s are not on such a bus. *)
PagesAsCounted ==
  \A c \in Chips :
    LET class == FirstClass(IdOf[c])
    IN  Pages(c) = 0..((IF class.controller THEN 2 ELSE class.railPages) - 1)

(* The rails partition the pages of the bus: a rail of each rail address,   *)
(* which counts as many pages as there are phases behind that address, and  *)
(* one of each page that has none, as long as every chip obeyed.            *)
PhasesCounted ==
  phase = "menu" /\ heard =>
    /\ \A i, j \in DOMAIN rails : i # j => \/ rails[i].address # rails[j].address
                                           \/ ~rails[i].multiphase /\ Named(rails[i]) # Named(rails[j])
    /\ {rails[i].address : i \in {k \in DOMAIN rails : rails[k].multiphase}} = RailAddresses
    /\ \A i \in DOMAIN rails :
         IF rails[i].multiphase THEN Len(rails[i].pages) = Cardinality(Phases(rails[i].address))
         ELSE Len(rails[i].pages) = 1 /\ Named(rails[i]) \subseteq Phases(NoRail)
    /\ Cardinality({i \in DOMAIN rails : ~rails[i].multiphase}) = Cardinality(Phases(NoRail))

(* "Add up all phases. There will not be any unwanted phases.": the pages   *)
(* that a rail reads are the phases behind its address.                     *)
PhasesAddressed ==
  phase = "menu" /\ heard =>
    \A i \in DOMAIN rails : rails[i].multiphase => Named(rails[i]) = Phases(rails[i].address)

(* If every chip obeyed the detection, then every device object goes on to  *)
(* be obeyed, through any items of the menu: no chip requires a PEC that    *)
(* its object does not send.                                               *)
DevicesObeyed ==
  phase = "menu" /\ heard => \A i \in DOMAIN devices : Obeys(devices[i].address, devices[i].pec)

(* The voltage and the current printed for a page are those of that page;   *)
(* print_all_status sets no page, and is left out.                         *)
LabelsTrue == heard /\ shown # None /\ shown.item # "status" => shown.read = shown.label
=============================================================================
