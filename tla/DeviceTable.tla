---------------------------- MODULE DeviceTable ----------------------------
(***************************************************************************)
(* The device classes: what detect() compares MFR_SPECIAL_ID with (its low  *)
(* four bits masked), how many pages getRails() and getNumPages() count,    *)
(* and how a chip of the class answers.  Controllers have a rail address    *)
(* per page and obey MFR_RESET; managers have neither.                     *)
(***************************************************************************)
EXTENDS Integers, Sequences, FiniteSetsExt

Controller(ids, pages) ==
  [ids |-> ids, controller |-> TRUE, railPages |-> pages, numPages |-> pages, hasIout |-> TRUE]

Manager(ids, railPages, numPages, hasIout) ==
  [ids |-> ids, controller |-> FALSE, railPages |-> railPages, numPages |-> numPages,
   hasIout |-> hasIout]

LTC3880 == Controller({\h4020}, 2)
LTC3882 == Controller({\h4200, \h4240}, 2)
LTC3883 == Controller({\h4300}, 1)
LTC3884 == Controller({\h4C00}, 2)
LTC3886 == Controller({\h4600}, 2)
LTC3887 == Controller({\h4700}, 2)
LTC3888 == Controller({\h4800, \h4880}, 2)
LTC3889 == Controller({\h4900}, 2)
LTC7880 == Controller({\h49E0}, 2)
LTM4664 == Controller({\h4120}, 2)
LTM4675 == Controller({\h47A0}, 2)
LTM4676 == Controller({\h4400, \h4480, \h47E0}, 2)
LTM4677 == Controller({\h47B0}, 2)
LTM4678 == Controller({\h4100}, 2)
LTM4680 == Controller({\h4140}, 2)
LTM4686 == Controller({\h4770}, 2)
LTM4700 == Controller({\h4130}, 2)
LTC2972 == Manager({\h0310}, 2, 2, TRUE)
LTC2974 == Manager({\h0210}, 4, 4, TRUE)
LTC2975 == Manager({\h0220}, 8, 4, TRUE)
LTC2977 == Manager({\h0130}, 8, 8, FALSE)
LTC2978 == Manager({\h0110, \h0120}, 8, 4, FALSE)
LTC2979 == Manager({\h8060, \h8070}, 8, 8, FALSE)
LTC2980 == Manager({\h0130, \h8030, \h8040, \h80A0, \h80B0, \h80C0}, 8, 8, FALSE)
LTM2987 == Manager({\h8010, \h8020}, 8, 8, FALSE)

(* The classes in the order in which detect() asks them.                   *)
DetectOrder ==
  <<LTC3880, LTC3882, LTC3883, LTC3884, LTC3886, LTC3887, LTC3888, LTC3889, LTC7880,
    LTM4664, LTM4675, LTM4676, LTM4677, LTM4678, LTM4680, LTM4686, LTM4700,
    LTC2972, LTC2974, LTC2975, LTC2977, LTC2978, LTC2979, LTC2980, LTM2987>>

(* The ids that each type of LT_PMBus::deviceType stands for; it takes an   *)
(* LTC3888 for an LTC3887 and knows no type for 80A0, 80B0 and 80C0.       *)
TypeIds ==
  [LTC3880 |-> {\h4020}, LTC3882 |-> {\h4200}, LTC3882_1 |-> {\h4240}, LTC3883 |-> {\h4300},
   LTC3884 |-> {\h4C00}, LTC3886 |-> {\h4600}, LTC3887 |-> {\h4700, \h4800, \h4880},
   LTC3889 |-> {\h4900}, LTC7880 |-> {\h49E0}, LTM4664 |-> {\h4120}, LTM4675 |-> {\h47A0},
   LTM4676 |-> {\h4400, \h4480}, LTM4676A |-> {\h47E0}, LTM4677 |-> {\h47B0},
   LTM4678 |-> {\h4100}, LTM4680 |-> {\h4140}, LTM4686 |-> {\h4770}, LTM4700 |-> {\h4130},
   LTC2972 |-> {\h0310}, LTC2974 |-> {\h0210}, LTC2975 |-> {\h0220}, LTC2977 |-> {\h0130},
   LTC2978 |-> {\h0110, \h0120}, LTC2979 |-> {\h8060, \h8070}, LTC2980 |-> {\h8030, \h8040},
   LTM2987 |-> {\h8010, \h8020}]

OfTypes(types) == UNION {TypeIds[t] : t \in types}

(* The ids whose PEC enablePec and disablePec can switch.                  *)
PecIds == OfTypes({"LTC3880", "LTC3882", "LTC3882_1", "LTC3883", "LTM4675", "LTM4676", "LTM4676A",
                   "LTM4677", "LTC2978", "LTC2972", "LTC2974", "LTC2975", "LTC2977", "LTC2979",
                   "LTC2980", "LTM2987"})

(* The last page that clearAllFaults sets.                                 *)
AllPages == 255
LastCleared(id) == CASE id \in OfTypes({"LTC2972", "LTC2974", "LTC2975"}) -> 3
                     [] id \in OfTypes({"LTC2977", "LTC2979", "LTC2980", "LTM2987"}) -> 7
                     [] OTHER -> AllPages

(* The class whose detect() is the first to take a chip of that id.        *)
FirstClass(id) == DetectOrder[Min({k \in DOMAIN DetectOrder : id \in DetectOrder[k].ids})]
=============================================================================
