-------------------------- MODULE MCTransientSweep --------------------------
(* The rails that detection makes of two controllers: both pages of an       *)
(* LTC3882, the second of them a slave; its second page alone; both, and one *)
(* appended by a merge; one page of the other chip; and a rail of two        *)
(* definitions.  The outputs lie about their commands, far below it, or      *)
(* above it.  One phase ignores undervoltage from the start.               *)
EXTENDS TransientSweep

MCPhases == {<<48, 0>>, <<48, 1>>, <<50, 0>>, <<50, 1>>}
MCRails == {<<[address |-> 48, pages |-> <<0, 1>>]>>,
            <<[address |-> 48, pages |-> <<1>>]>>,
            <<[address |-> 48, pages |-> <<0, 1, 1>>]>>,
            <<[address |-> 50, pages |-> <<1>>]>>,
            <<[address |-> 50, pages |-> <<0>>], [address |-> 48, pages |-> <<0>>]>>}
MCSlaves == {<<48, 1>>}
MCLow == [p \in MCPhases |-> IF p[1] = 48 THEN 9 ELSE 10]
MCHigh == [p \in MCPhases |-> IF p[1] = 48 THEN 10 ELSE 10 + p[2]]
MCCommand == [p \in MCPhases |-> CASE p = <<48, 0>> -> 12 [] p = <<48, 1>> -> 14
                                   [] p = <<50, 0>> -> 10 [] p = <<50, 1>> -> 9]
MCStoredLimit == [p \in MCPhases |-> 7 + p[2]]
MCStoredResponse == [p \in MCPhases |-> IF p = <<50, 0>> THEN 0 ELSE 128]
=============================================================================
