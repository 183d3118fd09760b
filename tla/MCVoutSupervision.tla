------------------------- MODULE MCVoutSupervision -------------------------
(* Three voltages, and percentages that widen and narrow the limits.       *)
EXTENDS VoutSupervision

MCVolts == {4, 5, 8}
MCPercents == {[margin |-> 1, warn |-> 1, fault |-> 3], [margin |-> 0, warn |-> 1, fault |-> 1],
               [margin |-> 3, warn |-> 4, fault |-> 5]}

(* Words of eight units, rounded half to even as fl32_to_lin16 does: two of *)
(* the voltages are one word apart.                                        *)
MCEncode(x) == LET up == x % 8 > 4 \/ (x % 8 = 4 /\ (x \div 8) % 2 = 1)
               IN  (x \div 8) + (IF up THEN 1 ELSE 0)
MCDecode(c) == 8 * c
=============================================================================
