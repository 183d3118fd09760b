--------------------------- MODULE MCNumberFormats ---------------------------
(* Floats at the edges of both formats: where they underflow to zero, where *)
(* Linear11 stops being normalized, where each saturates, and mantissas on, *)
(* just below and just above a tie.                                        *)
EXTENDS NumberFormats

Bits(signs, exps, mants) == [sign : signs, exp : exps, mant : mants]

Zero == Bits({0}, {0}, {0})

MCWords16 == {0, 1, 2, 3, 1000, 32767, 32768, 65534, 65535}
MCWords11 == {((e % 32) * 2048) + (m % 2048) :
                e \in {-16, -1, 0, 15}, m \in {0, 1, 511, 512, 1023, -1, -512, -513, -1023, -1024}}

(* Of VOUT_MODE 0x14 (2^-12): 113 underflows, 114 is the last place that    *)
(* rounds to a bit, 130 is the largest binade, 131 saturates.              *)
MCFloats16 == Zero \cup Bits({0}, {0, 112, 113, 114, 115, 129, 130, 131, 255},
                             {0, 1, 127, 128, 129, 383, 384, 2^22, 2^22 + 1, 2^23 - 129})
                   \cup Bits({1}, {0, 130}, {0})

(* 109 and 110 underflow, 119 is not normalized, 151 is the largest binade *)
MCFloats11 == Zero \cup Bits({0, 1}, {0, 109, 110, 118, 119, 120, 151, 152, 255},
                             {0, 1, 2^13, 2^13 + 1, 3 * 2^13, 2^23 - 2^14, 2^23 - 2^13, 2^23 - 129})

ASSUME MCBelowTheTop == \A f \in MCFloats16, v \in Modes : ~ToTheTop(f, v)

(* The last half step below the top of Linear16 too.                       *)
MCFloatsToTop == MCFloats16 \cup Bits({0}, {129, 130}, {2^23 - 128, 2^23 - 1})
=============================================================================
