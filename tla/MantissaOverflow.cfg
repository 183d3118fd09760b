\* Also the floats that round up to 2^16.
CONSTANTS
  Modes = {20, 19, 1}
  LongBytes = {4}
  Words16 <- MCWords16
  Words11 <- MCWords11
  Floats16 <- MCFloatsToTop
  Floats11 <- MCFloats11

SPECIFICATION Spec

INVARIANT WritesNearest
