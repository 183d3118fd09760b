\* Both formats, three scales of Linear16, both sizes of unsigned long.
CONSTANTS
  Modes = {20, 19, 1}
  LongBytes = {4, 8}
  Words16 <- MCWords16
  Words11 <- MCWords11
  Floats16 <- MCFloats16
  Floats11 <- MCFloats11

SPECIFICATION Spec

INVARIANT TypeOK
INVARIANT ReadsExactly
INVARIANT WritesNearest
PROPERTY WriteBackKeeps
PROPERTY KeepsOrder
