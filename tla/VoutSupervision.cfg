\* Calls on a settled rail that is not margined, some of which fail; the output lags.
CONSTANTS
  Volts <- MCVolts
  Percents <- MCPercents
  Scale = 10
  Top = 120
  Encode <- MCEncode
  Decode <- MCDecode
  CallsWhileMargined = FALSE
  CallsWhileRamping = FALSE

SPECIFICATION Spec

INVARIANT TypeOK
INVARIANT NoAlarm
INVARIANT MarginsSafe
