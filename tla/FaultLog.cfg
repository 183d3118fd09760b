\* Every part; the print is of the log, keeps to what was read, and shows all of a ring, of some.
CONSTANTS
  Parts = {"LTC3880", "LTC3882", "LTC3883", "LTC3884", "LTC3886", "LTC3887", "LTC3888", "LTC3889",
           "LTC7880", "LTC2972", "LTC2974", "LTC2975", "LTC2977", "LTC2978"}
  LogParts = {"LTC3880", "LTC3882", "LTC3883", "LTC3884", "LTC3886", "LTC3887", "LTC3888", "LTC3889",
              "LTC7880", "LTC2972", "LTC2974", "LTC2975", "LTC2977"}
  ReadParts = {"LTC3888", "LTC3889", "LTC2972", "LTC2974", "LTC2975", "LTC2977"}
  WholeParts = {"LTC2974", "LTC2975"}

SPECIFICATION Spec

INVARIANT TypeOK
INVARIANT WritesInside
INVARIANT PrintsTheLog
INVARIANT PrintsWhatWasRead
INVARIANT WholeLogPrinted
