\* The LTC2978, whose log is read as one block.
CONSTANTS
  Parts = {"LTC2978"}
  LogParts = {"LTC2978"}
  ReadParts = {}
  WholeParts = {}

SPECIFICATION Spec

INVARIANT PrintsTheLog
