\* One recipe, of a record 0x1A.
CONSTANTS
  Registers <- MCRegisters
  Initial <- MCInitial
  Status <- MCStatus
  NeedPec <- MCNeedPec
  Recipes <- ExpectsWord
  LineSizes = {32}
  MaxRuns = 1

SPECIFICATION Spec

PROPERTY FailIfDifferent
