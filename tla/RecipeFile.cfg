\* Recipes in files of three line sizes, three runs in a row.
CONSTANTS
  Registers <- MCRegisters
  Initial <- MCInitial
  Status <- MCStatus
  NeedPec <- MCNeedPec
  Recipes <- MCRecipes
  LineSizes = {1, 7, 32}
  MaxRuns = 3

SPECIFICATION Spec

INVARIANT TypeOK
INVARIANT RecordsAsWritten
INVARIANT InsideFile
INVARIANT SectionsHeeded
INVARIANT SuccessMeansSet
INVARIANT Untouched
PROPERTY FailIfDifferent
