\* Two chips, three recipes, every order of the commands of the application.
CONSTANTS
  c1 = c1
  c2 = c2
  None = None
  Chips <- MCChips
  Word <- MCWord
  Worn <- MCWorn
  Blank = 0
  NWords = 2
  Recipes <- MCRecipes

SPECIFICATION FairSpec

INVARIANT TypeOK
INVARIANT BufferLive
INVARIANT NeverOverrun
INVARIANT SuccessMeansProgrammed
PROPERTY VerifyKeepsEeprom
PROPERTY ImplementsContract
PROPERTY RunsEnd
