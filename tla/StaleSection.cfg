\* A recipe with events is verified, then one without, in the same process.
CONSTANTS
  c1 = c1
  c2 = c2
  None = None
  Chips <- MCChips
  Word <- MCWord
  Worn <- MCWorn
  Blank = 0
  NWords = 2
  Recipes <- MCUngoverned

SPECIFICATION Spec

INVARIANT SuccessMeansProgrammed
