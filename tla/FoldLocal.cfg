CONSTANTS
  Programs <- LocalGuards
  Levels = {2}
  Width = 3
  Unknown <- MCUnknown
SPECIFICATION Spec
INVARIANT FoldUnseen
