SPECIFICATION Spec
CONSTANTS
  Build = {b1, b2}
  Func = {0, 1}
  Version = {v1, v2}
  Dead = {v2}
  DebugChoice = {FALSE, TRUE}
  Cap = 1
SYMMETRY Builds
INVARIANTS
  RestoredIsFresh
  NoStageLeft
CHECK_DEADLOCK FALSE
