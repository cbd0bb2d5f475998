CONSTANTS
  Programs <- MCPrograms
  Levels = {1, 3}
  Width = 3
  Unknown <- MCUnknown
SPECIFICATION Spec
INVARIANTS
  ProofsHold
  FrameAgrees
  ObserverSees
  SamePath
  DeadNeverRuns
