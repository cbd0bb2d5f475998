SPECIFICATION FairSpec
CONSTANTS
  NameSeq <- MCNames
  Entry = "main"
  TlsUsed = "k"
  KeepNames <- MCKeep
  Imp <- MCImp
  SortKey <- MCSortKey
  Nil = Nil
  Inputs <- MCInputs
INVARIANTS
  ArchivesExact
  LiveExact
  BindsAsWritten
PROPERTY LinkEnds
CHECK_DEADLOCK FALSE
