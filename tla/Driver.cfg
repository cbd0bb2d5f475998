SPECIFICATION DriverFairSpec
CONSTANTS
  Build = {b1, b2}
  Kind = {"exe", "dll", "obj", "lib"}
  Sleeps = 1
  Main = "main"
  Name <- ModuleNames
  Builtin <- Packages
  Provided = {"ffi"}
  Native = {"imgui"}
  Parent <- Parents
  Roving = {"json"}
  Trees <- SourceTrees
INVARIANTS
  OutAlwaysClosed
  NoStageLeft
  ReportMatchesOutput
  SelfContained
PROPERTY EveryBuildEnds
CHECK_DEADLOCK FALSE
