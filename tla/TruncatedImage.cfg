SPECIFICATION DriverSpec
CONSTANTS
  Build = {b1}
  Kind = {"exe", "dll"}
  Sleeps = 1
  Main = "main"
  Name <- ModuleNames
  Builtin <- Packages
  Provided = {"ffi"}
  Native = {"imgui"}
  Parent <- Parents
  Roving = {"json"}
  Trees <- SourceTrees
INVARIANT OutNeverPartial
CHECK_DEADLOCK FALSE
