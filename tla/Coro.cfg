CONSTANTS
  Thread = {main, worker}
  Main = main
  Coro = {c1, c2, c3}
  Nil = Nil
  MaxClosing = 2
  HandlersReenter = FALSE
SPECIFICATION Spec
SYMMETRY Perms
INVARIANTS CurrentIsRunning CallerWaits FrameOfOwnFiber NoLiveFiberDeleted
PROPERTIES ImplementsAbs
CHECK_DEADLOCK FALSE
