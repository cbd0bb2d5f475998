CONSTANTS
  main = main
  w1 = w1
  w2 = w2
  Thread <- AllThreads
  Worker = {w1, w2}
  Slot = {s1, s2}
  None = None
  Nil = Nil
SPECIFICATION ThreadsFairSpec
INVARIANTS
  NoLeakedSlot
  OneSlot
  NothingSwept
  CtxOutlivesThread
  OwnCacheWhileOpen
  JoinTellsOutcome
PROPERTY
  EveryWorkerEnds
