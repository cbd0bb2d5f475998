SPECIFICATION PoolFairSpec
CONSTANTS
  MaxFuncs = 4
  MaxAsked = 4
  MaxJobs = 3
INVARIANTS
  ClaimedOnce
  SuccessMeansFinished
PROPERTY CallerReturns
CHECK_DEADLOCK FALSE
