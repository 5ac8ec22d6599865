SPECIFICATION Spec
CONSTANTS
  r1 = r1  r2 = r2  r3 = r3
  Run = {r1, r2, r3}
  NoRun = NoRun
  LockStale = 4
  JobTimeout = 2
  Skew = 1
  MaxTime = 8
SYMMETRY Symmetry
INVARIANTS
  TypeOK
  MutualExclusion
  WorkerHoldsLock
PROPERTY
  RefusedOnlyWhileFresh
CHECK_DEADLOCK FALSE
