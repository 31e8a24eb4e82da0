\* Breaker core: transition table and bucket accounting under two callers.
CONSTANTS
  t1 = t1
  t2 = t2
  Threads <- MCThreads
  UpdateInterval = 1
  SlidingWindow = 2
  OpenWindow = 2
  TrialInterval = 1
  MinRequests = 1
  ThrNum = 1
  ThrDen = 2
  MaxTime = 3
  MaxOps = 5
  MaxStates = 5
  MaxBuckets = 5
SPECIFICATION Spec
SYMMETRY ThreadSymmetry
VIEW MCView
INVARIANT TypeOK NoBucketLost
 
CHECK_DEADLOCK FALSE
