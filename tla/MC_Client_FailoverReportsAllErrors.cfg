\* Error accumulation of the failover loop.
CONSTANTS
  e1 = e1
  e2 = e2
  r1 = r1
  r2 = r2
  Endpoints <- MCEndpoints
  Reqs <- MCReqs
  HeaderActs <- MCHeaderActs
  CtxActs <- MCCtxActs
  ClientBackoff <- MCBackoff
  MaxInt64 = 2147483647
  OpenWindow = 2
  TrialInterval = 1
  IdxBits = 1
  MaxTime = 2
  MaxInstalls = 2
SPECIFICATION Spec
SYMMETRY ReqSymmetry
INVARIANT FailoverReportsAllErrors
CHECK_DEADLOCK FALSE
