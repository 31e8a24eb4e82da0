\* Dispatcher: two Do calls over two endpoints while the installer republishes.
CONSTANTS
  e1 = e1
  e2 = e2
  r1 = r1
  r2 = r2
  Endpoints <- MCEndpoints
  Reqs <- MCReqs
  HeaderActs <- MCHeaderActs
  CtxActs <- MCCtxActs
  ClientBackoff <- MCBackoff
  MaxInt64 = 2147483647
  OpenWindow = 2
  TrialInterval = 1
  IdxBits = 1
  MaxTime = 2
  MaxInstalls = 2
SPECIFICATION Spec
SYMMETRY ReqSymmetry
VIEW CoreView
INVARIANT TypeOK FailoverAnswers AttemptsAsLimited RetrySleepsWithinJitter
CHECK_DEADLOCK FALSE
