\* Resolver chain: NewClient's push and wait, three health-check rounds through a two-worker pool, the LB installer, and Close; the program ends after Close, so a final state with nothing enabled is its end.
CONSTANTS
  e1 = e1
  e2 = e2
  w1 = w1
  w2 = w2
  Endpoints <- MCEndpoints
  InitEndpoints <- MCInitEndpoints
  Workers <- MCWorkers
  QueueCap = 1
  ChCap = 8
  MaxTicks = 3
SPECIFICATION Spec
INVARIANT TypeOK ReadyMeansInstalled ClosedLeavesNothingRunning
PROPERTY CloseReturns
CHECK_DEADLOCK FALSE
