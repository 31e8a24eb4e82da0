\* Resolver chain with eleven endpoints and a one-worker pool: the health
\* checker submits every dial before it reads a result, so it can block on
\* the pool while the worker blocks on the full result channel, and Close
\* then waits for it forever.
CONSTANTS
  e1 = e1
  e2 = e2
  w1 = w1
  w2 = w2
  Endpoints <- MCManyEndpoints
  InitEndpoints <- MCManyInitEndpoints
  Workers <- MCOneWorker
  QueueCap = 1
  ChCap = 8
  MaxTicks = 1
SPECIFICATION Spec
PROPERTY CloseReturns
CHECK_DEADLOCK FALSE
