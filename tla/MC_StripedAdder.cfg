\* Adder: two threads calling Inc and Sum (8 calls), with growth up to and past maxCells; every Add returns under weak fairness.
CONSTANTS
  t1 = t1
  t2 = t2
  None = None
  Threads <- MCThreads
  Deltas = {1}
  StoreValues = {}
  MaxCells = 4
  MaxOps = 8
SPECIFICATION Spec
INVARIANT TypeOK SumWithinCall
PROPERTY AdderImplementsSpec AddReturns
CHECK_DEADLOCK FALSE
