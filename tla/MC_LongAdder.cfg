\* NewLongAdder over every Type: three threads, so that two can be in
\* JDKAdder's checkCells at once (base fallback, a lost casCellsBusy) while
\* a third adds, and two writers and a reader meet at MutexAdder's lock.
CONSTANTS
  t1 = t1
  t2 = t2
  t3 = t3
  None = None
  Threads <- MCThreeThreads
  Deltas = {1}
  StoreValues = {0, 2}
  MaxCells = 4
  CellCount = 2
  MaxOps = 5
SPECIFICATION LongAdderSpec
SYMMETRY ThreeSymmetry
INVARIANT LongAdderTypeOK SumsWithinCall
PROPERTY LongAdderImplementsSpec
CHECK_DEADLOCK FALSE
