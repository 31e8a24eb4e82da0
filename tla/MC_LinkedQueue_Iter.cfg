\* Queue: one thread offers, polls and peeks while the other iterates,
\* unlinking deleted nodes and removing elements; every call returns.
CONSTANTS
  t1 = t1
  t2 = t2
  v1 = v1
  v2 = v2
  v3 = v3
  NoVal = NoVal
  Pending = Pending
  Threads <- MCThreads
  Values <- MCValues
  MaxOps = 7
SPECIFICATION MutatorAndIteratorSpec
INVARIANT NoLostNode
PROPERTY QueueImplementsSpec CallsReturn
CHECK_DEADLOCK FALSE
