\* Queue: two threads running Offer, Poll, Peek and iterations.
CONSTANTS
  t1 = t1
  t2 = t2
  v1 = v1
  v2 = v2
  v3 = v3
  NoVal = NoVal
  Pending = Pending
  Threads <- MCThreads
  Values <- MCValues
  MaxOps = 5
SPECIFICATION Spec
SYMMETRY ThreadSymmetry
INVARIANT TypeOK NoLostNode
PROPERTY QueueImplementsSpec
CHECK_DEADLOCK FALSE
