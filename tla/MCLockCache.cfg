SPECIFICATION Spec
CONSTANTS
  c1 = c1
  c2 = c2
  c3 = c3
  t1 = t1
  t2 = t2
  t3 = t3
  FREE = FREE
  Client = {c1, c2}
  Thread = {t1, t2, t3}
  Lock = {1, 2}
  ClientOf <- TwoInFirst
  Nested <- ParentChild
  MaxFaults = 1
INVARIANTS TypeOK MutualExclusion OnlyHolderReturns RevokeReachesHolder QueueIsServed
PROPERTY ImplementsLockService
CHECK_DEADLOCK FALSE
