SPECIFICATION FairSpec
CONSTANTS
  Task = {k1, k2, k3}
  Thread = {t1, t2, t3}
  Lock = {l1}
  Bounded = {l1}
  Bound = 2
  NoTask = NoTask
  NoLock = NoLock
  MaxSize <- Limit
  InitMax = 1
  Limits = {1, 2}
  InitLocked = {0}
INVARIANTS LockExclusion IdleMeansNoWork WaitingIsHandled QueueSizeExact
PROPERTIES ImplementsTaskQueue 
