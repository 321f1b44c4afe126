CONSTANTS
  t1 = t1
  t2 = t2
  t3 = t3
  t4 = t4
  sem = sem
  lock = lock
  cond = cond
  NULL = NULL
  Main = t1
  Thread <- MCThreads4
  PriorityLevels = {1}
  Semaphore <- MCSemaphores
  Lock <- MCLocks
  Condition <- MCConditions
  initialValue <- MCInitialValue
  conditionLock <- MCConditionLock
  MaxValue = 2
SYMMETRY MCSymmetry
SPECIFICATION SynchSpec
INVARIANTS QueuesHoldSleepers SemaphoreNoLostWakeup MutualExclusion LockKnowsOwner LockNoLostWakeup DispatcherConsistent
PROPERTIES ImplementsMonitor ImplementsScheduler DestroyedSafely
CHECK_DEADLOCK FALSE
