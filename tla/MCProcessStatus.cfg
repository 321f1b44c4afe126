CONSTANTS
  t1 = t1
  t2 = t2
  t3 = t3
  t4 = t4
  NULL = NULL
  Main = t1
  Thread <- MCThreads2
  PriorityLevels = {1}
  Semaphore <- MCSemaphores
  Lock = {}
  Condition = {}
  initialValue <- MCInitialValue
  conditionLock <- MCConditionLock
  MaxValue = 2
  MaxSpaces = 1
  ExitStatus = {0, 7}
SPECIFICATION Spec
INVARIANT JoinReturnsStatus
CHECK_DEADLOCK FALSE
