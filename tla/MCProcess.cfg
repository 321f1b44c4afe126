CONSTANTS
  t1 = t1
  t2 = t2
  t3 = t3
  t4 = t4
  NULL = NULL
  Main = t1
  Thread <- MCThreads3
  PriorityLevels = {1}
  Semaphore <- MCSemaphores
  Lock = {}
  Condition = {}
  initialValue <- MCInitialValue
  conditionLock <- MCConditionLock
  MaxValue = 2
  MaxSpaces = 2
  ExitStatus = {0, 7}
SPECIFICATION Spec
INVARIANTS JoinReturnsAfterExit SignalledOnce RecordsConsistent
PROPERTIES JoinReturns
CHECK_DEADLOCK FALSE
