CONSTANTS
  t1 = t1
  t2 = t2
  t3 = t3
  sem = sem
  lock = lock
  cond = cond
  NULL = NULL
  Main = t1
  Thread <- MCThreads2
  PriorityLevels = {1}
  Semaphore = {sem}
  Lock = {lock}
  Condition = {}
  initialValue <- MCInitialValue
  conditionLock <- MCConditionLock
  MaxValue = 2
  Sector = {0, 1}
  Data = {0, 1}
  diskSemaphore = sem
  diskLock = lock
  MaxCalls = 2
SPECIFICATION Spec
INVARIANTS RequestsInTurn BufferCurrent
PROPERTIES CallsReturn ImplementsSynch
CHECK_DEADLOCK FALSE
