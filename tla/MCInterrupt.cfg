CONSTANTS
  t1 = t1
  t2 = t2
  NULL = NULL
  Main = t1
  Thread <- MCThreads
  PriorityLevels = {1}
  SystemTick = 10
  UserTick = 1
  TimeSlicers <- MCRoundRobin
  Delay <- MCDelay
SPECIFICATION Spec
INVARIANTS PendingConsistent HaltsOnlyWhenQuiet
PROPERTIES NoInterruptLost IdleMachineHalts ImplementsScheduler
CHECK_DEADLOCK FALSE
