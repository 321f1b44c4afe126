CONSTANTS
  t1 = t1
  t2 = t2
  NULL = NULL
  Main = t1
  Thread <- MCThreads
  PriorityLevels = {1}
  SystemTick = 10
  UserTick = 1
  TimeSlicers <- MCBoth
  Delay <- MCFixedDelay
SPECIFICATION Spec
PROPERTY IdleMachineHalts
CHECK_DEADLOCK FALSE
