CONSTANTS
  t1 = t1
  t2 = t2
  t3 = t3
  t4 = t4
  NULL = NULL
  Main = t1
  Thread <- MCThreads3
  PriorityLevels = {1}
SPECIFICATION SchedSpec
INVARIANT CarcassNotForgotten
CHECK_DEADLOCK FALSE
