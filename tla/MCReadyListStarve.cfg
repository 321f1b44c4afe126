CONSTANTS
  t1 = t1
  t2 = t2
  t3 = t3
  t4 = t4
  t5 = t5
  t6 = t6
  NULL = NULL
  First = t1
  Runnable <- MCThreads5
  priorityLevel <- MCEqual
  MaxReady = 4
SPECIFICATION ReadySpec
PROPERTY EventuallyRescheduled
