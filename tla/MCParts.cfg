SPECIFICATION Spec
CONSTANTS
  Thread = {t1, t2, t3}
  Lock <- MCLock
  Condition <- MCCondition
  conditionLock <- MCConditionLock
  MaxCalls = 4
  ListLock = "list"
  listEmpty = "listEmpty"
  Keys = {0, 1, 2}
  Names = {"x", "y"}
  MaxItems = 3
  ConsoleLock = "console"
  Chars = {"a", "eof"}
  EOF = "eof"
  MaxTyped = 3
  Node = {"m", "n"}
  MaxSent = 3
  SectorsPerTrack = 4
  NumTracks = 3
  RotationTime = 3
  SeekTime = 5
  MaxTicks = 30
  Threads = {"main", "a", "b"}
  Main = "main"
  Values = {v, w}
  Junk = junk
  StackSize = 24
  t1 = t1
  t2 = t2
  t3 = t3
  t4 = t4
  t5 = t5
  t6 = t6
  NULL = NULL
  First = t1
  Runnable <- MCThreads6
  priorityLevel <- MCMixed
  MaxReady = 5
  ByteBits = 2
  PageSize = 8
  NumPhysPages = 3
  GPRegs = {0, 1, 2, 3, 31}
  Pages = {0, 1, 2}
  Image <- MCImage
  Texts <- MCTexts
  RegisterValues <- MCValues
  SysRet = {9}
INVARIANTS
  ListsRepresent
  CharsDelivered
  PutsInTurn
  DeliveredInOrder
  LatencyExact
  ThreadsUndisturbed
  MultExact
PROPERTIES
  ItemsReachRemovers
  PutCharReturns
  MostUrgentFirst
  EventuallyRescheduled
  ImplementsInterpreter
CHECK_DEADLOCK FALSE
