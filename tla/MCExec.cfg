\* Programs start others with arguments; frames run out.
CONSTANTS
  p1 = p1
  p2 = p2
  p3 = p3
  Process = {p1, p2, p3}
  Program = {"sh", "cat"}
  sections <- MCSections
  contents <- MCContents
  Name <- MCName
  HeaderSize = 3
  PageSize = 16
  NumPhysPages = 5
  UserStackSize = 40
  Access = {0}
  Written = {1}
  Strings = {28, 30}
  Argvs = {0, 16}
  MaxArgs = 3
  BufSize = 4
SPECIFICATION ExecSpec
INVARIANTS FrameExclusive ResidentIntact ArgumentsPassed
SYMMETRY MCChildren
CHECK_DEADLOCK FALSE
