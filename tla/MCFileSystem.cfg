SPECIFICATION Spec
SYMMETRY MCSymmetry
CONSTANTS
  SectorSize = 2
  NumSectors = 9
  Names = {a, b}
  NoName = NoName
  Sizes = {1, 3}
  Buffers <- MCBuffers
  Counts = {2}
  NumDirEntries = 2
  Split = 2
  FDSize = 4
INVARIANTS
  FreeMapExact
  FilesIntact
  ReadsBack
\* Nachos may stop for good in the middle of an operation.
CHECK_DEADLOCK FALSE
