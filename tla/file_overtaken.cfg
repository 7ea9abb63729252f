SPECIFICATION Spec
CONSTANTS
  BlockSize = 2
  IntLimit = 7
  Names = {n1, n2, n3}
  Writes <- OneBlock
  Reads <- NoReads
  MaxLength = 2
  MaxWrites = 1
  MaxNlink = 4
  MaxCrashes = 0
  MaxFaults = 0
SYMMETRY NameSymmetry
INVARIANTS
  NamedFileStays
CHECK_DEADLOCK FALSE
