SPECIFICATION Spec
CONSTANTS
  BlockSize = 3
  IntLimit = 9
  Names = {n1}
  Writes <- Requests
  Reads <- NoReads
  MaxLength = 11
  MaxWrites = 2
  MaxNlink = 2
  MaxCrashes = 1
  MaxFaults = 0
INVARIANTS
  TypeOK
  ZeroBeyondEnd
  WrittenIfCovered
PROPERTIES
  ImplementsByteFile
CHECK_DEADLOCK FALSE
