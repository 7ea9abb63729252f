SPECIFICATION Spec
CONSTANTS
  BlockSize = 3
  IntLimit = 9
  Names = {n1}
  Writes <- CoveredWrites
  Reads <- NoReads
  MaxLength = 8
  MaxWrites = 2
  MaxNlink = 2
  MaxCrashes = 0
  MaxFaults = 0
INVARIANTS
  BlocksAreDeleted
CHECK_DEADLOCK FALSE
