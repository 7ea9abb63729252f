SPECIFICATION Spec
CONSTANTS
  BlockSize = 2
  IntLimit = 7
  Names = {n1, n2, n3}
  Writes <- SomeWrites
  Reads <- PageReads
  MaxLength = 3
  MaxWrites = 2
  MaxNlink = 3
  MaxCrashes = 0
  MaxFaults = 1
SYMMETRY NameSymmetry
INVARIANTS
  ReadsWhatWasThere
  BytesAreInPlace
  FileStaysUnlessOvertaken
CHECK_DEADLOCK FALSE
