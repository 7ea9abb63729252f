SPECIFICATION Spec
CONSTANTS
  Threads = {t1}
  pathA = pathA
  pathB = pathB
  pathC = pathC
  pathX = pathX
  pathY = pathY
  Root = root
  Paths = {root, pathA, pathB, pathC, pathX, pathY}
  Null = Null
  Hash <- SixPaths
  InitialBuckets = 1
  Capacity = 2
  MaxBuckets = 16
SYMMETRY Colliding
INVARIANTS
  TypeOK
  HASH_FSCK
  EntriesAreFound
