SPECIFICATION Spec
CONSTANTS
  Short = short
  Long = long
  NOVALUE = NOVALUE
  NULL = NULL
  Pending = Pending
  Lost = Lost
  Torn = Torn
  Threads = {t1}
  Keys = {k1, k2}
  Values <- BothValues
  Size <- Sizes
  BufferSize = 6
  Faults = {"forget", "refuse", "crash", "restart"}
INVARIANTS
  TypeOK
  RepliesAreInStep
PROPERTIES
  ImplementsKVStore
  EveryCallReturns
