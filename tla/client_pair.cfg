SPECIFICATION Spec
CONSTANTS
  Short = short
  Long = long
  NOVALUE = NOVALUE
  NULL = NULL
  Pending = Pending
  Lost = Lost
  Torn = Torn
  Threads = {t1, t2}
  Keys = {k1, k2}
  Values <- BothValues
  Size <- Sizes
  BufferSize = 6
  Faults = {"forget", "restart"}
INVARIANTS
  QuietSocketIsEmpty
