SPECIFICATION Spec
CONSTANTS
  Names = {"c", "d", "f", "g"}
  Paths <- TwinPaths
  StartsWith <- Same
  TextWithin <- Same
  StackNewline = {FALSE}
  Absent = Absent
  Garbled = Garbled
  Threads = {t1, t2}
  LinkKinds = {"reg"}
  Evictable = {}
  MaxIno = 5
  MaxCrashes = 0
  MaxFaults = 0
INVARIANTS
  InosAreFresh
