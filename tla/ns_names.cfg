SPECIFICATION Spec
CONSTANTS
  Names = {"f", "ff"}
  Paths <- PrefixPaths
  StartsWith <- Prefix
  TextWithin <- Prefix
  StackNewline = {FALSE}
  Absent = Absent
  Garbled = Garbled
  Threads = {t1}
  LinkKinds = {"reg"}
  Evictable = {}
  MaxIno = 3
  MaxCrashes = 0
  MaxFaults = 0
INVARIANTS
  ListsKeepTheirStructure
