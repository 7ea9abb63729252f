SPECIFICATION Spec
CONSTANTS
  Names = {"d", "f", "g"}
  Paths <- TreePaths
  StartsWith <- Same
  TextWithin <- Same
  StackNewline = {FALSE}
  Absent = Absent
  Garbled = Garbled
  Threads = {t1}
  LinkKinds = {"reg"}
  Evictable = {"inode_table", "inode_value", "inode", "block"}
  MaxIno = 3
  MaxCrashes = 1
  MaxFaults = 1
INVARIANTS
  TypeOK
  LinkCountIsExact
  DirectoriesListChildren
  NoOrphanPath
  NoLeakedKey
  LinksAreThere
  NoDanglingPath
  LinkCountCoversEntries
  InosAreFresh
  HashMatchesTable
PROPERTIES
  EntriesAreDurable
  ImplementsFileTree
CHECK_DEADLOCK FALSE
