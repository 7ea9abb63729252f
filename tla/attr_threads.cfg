SPECIFICATION Spec
CONSTANTS
  Threads = {t1, t2}
  Aliases = {p, q}
  XNames = {"trusted.a", "trusted.b"}
  XValues <- EmptyOrNot
  Target <- Symlink
  Starts <- Same
  Ends <- Same
  Occurs <- Same
  Ops <- XattrOps
  MaxLinks = 2
  MaxLines = 9
INVARIANTS
  LinesArePairs
  SymlinkKeepsTarget
