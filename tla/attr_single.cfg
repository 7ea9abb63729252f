SPECIFICATION Spec
CONSTANTS
  Threads = {t1}
  Aliases = {p}
  XNames = {"user.a", "user.b"}
  XValues <- SimpleValues
  Target <- Nothing
  Starts <- Same
  Ends <- Same
  Occurs <- Same
  Ops <- AllOps
  MaxLinks = 2
  MaxLines = 7
PROPERTIES
  ImplementsAttrStore
