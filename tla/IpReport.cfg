SPECIFICATION Spec
CONSTANTS
  Chars <- MCChars
  Address = {"a", "b", "p"}
  None = None
  MaxRoutes = 2
  MaxServers = 2
  Links <- MCLinks
INVARIANTS
  TypeOK
  RoutesAreInstalled
  SplitStaysSplit
  
  ServerIsPinned
CHECK_DEADLOCK FALSE
