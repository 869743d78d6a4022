CONSTANTS
  Calls = {c1, c2}
  Main = Main
  None = None
  MaxRetries = 2
  Overlap = "disconnect"
  SlowPrompt = TRUE
  LateReports = FALSE
  SlowCalls = TRUE
SPECIFICATION FairSpec
INVARIANTS
  TypeOK
  StopIsFinal
  ActivityAccounted
  OneCrosswire
  LiveIsOwned
PROPERTIES
  DeathIsHandled
