CONSTANTS
  Calls = {c1, c2}
  Main = Main
  None = None
  MaxRetries = 0
  Overlap = "any"
  SlowPrompt = TRUE
  LateReports = FALSE
  SlowCalls = TRUE
SPECIFICATION FairSpec
PROPERTIES
  CallsReturn
  UnownedIsTornDown
