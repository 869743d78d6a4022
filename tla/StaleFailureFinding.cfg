CONSTANTS
  Calls = {c1, c2, c3}
  Main = Main
  None = None
  MaxRetries = 0
  Overlap = "none"
  SlowPrompt = TRUE
  LateReports = FALSE
  SlowCalls = FALSE
SPECIFICATION Spec
SYMMETRY Symmetry
PROPERTIES
  FailureIsOwn
