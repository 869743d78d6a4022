CONSTANTS
  Calls = {c1, c2}
  Main = Main
  None = None
  MaxRetries = 0
  Overlap = "disconnect"
  SlowPrompt = FALSE
  LateReports = FALSE
  SlowCalls = FALSE
SPECIFICATION Spec
SYMMETRY Symmetry
INVARIANTS
  StoppedIsTrue
