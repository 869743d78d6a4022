CONSTANTS
  Calls = {c1, c2, c3}
  Main = Main
  None = None
  MaxRetries = 1
  Overlap = "none"
  SlowPrompt = FALSE
  LateReports = TRUE
  SlowCalls = FALSE
SPECIFICATION Spec
SYMMETRY Symmetry
INVARIANTS
  StartedIsTrue
