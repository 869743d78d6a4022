CONSTANTS
  Calls = {c1, c2}
  Main = Main
  None = None
  MaxRetries = 0
  Overlap = "none"
  SlowPrompt = FALSE
  LateReports = FALSE
  SlowCalls = FALSE
SPECIFICATION Spec
SYMMETRY Symmetry
PROPERTIES
  ConfigPinsOwnGateway
