CONSTANTS
  QuitTimer = 6
SPECIFICATION Spec
INVARIANTS
  TypeOK
  QuitsOnlyWhenQuiet
PROPERTIES
  QuitsWhenIdle
