SPECIFICATION Spec
CONSTANTS
  Tabs = {b1, b2}
  MaxTokens = 1
  MaxEndpoints = 1
  MaxPending = 2
CHECK_DEADLOCK FALSE
INVARIANTS
  Registered
  LabelTrue
PROPERTIES
  DeadGo
