CONSTANTS
  Timeout = 2
  RetryDelay = 1
SPECIFICATION Spec
INVARIANTS
  PanelInv
PROPERTIES
  PanelSteps
