CONSTANTS
  Total = 4
  MaxPolls = 5
SPECIFICATION Spec
INVARIANTS
  SessionInv
  ResultInv
PROPERTIES
  SessionEnds
CHECK_DEADLOCK FALSE
