CONSTANTS
  Numbers = {1, 2}
  Pages = {1, 2, 3}
  MaxEdits = 2
SPECIFICATION Spec
INVARIANTS
  CaptureInv
PROPERTIES
  OthersAreUntouched
  ImplementsArchive
CHECK_DEADLOCK FALSE
