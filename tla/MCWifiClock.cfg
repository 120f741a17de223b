CONSTANTS
  MaxDrops = 2
SPECIFICATION WifiSpec
INVARIANTS
  WifiInv
PROPERTIES
  ScannerIsReached
CHECK_DEADLOCK FALSE
