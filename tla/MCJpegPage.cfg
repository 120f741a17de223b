SPECIFICATION PageSpec
CONSTANTS
  Small <- MCSmall
  Large <- MCLarge
  PageHeight = 78
  MaxMcus = 12
  Bright = 1
  ScannerFiles <- MCScannerFiles
INVARIANTS
  PageInv
  OnlyDarkIsLost
CHECK_DEADLOCK FALSE
