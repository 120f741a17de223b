CONSTANTS
  QueueLength = 1
SPECIFICATION FairSpec
INVARIANTS
  GatewayInv
PROPERTIES
  SheetsAreTakenOnce
  LoopRecovers
  PageIsNotForgotten
