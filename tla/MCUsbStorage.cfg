SPECIFICATION FairSpec
INVARIANTS
  TypeOK
  ExclusiveCard
  AppHoldsReleasedVolume
  WritesOnlyInMaintenance
  AcknowledgementIsCurrent
PROPERTIES
  OnlyParkedTaskIsDeleted
  RecoveryIsOneWay
  OperationsReturn
  ImplementsCardAccess
  ImplementsService
CHECK_DEADLOCK FALSE
