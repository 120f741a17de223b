CONSTANTS
  MaxGeneration = 5
  MaxInvalidations = 4
SPECIFICATION FairSpec
INVARIANTS
  TypeOK
  ReleaseIsEarned
  AnswerIsCurrent
  ReleasedIsQuiet
PROPERTIES
  OnlyInvalidationRevokes
  DeliveredEjectReleases
  ImplementsEvidence
CHECK_DEADLOCK FALSE
