SPECIFICATION Spec
PROPERTIES
  FailedExposeGrantsNothing
CHECK_DEADLOCK FALSE
