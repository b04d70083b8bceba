SPECIFICATION FairSpec
CHECK_DEADLOCK FALSE
PROPERTIES
  PlayReturns
