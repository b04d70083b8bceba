SPECIFICATION FairSpec
CHECK_DEADLOCK FALSE
CONSTANTS
  MaxPlays = 4
  MaxUpdates = 2
INVARIANTS
  OnePlayThread
  OneSong
  OneLateUpdate
  NodesPlayTheCurrentAnimation
  StopIsFinal
PROPERTIES
  EveryCommandEnds
