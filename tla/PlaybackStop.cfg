SPECIFICATION Spec
CHECK_DEADLOCK FALSE
CONSTANTS
  MaxPlays = 1
  MaxUpdates = 1
INVARIANTS
  StopStops
