SPECIFICATION DriftSpec
CHECK_DEADLOCK FALSE
CONSTANTS
  PlayingNode = {n1, n2}
  Skew <- MCSkew
  Delay <- MCDelay
  Work <- MCWork
  Pings = 3
  Tolerance = 1
  MaxInt = 7
INVARIANTS
  ToldNodesAreInTime
  NoCorrectionIsNeeded
