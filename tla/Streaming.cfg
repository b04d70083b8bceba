SPECIFICATION Spec
CONSTANTS
  Channel <- MCChannel
  Animation <- MCAnimation
  N_KEYS_ON_INIT = 3
  KeysPerPage = 1
  KEYTIME_MAX = 10
  SIZE_MAX = 15
  Garbage = 99
  MaxDelay = 1
  MaxError = 1
  MaxLag = 1
  MaxLost = 1
\* The show is over.
CHECK_DEADLOCK FALSE
INVARIANTS
  ShowIsComplete
  LossLeavesGapsOnly
PROPERTY ShowEnds
