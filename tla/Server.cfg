SPECIFICATION FairSpec
CHECK_DEADLOCK FALSE
CONSTANTS
  MaxConn = 3
  Fd = {1, 2}
  Backlog = 1
INVARIANTS
  OneOwner
  NothingLeaks
  AcceptorNeverWaits
  ExitIsPrompt
PROPERTIES
  EveryCommandRunsOrIsRefused
  SlotComesBack
  ProgramEnds
