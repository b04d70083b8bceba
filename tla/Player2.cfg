SPECIFICATION FairSpec
CHECK_DEADLOCK FALSE
INVARIANTS
  PlayerOutlivesItsThread
PROPERTIES
  PlayReturnsAfterTheThreadIsReady
  PlayerIsASong
