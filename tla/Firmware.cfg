SPECIFICATION FairSpec
CONSTANTS
  NULL = NULL
  Time <- MCTime
  ChannelId = {0, 1}
  Packet <- MCPacket
  Upload <- MCUpload
  Garbage <- MCGarbage
  Drift <- MCDrift
  W = 6
  MaxLate = 2
  MaxKeys = 4
INVARIANTS
  PlayheadOnTheList
  DrawnKeysDifferOnceMoved
PROPERTIES
  OnlyPassedKeysAreFreed
  EveryRunEnds
