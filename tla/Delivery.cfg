SPECIFICATION Spec
CHECK_DEADLOCK FALSE
CONSTANTS
  NChannels = 3
  MaxKeys = 8
  MaxKeysOnUpdate = 6
  CountMod = 7
  OffsetMod = 55
  N_KEYS_ON_INIT = 5
  MAX_KEYS_PER_PACKET_INIT_MODE = 2
  KEYTIME_MAX = 100
  SIZE_MAX = 200
  Key <- MCKey
  Drawn <- MCDrawn
INVARIANTS
  FilesAreReadAsWritten
  WritesStayInTheBuffer
  NodesReadTheirKeys
PROPERTIES
  EverythingArrives
