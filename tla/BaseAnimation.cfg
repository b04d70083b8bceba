SPECIFICATION Spec
CONSTANTS
  Channel <- MCChannel
  Animation <- MCAnimation
  PageSize <- MCPageSize
  MinKeys = 1
  MaxKeys = 4
  KEYTIME_MAX = 3
  SIZE_MAX = 7
  Garbage = Garbage
INVARIANTS
  NothingLostOrRepeated
  KeyoutEndsWithTheLastKey
PROPERTIES
  KeyoutNeverGoesBack
  ImplementsCursor
CHECK_DEADLOCK FALSE
