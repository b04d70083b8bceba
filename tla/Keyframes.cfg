SPECIFICATION Spec
CONSTANTS
  Cell = {c1, c2, c3, c4}
  NULL = NULL
  Time <- MCTime
INVARIANTS
  ListIsSound
PROPERTIES
  ImplementsQueue
