SPECIFICATION Spec
CONSTANTS
  Node = {n1, n2, n3}
  NChannels = 2
  MaxBoots = 1
SYMMETRY Interchangeable
INVARIANTS
  ListedNodesAreKnown
  OneListPerNode
  ListedNodesAreOnTheirChannel
  NoKnownNodeIsLeftReceiving
PROPERTIES
  EveryKnownNodeIsListed
