SPECIFICATION RingSpec
CONSTANTS
  Nodes = {a, b}
  VNodes = 2
  RingSize = 7
  Hashes <- InjectiveHashes
  None = None
  KeyError = KeyError
INVARIANT PointOwned
