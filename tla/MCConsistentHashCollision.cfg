SPECIFICATION RingSpec
CONSTANTS
  Nodes = {a, b}
  VNodes = 2
  RingSize = 4
  Hashes <- AllHashes
  None = None
  KeyError = KeyError
INVARIANT NoKeyError
