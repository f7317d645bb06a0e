SPECIFICATION ProxySpec
CONSTANTS
  NMembers = 1
  Clients = {1, 2}
  MaxOverlaps = 1
  NONE = NONE
INVARIANT InflightExact
\* A stopped proxy ends.
CHECK_DEADLOCK FALSE
