SPECIFICATION SubnetSpec
CONSTANTS
  Width = 4
  Needs = {1, 2, 5}
  MaxNeeds = 2
  RouteIps = {}
  Hops = {}
  MaxRoutes = 0
  NoHop = NoHop
INVARIANT AllocatedInside
CHECK_DEADLOCK FALSE
