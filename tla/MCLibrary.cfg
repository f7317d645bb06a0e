SPECIFICATION LibrarySpec
CONSTANTS
  Nodes = {a, b, c}
  VNodes = 2
  RingSize = 7
  Hashes <- InjectiveHashes
  None = None
  KeyError = KeyError
  Keys = {k1, k2, k3, k4}
  Values = {0, 1}
  NoValue = NoValue
  CacheCapacity = 3
  MaxCount = 0
  Head_ = Head_
  Tail_ = Tail_
  Width = 4
  Needs = {0, 1, 2, 3, 7}
  MaxNeeds = 3
  RouteIps = {0, 6, 7}
  Hops = {h1, h2}
  MaxRoutes = 3
  NoHop = NoHop
  Rate = 2
  BucketCapacity = 5
  Costs = {1, 3, 6}
  Limit = 2
  Window = 3
  MaxTime = 9
  EdgeRate = 2
  EdgeCapacity = 3
  EdgeCosts = {1, 2}
  MaxNow = 4
  MaxGranted = 10
  Nonces = {n1, n2}
  MaxSkew = 1
  NonceTtl = 4
  MaxBack = 1
  Horizon = 7
  PrimeBits = 8
  Draws = {3, 41, 57, 71, 83, 89}
  TrialPrimes = {2, 3}
  Rounds = 2
  PublicExp = 7
  Radix = 8
  Serials = {0, 128, 32766}
  CnLens = {0, 9, 128, 256}
  Years = {2026, 2039}
  Boots <- MCBoots
  Activities <- MCActivities
  WarnNum = 1
  WarnDen = 2
  Threshold = 2
  Averages = {0, 1, 2, 3}
  Samples = 3
  Lo = 1
  Hi = 2
  ServerPort = 9
  Remotes = {r1, r2}
  UtilNum = 4
  UtilDen = 5
  TopCount = 1
  WarnAt <- MCWarnAt
  MaxSockets = 4
  WarnDays = 4
  CritDays = 2
  Lifetime = 6
  MaxGap = 3
  MaxDay = 14
  RssCount = 5
  Sizes = {0, 1, 2, 3, 4}
  MB = 2
  Delays = {1, 2}
  NumProducers = 2
  PerProducer = 2
  c1 = c1
  c2 = c2
  Consumers <- MCConsumers
  Main = Main
  DONE = DONE
  Threads <- MCThreads
  Items <- MCItems
  Capacity = 2
  MaxPuts = 0
  MaxSize = 2
  NoThread = NoThread
  NoItem = NoItem
  NMembers = 1
  Clients = {1, 2}
  MaxOverlaps = 2
  NONE = NONE
INVARIANTS
  NoLostWakeup
  RunsVerified
  InflightKept
  RingConsistent
  LookupCorrect
  RateBound
  NoTokenLost
  WindowQuota
  EdgeBound
  AcceptedOnce
  SubnetsSound
  LongestPrefixMatch
  PrimalityTest
  KeyWorks
  CertDecodes
  SamplersHonest
  SocketAlarms
  WarnedBeforeExpiry
  TrendJudged
PROPERTIES
  BufferEnds
  ImplementsChannel
  MinimalRemapping
  ImplementsLRU
\* The histories of the limiters and the tools are bounded.
CHECK_DEADLOCK FALSE
