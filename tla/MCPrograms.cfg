SPECIFICATION ProgramsSpec
CONSTANTS
  Workers = {1, 2, 3}
  NumTasks = 4
  MaxSize = 2
  BadTasks = {1}
  SHUTDOWN = SHUTDOWN
  NumJobs = 3
  MaxSignals = 1
  MaxRestarts = 3
  BaseBackoff = 1
  BackoffFactor = 2
  ExitCodes = {0, 1}
  Callers = {1, 2, 3}
  FailThreshold = 2
  SuccessThreshold = 2
  Cooldown = 2
  MaxRejected = 1
  EchoClients = {1, 2, 3}
  Message <- MCMessage
  SendBuf = 2
  Impatient = {3}
  Listener = 0
  Pieces <- MCPieces
  QName <- MCQName
  Sub <- MCSub
  MaxAnswers = 2
  MaxTurns = 5
  JunkBytes = {0, 1, 192, 3, 4}
  MaxJunk = 4
  Threads = {1, 2, 3}
  Locks = {1, 2, 3}
  MaxId = 3
  NoThread = 0
  Ring <- MCRing
  NMembers = 2
  Clients = {1, 2}
  MaxOverlaps = 0
  NONE = NONE
INVARIANTS
  DrainedBeforePills
  NothingLost
  SupervisorOutcome
  EchoExact
  BodyFramed
  DnsParsed
  AlwaysReproduced
  NoCircularWait
PROPERTIES
  LegalTransitions
  OpenShedsLoad
  CircuitHeals
  ProgramsEnd
  WireEnds
  LocksGetThere
  OneThenAll
  DownDrained
  RoundRobinServesAll
\* Most of the programs end.
CHECK_DEADLOCK FALSE
