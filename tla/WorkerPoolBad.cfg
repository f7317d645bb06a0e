SPECIFICATION PoolFairSpec
CONSTANTS
  Workers = {w1, w2}
  NumTasks = 3
  MaxSize = 2
  BadTasks = {0, 1}
  SHUTDOWN = SHUTDOWN
PROPERTY NoWorkLost
\* With every worker dead main waits in join() for ever.
CHECK_DEADLOCK FALSE
