SPECIFICATION DemoSpec
CONSTANTS
  Threads = {1, 2}
  Locks = {1, 2}
  MaxId = 2
  NoThread = 0
  Ring <- MCRing
PROPERTY BothComplete
