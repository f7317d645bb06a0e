SPECIFICATION ShutdownSpec
CONSTANTS
  NumJobs = 2
  MaxSignals = 1
PROPERTY SignalSetsFlag
\* The program ends.
CHECK_DEADLOCK FALSE
