SPECIFICATION BreakerSpec
CONSTANTS
  Callers = {t1, t2}
  FailThreshold = 1
  SuccessThreshold = 1
  Cooldown = 2
  MaxRejected = 1
INVARIANT SingleProbe
