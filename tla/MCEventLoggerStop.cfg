SPECIFICATION LoggerSafety
CONSTANTS
  s1 = s1
  Sids <- MCSids
  Sentinel = Sentinel
  QueueMax = 2
  BatchSize = 2
  Deployments <- MCDeployments
  MaxEmits = 4
  MaxErrors = 4
INVARIANT StopDrains
CHECK_DEADLOCK FALSE
