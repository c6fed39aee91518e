SPECIFICATION LoggerSpec
CONSTANTS
  s1 = s1
  Sids <- MCSids
  Sentinel = Sentinel
  QueueMax = 2
  BatchSize = 2
  Deployments <- MCDeployments
  MaxEmits = 4
  MaxErrors = 4
INVARIANT LoggerTypeOK
INVARIANT Conservation
INVARIANT WriterServes
INVARIANT SentinelDrains
INVARIANT LossIsCounted
INVARIANT SinksAgree
PROPERTY AcceptedIsHandled
PROPERTY WriterEnds
CHECK_DEADLOCK FALSE
