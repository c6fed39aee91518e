SPECIFICATION FairSpec
CONSTANTS
  t = t
  s = s
  x = x
  ipA = ipA
  ipB = ipB
  Conns <- MCConnsOne
  Sids <- MCConnsOne
  IPs <- MCIPs
  SrcIp <- MCSrcIp
  IgnoreIps <- MCIgnoreIps
  MaxConnections = 2
  MaxPerIp = 2
  MaxAttempts = 1
  Sentinel = Sentinel
  QueueMax = 2
  BatchSize = 2
  Deployments <- MCDeployments
  MaxEmits = 0
  MaxErrors = 0
  Services <- MCServices
  ServiceOf <- MCServiceOf
  FullMode <- MCFullMode
  MaxEvents = 2
  WaitsForClients = FALSE
INVARIANT BudgetKept
PROPERTY SessionsEnd
PROPERTY ShutdownEnds
CHECK_DEADLOCK FALSE
