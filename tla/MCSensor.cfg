SPECIFICATION Spec
CONSTANTS
  t = t
  s = s
  x = x
  ipA = ipA
  ipB = ipB
  Conns <- MCConns
  Sids <- MCConns
  IPs <- MCIPs
  SrcIp <- MCSrcIp
  IgnoreIps <- MCIgnoreIps
  MaxConnections = 2
  MaxPerIp = 2
  MaxAttempts = 1
  Sentinel = Sentinel
  QueueMax = 4
  BatchSize = 2
  Deployments <- MCDeployments
  MaxEmits = 0
  MaxErrors = 0
  Services <- MCServices
  ServiceOf <- MCServiceOf
  FullMode <- MCFullMode
  MaxEvents = 2
  WaitsForClients = TRUE
INVARIANT BooksAreSound
INVARIANT RefusalMeansLoss
INVARIANT LoggerOutlivesSessions
CONSTRAINT NoLossYet
CHECK_DEADLOCK FALSE
