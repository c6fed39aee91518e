SPECIFICATION RegistrySpec
CONSTANTS
  ip1 = ip1
  ip2 = ip2
  ip3 = ip3
  Conns <- MCConns
  IPs <- MCIPs
  SrcIp <- MCSrcIp
  IgnoreIps <- MCIgnoreIps
  MaxConnections = 3
  MaxPerIp = 2
  MaxAttempts = 8
INVARIANT RegistryExact
INVARIANT WithinLimits
CHECK_DEADLOCK FALSE
