SPECIFICATION StoreSpec
CONSTANTS
  Conns = {"c1"}
  IpOf <- MCIpOf
  Bodies = {"h1"}
  NoSha = NoSha
  Keep = 1
  MaxTime = 2
  MaxRows = 2
  MaxImports = 0
  MaxPurges = 1
  MaxRebuilds = 0
INVARIANT PurgeSparesRecent
CHECK_DEADLOCK FALSE
