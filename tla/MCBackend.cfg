SPECIFICATION BackendSpec
CONSTANTS
  Conns = {"c1", "c2"}
  IpOf <- MCIpOf
  Bodies = {"h1", "h2"}
  NoSha = NoSha
  Keep = 1
  MaxTime = 2
  MaxRows = 3
  MaxImports = 1
  MaxPurges = 1
  MaxRebuilds = 1
  Bucket = 2
  Hours = 1
  Limit = 1
  LiveLimit = 2
  MAX_ROWS = 2
  Slots = {1, 2}
  Loads = {1, 2, 3}
  MaxDeps = 2
  Threads = {"writer", "api"}
  CityDbs <- MCCityDbs
  Feeds <- MCFeeds
  Address = "a"
  NoIndex = NoIndex
  MaxLookups = 1
  MaxReloads = 1
  MaxRefreshes = 1
 
 
INVARIANT HookIsHonest
INVARIANT CachesAreSound
 
INVARIANT ChartsAgree
INVARIANT PagesMissNothing
CHECK_DEADLOCK FALSE
PROPERTY WriterGoesOn
