SPECIFICATION Spec
CONSTANTS
  k1 = k1
  k2 = k2
  r1 = r1
  r2 = r2
  Keys <- MCKeys
  Rank <- MCRank
  Statuses = {"new", "closed"}
  Runs <- MCRuns
  Deployments <- MCDeployments
  Callers = {"api", "make"}
  MaxHit = 2
  MaxTriggers = 3
  MaxPurges = 1
  MayFail = FALSE
INVARIANT RunsDoNotRepage
CHECK_DEADLOCK FALSE
