SPECIFICATION DetectionSpec
CONSTANTS
  none = none
  Null = none
  NoText = none
  NoValue = none
  NoAnswer = NoAnswer
  Times <- MCTimes
  Values <- MCValues
  Window = 2
  MaxEvents = 4
  EventKinds <- MCEventKinds
  RuleFiles <- MCRuleFiles
  MaxRows = 4
  SeenKinds <- MCSeenKinds
  MaxSeen = 4
  MaxDay = 3
  ManyCommands = 2
  ManyAttempts = 3
  ManyPasswords = 2
  ManyPaths = 2
  ManyServices = 3
  ManyEvents = 4
  Fingerprints <- MCFingerprints
  MaxSources = 4
 
INVARIANT CampaignsAreComponents
PROPERTY DetectionOnlyAdds
PROPERTY ScoresMoveOneWay
INVARIANT EvidenceIsPeak
PROPERTY ScanFindsPeak
CHECK_DEADLOCK FALSE
