SPECIFICATION ChattySpec
CONSTANTS
  Served <- MCServed
  MaxEvents = 4
  MaxBytes = 5
  LoginSegs <- MCLoginSegs
  ShellLines <- MCShellLines
  FtpUsers <- MCFtpUsers
  Requests <- MCRequests
  DockerRequests <- MCDockerRequests
  MAX_HEADERS = 3
  MaxRequests = 3
  RedisCommands <- MCRedisCommands
  MAX_ARRAY_LEN = 2
  MaxCommands = 4
  MySQLNames <- MCMySQLNames
  SshUsers <- MCSshUsers
  SshLines <- MCSshLines
  KexPackets <- MCKexPackets
INVARIANT LoginsAreExplained
INVARIANT RecordedAsServed
INVARIANT FloodIsCut
INVARIANT HeardAsMeant
PROPERTY TalkEnds
CHECK_DEADLOCK FALSE
