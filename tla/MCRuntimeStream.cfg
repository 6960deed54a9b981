SPECIFICATION PartsSpec
CONSTANTS
  MaxEpoch = 2
  MaxStream = 3
  MaxHellos = 2
  MaxSent = 5
  MaxMutations = 1
  MaxChanges = 3
  MaxFailures = 2
  RouteSessions = {"s1", "s2"}
  RoutePorts = {1, 2}
  NoSession = NoSession
  NoPort = NoPort
  MaxJobs = 1
  MaxUpdates = 4
  MaxMishaps = 1
  MaxPageExecutions = 2
  MaxPageCalls = 1
  MaxPageSnapshots = 1
  MaxPageEnds = 1
CHECK_DEADLOCK FALSE
INVARIANTS ViewFollowsStream TranscriptMatches CheckpointIsWhole QuietIsSaved ConnectedIsOwned RegistryIsAccepted ActsForSomebody
PROPERTY RevisionNeverRegresses
