SPECIFICATION LiveSpec
CONSTANTS
  MaxDrivers = 2
  MaxEvaluations = 1
  MaxNavigations = 1
  MaxDetaches = 1
  MaxTools = 1
  MaxToolUses = 1
  MaxRecordings = 2
  MaxFrames = 2
  MaxCaptures = 2
  MaxChunks = 1
  MaxRecordStops = 1
  MaxPartings = 1
  NetIds = {"r1", "r2"}
  MaxEntries = 1
  MaxEpochs = 2
  MaxRequests = 2
  Handoffs = {"h1", "h2"}
  MaxHandoffNavigations = 1
CHECK_DEADLOCK FALSE
INVARIANTS FreshUntilDetached AttachedWhileHeld OverHoldsNothing CaptureHolds StoredBytesFit ArtifactWhole BlockedWhileRecorded OneOutcome OverlayGoesWithCommand
PROPERTIES LetsGo StopSettles RecordStartEnds
