CONSTANTS
  MaxEpoch = 1
  MaxStream = 9
  MaxUpsets = 3
  MaxHellos = 9
  MaxMutations = 0
  MaxCalls = 4
  MaxAnnounced = 0
  MaxDrops = 0
  MaxDeaths = 0
  MaxReopens = 0
  MaxTimeouts = 0
  MaxPrompts = 1
  MaxAborts = 1
SPECIFICATION LongPromptSpec
CHECK_DEADLOCK FALSE
PROPERTY AbortEndsPrompt
