CONSTANTS
  MaxEpoch = 1
  MaxStream = 10
  MaxUpsets = 3
  MaxHellos = 9
  MaxMutations = 0
  MaxCalls = 4
  MaxAnnounced = 2
  MaxDrops = 1
  MaxDeaths = 1
  MaxReopens = 0
  MaxTimeouts = 0
  MaxPrompts = 1
  MaxAborts = 0
SPECIFICATION LiveSpec
CHECK_DEADLOCK FALSE
PROPERTY PanelCatchesUp
