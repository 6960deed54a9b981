CONSTANTS
  MaxEpoch = 1
  MaxStream = 9
  MaxUpsets = 3
  MaxHellos = 9
  MaxMutations = 0
  MaxCalls = 4
  MaxAnnounced = 0
  MaxDrops = 0
  MaxDeaths = 0
  MaxReopens = 1
  MaxTimeouts = 0
  MaxPrompts = 0
  MaxAborts = 0
SPECIFICATION LiveSpec
CHECK_DEADLOCK FALSE
PROPERTY PanelSettles
