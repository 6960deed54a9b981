CONSTANTS
  MaxEpoch = 2
  MaxStream = 6
  MaxUpsets = 2
  MaxHellos = 9
  MaxMutations = 0
  MaxCalls = 4
  MaxAnnounced = 0
  MaxDrops = 0
  MaxDeaths = 1
  MaxReopens = 1
  MaxTimeouts = 1
  MaxPrompts = 1
  MaxAborts = 1
SPECIFICATION RouteSpec
CHECK_DEADLOCK FALSE
INVARIANT AttachedIsFresh
PROPERTY RefinesStream
