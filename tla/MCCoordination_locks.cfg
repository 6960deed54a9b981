SPECIFICATION LiveSpec
CONSTANTS
  cliA = cliA
  cliB = cliB
  mcp = mcp
  q1 = q1
  q2 = q2
  q3 = q3
  w1 = w1
  x1 = x1
  x2 = x2
  Windows = {w1}
  Clis = {cliA, cliB, mcp}
  Requests = {q1, q2, q3}
  Mcp = mcp
  Issuer <- MCIssuer
  Kind <- MCKind
  Wants <- MCWants
  Expects <- MCExpects
  WindowSessions = {x1, x2}
  MaxSockets = 2
  MaxRequests = 2
  MaxUpsets = 1
  MaxStarters = 2
  MaxBridges = 3
  MaxMishaps = 1
  Panels = {"p1", "p2"}
  Named = FALSE
  MaxDocuments = 2
  MaxPanelUpsets = 2
  MaxLockTasks = 3
  LockWindows = {"u1", "u2"}
  LockSessions = {"s1", "s2"}
  ElectronUses = {"c1", "c2"}
  MaxElectronSessions = 2
  MaxPageEntries = 3
  MaxAppChanges = 1
  MaxElectronCommands = 4
CHECK_DEADLOCK FALSE
INVARIANT OneWindowPerSession
