SPECIFICATION FairSpec
CONSTANTS
  Requests <- WaitingRequests
  Kind <- WaitingKind
  TargetOf <- WaitingTarget
  Expected <- WaitingExpected
  Events = {}
  MaxCompleted = 6
  MaxInputs = 3
  None = None
CHECK_DEADLOCK FALSE
INVARIANT ShutdownHoldsNothing
PROPERTY EveryRequestAnswered
