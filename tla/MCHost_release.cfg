SPECIFICATION Spec
CONSTANTS
  Requests <- ReleaseRequests
  Kind <- ReleaseKind
  TargetOf <- ReleaseTarget
  Expected <- ReleaseExpected
  Events = {}
  MaxCompleted = 6
  MaxInputs = 4
  None = None
CHECK_DEADLOCK FALSE
PROPERTIES UnforcedReleaseSparesWork
