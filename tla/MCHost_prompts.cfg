SPECIFICATION Spec
CONSTANTS
  Requests <- PromptRequests
  Kind <- PromptKind
  TargetOf <- PromptTarget
  Expected <- PromptExpected
  Events = {"event1"}
  MaxCompleted = 2
  MaxInputs = 4
  None = None
CHECK_DEADLOCK FALSE
INVARIANTS OnePromptPerSession NoStaleBusyFlag RetryFindsFirstAttempt
PROPERTIES AcknowledgedAbortWins ReplaceIsCompareAndSwap
