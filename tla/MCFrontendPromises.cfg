SPECIFICATION LiveSpec
CONSTANTS
  x1 = x1
  x2 = x2
  y1 = y1
  y2 = y2
  m1 = m1
  m2 = m2
  None = None
PROPERTIES
  DrainReturns
  PendingResolves
  DeferredReleaseIsRetried
  AcceptedPromptResolves
  LostCompletionRetires
CHECK_DEADLOCK FALSE
