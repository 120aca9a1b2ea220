SPECIFICATION LiveSpec
CONSTANTS
  x1 = x1
  x2 = x2
  y1 = y1
  m1 = m1
  m2 = m2
  None = None
PROPERTIES
  CallersReturn
  FencedDisconnectIsSettled
  StopReturns
  CallsReturn
CHECK_DEADLOCK FALSE
