SPECIFICATION OutputSpec
CONSTANTS
  Patchers = {w1}
  Cap = 1
  MaxLen = 2
  MaxAttempt = 2
CHECK_DEADLOCK FALSE
INVARIANTS
  RefusedHadNoEffect
