SPECIFICATION MCSpec
CONSTANTS
  Workers = {w1, w2}
  Kinds = {"prompt", "compact"}
  Rejects = TRUE
  Stops = TRUE
  Finals = {"idle", "error", "closed"}
  MaxTurns = 2
  MaxExecs = 2
  MaxPages = 2
  MaxWork = 1
  MaxLost = 1
  MaxFaults = 1
  MaxConns = 2
  Patchers = {w1, w2}
  Cap = 1
  MaxLen = 2
  MaxAttempt = 3
SYMMETRY MCSymmetry
CHECK_DEADLOCK FALSE
INVARIANTS
  ExecutionInvariant
  OutputInvariant
  NothingBehindTheBarrier
