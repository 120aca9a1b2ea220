SPECIFICATION MCSpec
CONSTANTS
  Worker = {w1, w2}
  MaxGen = 3
  MaxReset = 1
  MaxQueue = 1
  MaxDrop = 1
  Client = {c1, c2}
  NoClient = NoClient
  NoRes = NoRes
  MaxSocket = 2
  MaxAttempt = 2
  MaxReq = 1
  MaxNote = 1
  MaxFail = 1
  MaxStop = 1
SYMMETRY MCSymmetry
CHECK_DEADLOCK FALSE
INVARIANTS
  GateInvariant
  RpcInvariant
PROPERTIES
  GateSteps
