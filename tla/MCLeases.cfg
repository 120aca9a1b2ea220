SPECIFICATION MCSpec
CONSTANTS
  feishu = feishu
  web = web
  f1 = f1
  Thread = {t1}
  Client = {f1, w1, w2}
  Holder = {feishu, web}
  HolderOf <- MCHolderOf
  OffLoop = {w2}
  Turn = {u1, u2}
  Pid = {p1, p2}
  MaxLease = 2
  MaxIncarnation = 2
  NoLease = NoLease
  NoTurn = NoTurn
  NoPid = NoPid
  NoReceipt = NoReceipt
  Threads = {m1}
  Pids = {q1, q2}
  Instance = {i1, i2}
  Participant = {x1}
  MaxGen = 2
  MaxStamp = 2
  NoRecord = NoRecord
  NoEntry = NoEntry
  NoHolder = NoHolder
SYMMETRY MCSymmetry
CHECK_DEADLOCK FALSE
INVARIANTS
  MainTurnInvariant
  LedgerInvariant
PROPERTIES
  MainTurnSteps
  CasReleaseIsExact
  ImplementsRuntimeOwnership
