SPECIFICATION MCSpec
CONSTANTS
  Thread = {t1, t2, t3}
  MaxTask = 2
  MaxWorker = 2
  Threads = {m1, m2}
  Loop = Loop
  Receipt = {r1, r2}
  NoThread = NoThread
  MaxCalls = 4
  MaxControls = 2
  MaxFail = 2
SYMMETRY MCSymmetry
INVARIANTS
  LoopInvariant
  LifecycleInvariant
PROPERTIES
  ImplementsSerialExecutor
