SPECIFICATION MCSpec
CONSTANTS
  Open = {o1}
  Feishu = Feishu
  Cleanup = Cleanup
  Nobody = Nobody
  NoInterest = NoInterest
  MaxGen = 2
  Chats = {b1, b2}
  Other = other
  NoOne = none
  MaxGens = 2
  MaxTurns = 2
  MaxCloses = 1
  Faults = TRUE
  Bindings = {b1, b2}
  Threads = {t1, t2}
  NoThread = none
  Shared = {t1}
  Ending = {t1}
SYMMETRY MCSymmetry
CHECK_DEADLOCK FALSE
INVARIANTS
  BindingsInvariant
  ResumeInvariant
  RootInvariant
