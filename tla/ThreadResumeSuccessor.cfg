SPECIFICATION Spec
CONSTANTS
  Open = {o1}
  Feishu = Feishu
  Cleanup = Cleanup
  Nobody = Nobody
  NoInterest = NoInterest
  MaxGen = 2
CHECK_DEADLOCK FALSE
INVARIANTS
  SuccessorKeepsLease
