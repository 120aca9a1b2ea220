SPECIFICATION MCSpec
CONSTANTS
  None = None
  Req = {r1}
  Approval = {r1}
  Proxy = {p1, p2}
  MaxGen = 2
  MaxFrame = 3
SYMMETRY MCSymmetry
CHECK_DEADLOCK FALSE
INVARIANTS
  RequestInvariant
