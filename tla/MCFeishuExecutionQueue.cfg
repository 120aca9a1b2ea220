CONSTANTS
  Binding = {b1, b2}
  Root = {r1, r2}
  Msg = {m1, c1}
  Compact = {c1}
  MaxItems = 3
  MaxLife = 2
  NoRoot = NoRoot
  NoBinding = NoBinding
  NoDrain = NoDrain
SPECIFICATION Spec
SYMMETRY MCSymmetry
INVARIANTS
  QueueInvariant
