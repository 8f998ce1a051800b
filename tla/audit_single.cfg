CONSTANTS
  Proc = {p1}
  Entry = {e1, e2}
  AnchorEvery = 2
  MaxRows = 4
  MaxFaults = 3
SPECIFICATION Spec
INVARIANT ChainVerifies
INVARIANT DamageIsFlagged
SYMMETRY Symmetry
CHECK_DEADLOCK FALSE
