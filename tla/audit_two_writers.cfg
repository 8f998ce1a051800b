CONSTANTS
  Proc = {p1, p2}
  Entry = {e1}
  AnchorEvery = 2
  MaxRows = 2
  MaxFaults = 0
SPECIFICATION Spec
INVARIANT ChainVerifies
CHECK_DEADLOCK FALSE
