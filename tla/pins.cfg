CONSTANTS
  Proc = {p1, p2}
  Tool = {t1, t2}
  Desc = {a, b}
  NoPin = NoPin
  Suspicious = {b}
  Lists <- MCLists
  Policies <- MCPolicies
  MaxLists = 2
  MaxFaults = 2
SPECIFICATION Spec
INVARIANT TypeOK
INVARIANT QuietWhileRunning
INVARIANT DriftIsReal
INVARIANT DurableFirstSight
PROPERTY StoredPinsAreFinal
CHECK_DEADLOCK FALSE
SYMMETRY Symmetry
