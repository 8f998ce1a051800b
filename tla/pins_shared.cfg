CONSTANTS
  Proc = {p1, p2}
  Tool = {t1}
  Desc = {a, b}
  NoPin = NoPin
  Suspicious = {}
  Lists <- MCLists
  Policies <- MCBlockPolicy
  MaxLists = 2
  MaxFaults = 0
SPECIFICATION Spec
INVARIANT QuietForever
CHECK_DEADLOCK FALSE
