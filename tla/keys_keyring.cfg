CONSTANTS
  Proc = {p1, p2}
  Key = {k1, k2}
  Absent = Absent
  Empty = Empty
  Backends = {"present"}
  MaxStarts = 1
  MaxFaults = 0
SPECIFICATION Spec
INVARIANT RunningPairMatches
CHECK_DEADLOCK FALSE
