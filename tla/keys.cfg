CONSTANTS
  Proc = {p1, p2}
  Key = {k1, k2, k3}
  Absent = Absent
  Empty = Empty
  Backends = {"absent", "present", "flaky"}
  MaxStarts = 2
  MaxFaults = 1
SPECIFICATION FairSpec
INVARIANT TypeOK
INVARIANT PinnedKeyAgreement
INVARIANT StoredPairMatches
INVARIANT RunningPairFits
PROPERTY FilesAreFinal
PROPERTY ProvisionedComesUp
CHECK_DEADLOCK FALSE
