CONSTANTS
  plain = plain
  denied = denied
  gated = gated
  d1 = d1
  d2 = d2
  Tool = {plain, denied, gated}
  DenyTools = {denied}
  ApprovalTools = {denied, gated}
  Desc = {d1, d2}
  NoPin = NoPin
  Bodies <- MCBodies
  Answers <- MCAnswers
  Sizes = {2, 5}
  Limit = 3
  ChunkSize = 2
  MaxPosts = 2
  MaxTraffic = 3
  MaxFaults = 1
SPECIFICATION FairSpec
INVARIANT TypeOK
INVARIANT PolicyUpheld
INVARIANT BlockedNeverAnswered
INVARIANT DriftOnRecord
INVARIANT UnseenHasCause
PROPERTY KeepsPromise
PROPERTY EveryPostReturns
PROPERTY StreamFlows
CHECK_DEADLOCK FALSE
