CONSTANTS
  plain = plain
  denied = denied
  gated = gated
  Tool = {plain, denied, gated}
  DenyTools = {denied}
  ApprovalTools = {denied, gated}
  Frames <- MCFrames
  BufferSize = 1
  PipeSize = 1
  MaxSent = 2
  MaxFaults = 2
SPECIFICATION FairSpec
INVARIANT TypeOK
INVARIANT PolicyUpheld
INVARIANT InOrder
INVARIANT LossHasCause
INVARIANT AnsweredByExit
PROPERTY KeepsPromise
PROPERTY ShutsDown
PROPERTY NothingStarves
CHECK_DEADLOCK FALSE
