CONSTANTS
  plain = plain
  denied = denied
  gated = gated
  Tool = {plain, denied, gated}
  DenyTools = {denied}
  ApprovalTools = {denied, gated}
  Frames <- MCFrames
  BufferSize = 1
  PipeSize = 1
  MaxSent = 2
  MaxFaults = 0
SPECIFICATION FairSpec
INVARIANT OnlyOversizedDropped
CHECK_DEADLOCK FALSE
