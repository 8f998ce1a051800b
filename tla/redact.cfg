CONSTANTS
  MaxDepth = 3
  Budget = 3
  Window = 4
  Overlap = 2
  Texts <- MCTexts
  MarkLengths = {0, 1, 3}
  MaxNodes = 5
  MaxLen = 8
  SecretLengths = {1, 2, 3}
SPECIFICATION Spec
INVARIANT TypeOK
INVARIANT DepthAgrees
INVARIANT WalkCovers
INVARIANT OnlySplitSecretsShow
INVARIANT TextIsKept
CHECK_DEADLOCK FALSE
