CONSTANTS
  Proc = {p1, p2}
  Entry = {e1, e2}
  AnchorEvery = 2
  MaxRows = 3
  MaxFaults = 2
SPECIFICATION FairSpec
INVARIANT TypeOK
INVARIANT RowsFormTree
INVARIANT AnchorsMatchRows
INVARIANT AnchorsComplete
PROPERTY KeepsPromise
PROPERTY AppendReturns
CHECK_DEADLOCK FALSE
