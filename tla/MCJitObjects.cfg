CONSTANTS
  Files <- AllFiles
  Pcs = {0, 1, 2, 3, 4, 5, 6}
  None = None
  Concurrent = FALSE
  MaxObjects = 4
SPECIFICATION Spec
INVARIANTS RangesHaveObjects SymbolIsRight
CHECK_DEADLOCK FALSE
