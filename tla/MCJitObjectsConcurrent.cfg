CONSTANTS
  Files <- OneFile
  Pcs = {4}
  None = None
  Concurrent = TRUE
  MaxObjects = 1
SPECIFICATION Spec
INVARIANT FoundObjectIsLive
CHECK_DEADLOCK FALSE
