CONSTANTS
  Keys = {1, 2, 3}
  Values = {v, w}
  Nodes = {n1, n2, n3}
  Sizes = {0, 1, 2}
  Unbounded = Unbounded
  Absent = Absent
  Settings <- Cases
  Addresses = {1, 2, 4, 5, 7}
  MaxFrames = 3
SPECIFICATION PartSpec
INVARIANTS TypeOK Consistent Bounded ReturnedEntryIsNewest FrameIsFound NeverWrong CacheBuiltOnce
PROPERTY ImplementsRecencyCache
CHECK_DEADLOCK FALSE
