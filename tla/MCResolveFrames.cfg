CONSTANTS
  o1 = o1
  o2 = o2
  Objects = {o1, o2}
  NoObject = NoObject
  None = None
  Programs <- AllPrograms
  MaxInlines = 2
SPECIFICATION Spec
INVARIANTS TraceIsComplete FailuresFollowOption ResolverMadeOnce
CHECK_DEADLOCK FALSE
