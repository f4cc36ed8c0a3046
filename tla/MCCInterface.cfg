CONSTANTS
  Builds <- MCBuilds
  BackEnds = {"unwind", "libunwind", "execinfo", "winapi", "dbghelp", "nothing"}
  UserStacks <- MCUserStacks
  HardMax = 2
  SizeMax = 50
  Calls <- MCCalls
  Sizes = {0, 1, 3}
  Resolved <- MCResolved
  Demangled <- MCDemangled
  Modules <- MCModules
  Slots = {1, 2}
  MaxBlocks = 6
SPECIFICATION Spec
INVARIANTS TraceIsUserStack HeapIsOwned ShownAlike PathAndAddressBelongTogether
