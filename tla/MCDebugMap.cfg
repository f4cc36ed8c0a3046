CONSTANTS
  program = "program"
  first = "first"
  second = "second"
  Binary = "program"
  HostArch = "arm64"
  Nothing = Nothing
  Error = Error
  Base = 8
  Files <- MCFiles
  Images <- MCImages
  Functions <- MCFunctions
  Pcs <- MCPcs
  Incomplete <- MCIncomplete
SPECIFICATION DebugMapSpec
INVARIANTS DebugMapIsLinkers FrameIsItsFunction  TriedOnce
