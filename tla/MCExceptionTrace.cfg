CONSTANTS
  e1 = e1
  e2 = e2
  Exceptions = {e1, e2}
  TypeOf <- Types
  Clauses <- CatchClauses
  None = None
  MaxDepth = 4
  CaptureFails = TRUE
  ResolveFails = TRUE
  Nested = TRUE
SPECIFICATION Spec
INVARIANTS TypeOK SwitchOnlyDuringRethrow TracesFiledByKind TracesAnswerForLastSeen
PROPERTY ImplementsInterceptedExceptions
CHECK_DEADLOCK FALSE
