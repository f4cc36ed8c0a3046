CONSTANTS
  t1 = t1
  t2 = t2
  Threads = {t1, t2}
  None = None
  Settings <- Safe
  MaxCalls = 2
SPECIFICATION Spec
INVARIANTS DataRaceFree AnswersMatchFile ReadOnce
PROPERTY EveryCallEnds
CHECK_DEADLOCK FALSE
