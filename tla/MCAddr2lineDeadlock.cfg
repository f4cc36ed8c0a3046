CONSTANTS
  t1 = t1
  t2 = t2
  Threads = {t1, t2}
  Requests = 1
  Settings <- Deadlock
SPECIFICATION Spec
PROPERTY EveryRequestEnds
CHECK_DEADLOCK FALSE
