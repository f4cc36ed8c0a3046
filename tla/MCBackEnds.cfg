CONSTANTS
  t1 = t1
  t2 = t2
  Threads = {t1, t2}
  Requests = 2
  Settings <- All
  Callers = {1, 2, 3}
  Handles = {11, 12}
  Proc = 10
  Modules = {"library", "plugin"}
  Program = "program"
  Types <- MCTypes
  Functions <- MCFunctions
SPECIFICATION BackEndSpec
INVARIANTS AnswerIsWhole NothingLeaks SessionsAreSound FrameIsRight
PROPERTY EndsIfAlone
