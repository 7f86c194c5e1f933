SPECIFICATION MCSpec
CONSTANTS
  SIGNUM = 3
  Points = {pa, pb}
  Handlers = {h1}
  NoHandler = NoHandler
  NoProc = NoProc
  p1 = p1
  p2 = p2
  Procs = {p1}
  Programs = {p1}
  Sends <- SelfSends
  MaxSends = 4
  MaxBirths = 1
CHECK_DEADLOCK FALSE
INVARIANTS SelfSendsExact RunsAsWritten
PROPERTIES ResumesWhereInterrupted PendingHandled PromptReturns
