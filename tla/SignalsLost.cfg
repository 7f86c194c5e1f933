SPECIFICATION Spec
CONSTANTS
  SIGNUM = 3
  Points = {pa, pb}
  Handlers = {h1}
  NoHandler = NoHandler
  NoProc = NoProc
  Procs = {p1, p2}
  Programs = {p1, p2}
  Sends <- OneWay
  p1 = p1
  p2 = p2
  MaxSends = 2
  MaxBirths = 0
INVARIANT PendingExact
