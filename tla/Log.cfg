SPECIFICATION MCSpec
CONSTANTS
  Procs = {p1, p2}
  Boot = p1
  Blocks = {b1, b2}
  Vals = {0, 1}
  NotCached = NotCached
  NoBlock = NoBlock
  OPBLOCKS = 2
  MAXOPBLOCKS = 2
  LOGSIZE = 4
  NLOG = 4
  p3 = p3
  b3 = b3
  b4 = b4
INVARIANTS QuietIsDurable CommitAlone ReservationSuffices
PROPERTIES AtomicSpec SleeperWakes
