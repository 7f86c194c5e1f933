SPECIFICATION Spec
CONSTANTS
  Procs = {p1, p2, p3}
  Boot = p1
  Blocks = {b1, b2, b3}
  Vals = {0}
  NotCached = NotCached
  NoBlock = NoBlock
  OPBLOCKS = 1
  MAXOPBLOCKS = 1
  LOGSIZE = 3
  NLOG = 3
INVARIANT AdmittedFits
