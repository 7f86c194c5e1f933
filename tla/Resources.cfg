SPECIFICATION MCSpec
CONSTANTS
  tickslock = tickslock
  ptable = ptable
  log = log
  rrqueue = rrqueue
  q1 = q1
  q2 = q2
  Cpus = {c1, c2, c3}
  Locks = {tickslock, ptable, rrqueue, log}
  Order <- Ordered
  None = None
SYMMETRY Symm
INVARIANTS MutualExclusion InterruptsExact BlocksExact FitsLog PagesExact  HeapExact EveryoneCanWin
PROPERTY FileSpec
