SPECIFICATION Spec
CONSTANTS
  tickslock = tickslock
  ptable = ptable
  Cpus = {c1, c2}
  Locks = {tickslock, ptable}
  Order <- Kernel
  None = None
INVARIANTS NoCircularWait
