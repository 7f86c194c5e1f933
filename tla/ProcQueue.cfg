SPECIFICATION Spec
CONSTANTS
  NPROC = 4
  EXE_TICKETS = 2
  FIFO_DIFFERECE = 1
  Chans = {}
  NoCpu = NoCpu
  c1 = c1
  c2 = c2
  MaxPid = 4
  Cpus = {c1, c2}
  POLICY = "FRR"
SYMMETRY SymmCpus
INVARIANTS WaitMissesNothing ParentAlive QueueHoldsRunnable
