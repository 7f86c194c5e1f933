SPECIFICATION LiveSpec
CONSTANTS
  NPROC = 3
  EXE_TICKETS = 2
  FIFO_DIFFERECE = 1
  Chans = {disk}
  NoCpu = NoCpu
  c1 = c1
  c2 = c2
  MaxPid = 4
  Cpus = {c1, c2}
  POLICY = "DEFAULT"
INVARIANT RunsOnOneCpu
PROPERTIES RunnableRuns OrphanReaped
