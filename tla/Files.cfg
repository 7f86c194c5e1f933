SPECIFICATION Spec
CONSTANTS
  p1 = p1
  p2 = p2
  Procs = {p1, p2}
  NINODES = 4
  NINODE = 4
  NFILE = 2
  NOFILE = 2
  Names = {"a", "x"}
  Requests <- MCRequests
  Trees <- MCTrees
  MaxCalls = 3
  None = None
SYMMETRY Symm
INVARIANTS CountsExact NamedIsKept NoLockCycle PanicsKnown
