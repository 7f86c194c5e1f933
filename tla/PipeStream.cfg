SPECIFICATION Spec
CONSTANTS
  w1 = w1
  w2 = w2
  r1 = r1
  r2 = r2
  PIPESIZE = 2
  Wrap = 4
  None = None
  Eof = Eof
  Nothing = Nothing
  Writers = {w1, w2}
  Readers = {r1}
  Killable = {r1}
  Bytes = {0, 1}
  MaxCount = 3
SYMMETRY Symm
INVARIANT FreedUnused
PROPERTY StreamSpec
