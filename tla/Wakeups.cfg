SPECIFICATION MCSpec
CONSTANTS
  w1 = w1
  r1 = r1
  r2 = r2
  p1 = p1
  p2 = p2
  p3 = p3
  s1 = s1
  s2 = s2
  s3 = s3
  c1 = c1
  c2 = c2
  None = None
  Eof = Eof
  Nothing = Nothing
  NoSector = NoSector
  Refs = {p1, p2, p3}
  Owner <- OwnerOf
  Nests <- Order
  Sectors = {s1, s2, s3}
  Vals <- Contents
  NBUF = 2
  MAXPINNED = 1
CHECK_DEADLOCK FALSE
INVARIANT BufferInv
PROPERTIES CallReturns EofDelivered FullDrains StoreSpec LinesSpec
