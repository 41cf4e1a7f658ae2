SPECIFICATION Spec
CONSTANTS
  p1 = p1
  p2 = p2
  p3 = p3
  p4 = p4
  v1 = v1
  v2 = v2
  Region = {1, 2}
  Oid = {5, 6}
  Vaddr = {v1, v2}
  Page = {p1, p2}
  MaxBuffers = 2
  CanDie = TRUE
  CanFail = TRUE
  NoVaddr = NoVaddr
  NoPage = NoPage
  Blank = Blank
CHECK_DEADLOCK FALSE
SYMMETRY Symmetry
INVARIANTS
  TypeOK
  RightBitstream
  PagesOwned
  MapAgrees
