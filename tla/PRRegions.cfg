SPECIFICATION FairSpec
CONSTANTS
  p1 = p1
  p2 = p2
  p3 = p3
  p4 = p4
  v1 = v1
  v2 = v2
  Region = {1, 2}
  Oid = {5, 6}
  Vaddr = {v1, v2}
  Page = {p1, p2, p3, p4}
  MaxBuffers = 3
  CanDie = FALSE
  CanFail = FALSE
  NoVaddr = NoVaddr
  NoPage = NoPage
  Blank = Blank
CHECK_DEADLOCK FALSE
PROPERTIES
  CallsReturn
