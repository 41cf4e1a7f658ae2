SPECIFICATION Spec
CONSTANTS
  Proc = {p1, p2}
  Small = {s1}
  Huge = {h1}
  MaxCpid = 1
  NChunks = 3
  MaxMaps = 2
  MaxCmds = 2
  MaxBuf = 1
  CanDie = TRUE
  None = None
CONSTRAINT Usable
SYMMETRY ProcSymmetry
CHECK_DEADLOCK FALSE
INVARIANTS
  TypeOK
  CardPartition
  
  
  
