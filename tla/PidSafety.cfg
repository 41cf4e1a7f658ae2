SPECIFICATION Spec
CONSTANTS
  c1 = c1
  c2 = c2
  c3 = c3
  c4 = c4
  Obj = {c1, c2, c3, c4}
  Pid = {11, 12, 13, 14}
  ProcOf <- OwnProc
  RegPidOf <- OwnProc
  N = 3
  CanDie = TRUE
  NoPid = 0
CHECK_DEADLOCK FALSE
INVARIANTS
  TypeOK
  CpidUnique
  FaultsResolve
  NoCpidLeak
  NoOops
