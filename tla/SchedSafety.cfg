SPECIFICATION Spec
CONSTANTS
  t1 = t1
  t2 = t2
  t3 = t3
  Thread = {t1, t2}
  Direct = {d1}
  Cpid = {0, 1, 2}
  CpidOf <- OwnCpid
  Oid = {5, 6}
  Priority = {0, 1}
  PRIORITY = TRUE
  REORDER = TRUE
  EN_PR = TRUE
  CanTimeout = FALSE
  CanStop = TRUE
  MaxTasks = 2
  MaxCrashes = 1
  NoReq = NoReq
CHECK_DEADLOCK FALSE
INVARIANTS
  TypeOK
  MutualExclusion
  OperatorLoaded
  NoLostRequest
  BoundedBypass
PROPERTIES
  ImplementsVFpgaLock
