SPECIFICATION Spec
CONSTANTS
  t1 = t1
  t2 = t2
  t3 = t3
  Thread = {t1, t2}
  Direct = {d1}
  Cpid = {0, 1, 2}
  CpidOf <- SharedCpid
  Oid = {5, 6}
  Priority = {0, 1}
  PRIORITY = TRUE
  REORDER = FALSE
  EN_PR = TRUE
  CanTimeout = TRUE
  CanStop = FALSE
  MaxTasks = 2
  MaxCrashes = 0
  NoReq = NoReq
CHECK_DEADLOCK FALSE
PROPERTIES
  ReconfigExclusive
