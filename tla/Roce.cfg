SPECIFICATION Spec
CONSTANTS
  MaxReq = 3
  Workloads <- Mixed
  ReadPkgs = 2
  PsnMod = 8
  StartPsn = 6
  TableSize = 2
  MaxRetries = 1
  MaxLate = 1
  MaxFaults = 1
  EvCap = 2
  NetCap = 2
  QCap = 2
CHECK_DEADLOCK FALSE
INVARIANTS
  TypeOK
  WritesInOrder
  AnswersHonest
  ListFollows
