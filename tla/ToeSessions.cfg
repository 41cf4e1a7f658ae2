SPECIFICATION MCSpec
CONSTANTS
  p1 = p1
  p2 = p2
  MaxSessions = 2
  Peers = {p1, p2}
  Base = 2
  AppPorts <- MCPorts
  NoId = NoId
  None = None
  MaxMoves = 3
  QCap = 1
SYMMETRY Symmetry
CHECK_DEADLOCK FALSE
INVARIANTS
  TypeOK
  IdsAccounted
  ReverseAgrees
  NoDeadSession
  ReadStateHolds
