SPECIFICATION Spec
CONSTANTS
  SeqSpace = 8
  WinMod = 2
  Isns = {7}
  PeerIsn = 6
  OldSegs <- MCOldSegs
  SimOpen = FALSE
  Windows = {1}
  MaxMoves = 5
  MaxRetries = 1
  FastDups = 1
  RtBurst = 4
  InCap = 2
  OutCap = 1
  AppCap = 2
  QCap = 1
CONSTRAINT InUse
CHECK_DEADLOCK FALSE
INVARIANT StreamDelivered
