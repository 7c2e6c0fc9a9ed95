CONSTANTS
  Second = 2
  HeartbeatTimeout = 1
  SendInterval = 4
  CheckInterval = 1
  ReadTimeout = 3
  MaxPieces = 2
  WindowLength = 1
  MaxMessages = 2
  ErrorLimit = 1
  MaxTime = 8
  None = None
SPECIFICATION Spec
INVARIANTS
  TypeOK
  GoodClientSurvives
  SilenceIsNoticed
  AtMostTwoWindows
CHECK_DEADLOCK FALSE
