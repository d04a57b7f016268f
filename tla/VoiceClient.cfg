SPECIFICATION Spec
CONSTANTS
  MaxStart = 2
  MaxTurn = 2
  MaxPending = 1
  MaxDone = 2
INVARIANTS
  TypeOK
  NotHerself
  OneFeed
  MicReleased
  WillResume
CHECK_DEADLOCK FALSE
