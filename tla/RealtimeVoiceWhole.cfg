SPECIFICATION VoiceSpec
CONSTANTS
  Call = {k1}
  MaxTurn = 2
  MaxDelta = 1
  NoCall = NoCall
  StreamMode = FALSE
INVARIANTS
  FlagSettles
  NoOrphan
CHECK_DEADLOCK FALSE
