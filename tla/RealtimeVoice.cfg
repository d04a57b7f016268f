SPECIFICATION VoiceFairSpec
CONSTANTS
  Call = {}
  MaxTurn = 2
  MaxDelta = 1
  NoCall = NoCall
  StreamMode = TRUE
INVARIANTS
  FlushAlone
PROPERTIES
  AudioEnds
CHECK_DEADLOCK FALSE
