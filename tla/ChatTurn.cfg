SPECIFICATION FairSpec
CONSTANTS
  Request <- MCRequest
  Decision <- MCDecision
  Streaming <- MCStreaming
INVARIANTS DbExclusive Grounded NoAutoPlay HeardIsRecorded
PROPERTY TurnEnds
CHECK_DEADLOCK FALSE
