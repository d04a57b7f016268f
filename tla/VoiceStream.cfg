SPECIFICATION FairStreamSpec
CONSTANTS
  Adapter = {"none", "flux", "openai"}
  MaxTurn = 2
  MaxEvent = 3
  MaxInbox = 1
INVARIANTS
  StreamTypeOK
  Relayed
  Flushed
PROPERTIES
  Ends
CHECK_DEADLOCK FALSE
