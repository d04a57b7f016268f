SPECIFICATION FairSpec
CONSTANTS
  Tool = {c1, c2, c3}
  Shutdown = Shutdown
  NoTool = NoTool
PROPERTIES
  Promise
  Answered
CHECK_DEADLOCK FALSE
