SPECIFICATION Spec
CONSTANTS
  Session = {s1, s2}
  Turn = {t1, t2}
  Runner = {r1}
  Nobody = Nobody
  MaxRing = 4
  HistoryTTL = 8
  ThrottleTTL = 3
  Idle = 1
  Beat = 3
  Horizon = 12
  Allowed = {"return", "leave", "redis", "llm", "raise", "stall"}
INVARIANTS
  NothingForgotten
PROPERTIES
  DropsOnlyStale
  NoneExpires
SYMMETRY Symmetry
CHECK_DEADLOCK FALSE
CONSTRAINT Scope
