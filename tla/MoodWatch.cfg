SPECIFICATION MoodSpec
CONSTANTS
  Bucket = {b1, b2}
  Label = {x, y}
  Neutral = Neutral
  Track = {t1}
  MinSample = 1
  Near = 1
  Wide = 2
  Pattern = {p1, p2}
  Draft = {d1, d2}
  Task = {k1, k2}
  Turn = {n1, n2}
  MaxRow = 1
  NoDraft = NoDraft
  NoPattern = NoPattern
INVARIANTS
  MoodTypeOK
  OnePattern
  ToldOnce
  TrueNudge
  CountedOnce
CONSTRAINT OneMishap
SYMMETRY Symmetry
CHECK_DEADLOCK FALSE
