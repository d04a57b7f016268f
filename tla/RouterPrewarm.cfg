\* One process, as deployed, that may die and start again.
SPECIFICATION FairSpec
CONSTANTS
  Worker = {w1}
  Phrase = {p1}
  Job = {j1, j2}
  Call = {c1, c2}
  NoJob = NoJob
INVARIANTS
  AwaitedNotCancelled
PROPERTIES
  NeverStalls
CHECK_DEADLOCK FALSE
