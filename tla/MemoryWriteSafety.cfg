SPECIFICATION Spec
CONSTANTS
  Fact <- MCFact
  Contradicts <- MCContradicts
  quiet = quiet
  calm = calm
  loud = loud
  Memory = {m1, m2, m3, m4}
  Writer = {w1, w2}
  Reader = {r1}
  Query = {q1}
  MaxBatch = 2
  NoFact = NoFact
  NoMemory = NoMemory
  Miss = Miss
INVARIANTS
  MarkedWasStored
  NoDuplicates
  OneSide
  NeverHidden
SYMMETRY Symmetry
CHECK_DEADLOCK FALSE
