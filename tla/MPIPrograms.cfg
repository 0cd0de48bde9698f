CONSTANTS
  num_ping_pong = 2
  n = 5
  rows = 7
  MaxSweeps = 2
  gridDim = 2
  MaxRanks = 11
  N = 10
  mpiSize = 4
  nkeys = 3
  SIZE = 2
  length = 3
  keyRanks = 3
  RAMNUM = 2
  sortRanks = 2
SPECIFICATION Spec
INVARIANTS Results AllReceived CollectivesCorrect Replicated SameAsSequential SameProduct
  CountersRestart SortedOutput MergedSoFar
PROPERTY ProgramsEnd
