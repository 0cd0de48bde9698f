CONSTANTS
  NoThread = NoThread
  Word = {"a", "b"}
  Thread = {t1, t2}
  Text <- TwoFiles
  nw = 2
  Ranges <- SmallRanges
  MaxWorkers = 3
  chunk = 3
SPECIFICATION AllSpec
INVARIANTS NothingLost RegionsExact FarmExact PrimesFound
PROPERTY ReductionsEnd
