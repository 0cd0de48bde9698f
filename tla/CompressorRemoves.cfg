CONSTANTS
  length = 4
  nworkers = 2
  N = 6
  Nw = 3
  Files = 2
  Sizes <- TwoFiles
  Degree = 2
  Tree <- SmallTree
  Arguments <- FewArguments
  Home = 1
  MaxFaults = 1
  threads = 3
  nb = 3
  CUTOFF = 1
  Arrays <- ShortArrays
  FibMax = 5
SPECIFICATION Spec
INVARIANT OnlyOriginalsRemoved
