CONSTANTS
  num_threads = 3
  Supply = 3
  num_iters = 7
  rows = 5
  chunk_size = 2
  free = 0
  Producer = {"p1", "p2"}
  Consumer = {"c1", "c2"}
  MaxItems = 2
  none = "none"
  capacity = 3
  num_nodes = 4
SPECIFICATION Spec
INVARIANTS SharedOut NobodySleepsOnWork NothingLeftBehind NeverFires
PROPERTY ThreadsEnd
