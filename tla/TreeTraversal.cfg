CONSTANTS
  Thread = {w1, w2, w3}
  Task <- Nat
  NoTask = none
  NumNodes = 5
SPECIFICATION FairSpec
INVARIANTS TypeOK StopMeansVisited QueueServed
PROPERTY MainReturns
