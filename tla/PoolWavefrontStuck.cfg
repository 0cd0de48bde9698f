CONSTANTS
  N = 2
  T = 2
  Thread = {1, 2}
  Task <- Block
  NoTask = none
SPECIFICATION FairSpec
PROPERTY WaitEnds
