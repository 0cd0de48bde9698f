\* Diagonals of 9 down to 1 elements on at most two threads: blocks of two
\* elements, the last one cut off at the end of the diagonal or not, blocks of
\* one, and the last diagonal, for which the client starts one thread.
CONSTANTS
  N = 9
  T = 2
  Thread = {1, 2}
  Task <- Block
  NoTask = none
SPECIFICATION FairSpec
INVARIANTS TypeOK StopMeansDone DiagonalOrder NeverThrows
PROPERTIES BlocksComputed StartedInTime
