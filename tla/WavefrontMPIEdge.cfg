CONSTANTS
  N = 2
  mpiSize = 3
SPECIFICATION MPISpec
PROPERTY RootCorrect
