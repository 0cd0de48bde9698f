\* Two jobs that start in the same second, as doTest.sh starts them.
CONSTANTS
  Job = {1, 2}
  Inputs <- FewInputs
  Starts <- SameSecond
  mpiSize = 2
  RAMNUM = 2
SPECIFICATION Spec
INVARIANT SortedOutput
