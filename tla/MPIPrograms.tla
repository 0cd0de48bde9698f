------------------------------ MODULE MPIPrograms ------------------------------
(***************************************************************************)
(* The MPI programs of MPI_basics, example9, example10 and example11, the  *)
(* MPI wavefront of the exam, the key pairs of assignment 4 and the        *)
(* external sort of steffe_SortingAlg, side by side; one of them runs.     *)
(***************************************************************************)
EXTENDS GridProducts

CONSTANTS
  N, mpiSize,    \* Wf_mpi: the matrix and the ranks
  nkeys, SIZE, length, keyRanks,  \* nkeys-par: keys, limit, stream and ranks
  RAMNUM, sortRanks,              \* steffe: what a rank can hold, and the ranks
  MaxRanks       \* the programs made of collective calls run on up to MaxRanks

ASSUME SizesAssumption == N \in Nat \ {0} /\ mpiSize \in Nat \ {0}
(* Below this N - B wraps around in uint64_t and the loops leave the matrix *)
ASSUME NoWrapAround == N >= mpiSize - 1
(* SIZE divides 2^64: a negative result, converted to unsigned long and     *)
(* taken modulo SIZE, gives what % gives.                                   *)
ASSUME KeysAssumption ==
  /\ nkeys \in Nat /\ nkeys >= 2
  /\ SIZE \in Nat /\ SIZE >= 2 /\ \E e \in 1 .. 16 : SIZE = 2 ^ e
ASSUME RanksAssumption == keyRanks \in Nat \ {0} /\ length \in Nat
ASSUME MemoryAssumption == sortRanks \in Nat \ {0} /\ RAMNUM \in Nat \ {0}
ASSUME GridAssumption == gridDim \in Nat \ {0}
ASSUME JacobiAssumption == rows \in Nat \ {0} /\ MaxSweeps \in Nat \ {0}

VARIABLES
  M, i, phase, local,                                          \* Wf_mpi
  SSTEP, stream, turn, map, V, res, reset, todo, state,        \* nkeys-par
  input, id, loop, sorter, dir, content, merge, fds, minHeap,  \* steffe
  nextRead, written, final

wavefrontVars == <<M, i, phase, local>>
keyVars == <<SSTEP, stream, turn, map, V, res, reset, todo, state>>
sortVars == <<input, id, loop, sorter, dir, content, merge, fds, minHeap, nextRead, written, final>>
allVars == <<vars, wavefrontVars, keyVars, sortVars>>

(* Two sorts that start in different seconds, of files that make a sort use *)
(* one slice and less, a slice per rank, and two slices of a rank.          *)
Job == {1, 2}
Inputs == {<<>>, <<1>>, <<3, 1, 2>>, <<2, 3, 1, 2, 1>>}
Starts == {[j \in Job |-> j]}

Wf == INSTANCE WavefrontMPI
Keys == INSTANCE NKeysMPI WITH mpiSize <- keyRanks, phase <- state
Sort == INSTANCE ExternalSort WITH mpiSize <- sortRanks, rank <- sorter
Coll == INSTANCE Collectives

(* The programs and the numbers of ranks they are started with.             *)
Started ==
  {<<"PingPong", 2>>, <<"PingPong", 4>>, <<"PingPongBarrier", 4>>, <<"Ring", 3>>,
   <<"ping_pong_ring_nb", 2>>, <<"ping_pong_ring_nb", 3>>, <<"send-recv", 3>>,
   <<"trapezoid", 3>>, <<"trapezoidReduce", 3>>, <<"trapezoid_mpi+omp", 3>>,
   <<"master-workers", 3>>, <<"jacobi_1d", 3>>, <<"mm_2d", gridDim * gridDim>>,
   <<"summa", gridDim * gridDim>>, <<"summa_omp", gridDim * gridDim>>, <<"Wf_mpi", 1>>,
   <<"nkeys-par", 1>>, <<"steffe", 1>>}
  \cup ({"collectives"} \X (1 .. MaxRanks))

(* The buffers of ping_pong_ring_nb and jacobi_1d are written to before the  *)
(* send is over: with them the library copies.                              *)
Copies(p) == p \in {"ping_pong_ring_nb", "jacobi_1d"}

Threaded(p) == p \in {"trapezoid_mpi+omp", "summa_omp"}

InitialMemory(r) ==
  CASE program \in {"PingPong", "PingPongBarrier"} -> PingPongInit(r)
    [] program = "Ring" -> RingInit(r)
    [] program = "ping_pong_ring_nb" -> RingNbInit(r)
    [] program = "send-recv" -> SendRecvInit(r)
    [] program = "trapezoid" -> TrapezoidInit(r)
    [] program \in {"trapezoidReduce", "trapezoid_mpi+omp"} -> ReduceInit(r)
    [] program \in {"mm_2d", "summa", "summa_omp"} -> GridInit(r)
    [] OTHER -> [at |-> "end"]

(* The programs with a state of their own, empty while another one runs;    *)
(* they send no message of which the library might keep a copy.             *)
OwnState == {"Wf_mpi", "nkeys-par", "steffe"}

WavefrontInit ==
  IF program = "Wf_mpi" THEN Wf!MPIInit ELSE M = 0 /\ i = 0 /\ phase = 0 /\ local = 0

KeysInit ==
  IF program = "nkeys-par" THEN Keys!Init
  ELSE /\ SSTEP = 0 /\ stream = 0 /\ turn = 0 /\ map = 0 /\ V = 0
       /\ res = 0 /\ reset = 0 /\ todo = 0 /\ state = 0

SortInit ==
  IF program = "steffe" THEN Sort!Init
  ELSE /\ input = 0 /\ id = 0 /\ loop = 0 /\ sorter = 0 /\ dir = 0 /\ content = 0
       /\ merge = 0 /\ fds = 0 /\ minHeap = 0 /\ nextRead = 0 /\ written = 0 /\ final = 0

InitWith(s) ==
  /\ program = s[1] /\ size = s[2] /\ eager \in BOOLEAN
  /\ Copies(program) => eager
  /\ program \in OwnState => ~eager
  /\ IF Threaded(program) THEN level \in {MPI_THREAD_SINGLE, MPI_THREAD_FUNNELED}
     ELSE level = MPI_THREAD_SINGLE
  /\ CASE program = "master-workers" ->
            \E noreq \in [Rank \ {0} -> 0 .. 1] :
              rank = [r \in Rank |-> IF r = 0 THEN ServerInit ELSE WorkerInit(r, noreq[r])]
       [] program = "jacobi_1d" ->
            \E k \in 1 .. MaxSweeps : rank = [r \in Rank |-> JacobiInit(r, k)]
       [] OTHER -> rank = [r \in Rank |-> InitialMemory(r)]
  /\ Quiet
  /\ WavefrontInit /\ KeysInit /\ SortInit

Init == \E s \in Started : InitWith(s)

Run(r) ==
  /\ UNCHANGED <<program, size, eager, level, wavefrontVars, keyVars, sortVars>>
  /\ \/ program \in {"PingPong", "PingPongBarrier"} /\ (PingPong(r) \/ Barrier(r, "loop"))
     \/ program = "Ring" /\ Ring(r)
     \/ program = "ping_pong_ring_nb" /\ RingNb(r)
     \/ program = "send-recv" /\ SendRecv(r)
     \/ program = "trapezoid" /\ Trapezoid(r)
     \/ program = "trapezoidReduce" /\ TrapezoidReduce(r)
     \/ program = "trapezoid_mpi+omp" /\ TrapezoidOmp(r)
     \/ program = "master-workers" /\ (IF r = 0 THEN Server(r) ELSE Worker(r))
     \/ program = "jacobi_1d" /\ Jacobi(r)
     \/ program = "mm_2d" /\ Mm2d(r)
     \/ program = "summa" /\ Summa(r)
     \/ program = "summa_omp" /\ SummaOmp(r)

InWavefront(A) == program = "Wf_mpi" /\ A /\ UNCHANGED <<vars, keyVars, sortVars>>
InKeys(A) == program = "nkeys-par" /\ A /\ UNCHANGED <<vars, wavefrontVars, sortVars>>
InSort(A) == program = "steffe" /\ A /\ UNCHANGED <<vars, wavefrontVars, keyVars>>
Finalized == Ended /\ program \notin OwnState /\ UNCHANGED allVars

Next ==
  \/ \E r \in Rank : Run(r)
  \/ InWavefront(Wf!MPINext) \/ InKeys(Keys!Next) \/ InSort(Sort!Next)
  \/ Finalized

(* Every rank is a process of its own.  Nothing makes the library copy.     *)
Processes == 0 .. gridDim * gridDim - 1

Fairness ==
  /\ \A r \in Processes : WF_allVars(r \in Rank /\ Run(r))
  /\ WF_allVars(InWavefront(Wf!Allgather))
  /\ \A r \in 0 .. mpiSize - 1 : WF_allVars(InWavefront(Wf!RankStep(r)))
  /\ WF_allVars(InKeys(Keys!Collective))
  /\ \A r \in 0 .. keyRanks - 1 : WF_allVars(InKeys(Keys!RankStep(r)))
  /\ \A j \in Job :
       /\ WF_allVars(InSort(Sort!kMerge(j)))
       /\ \A r \in 0 .. sortRanks - 1 : WF_allVars(InSort(Sort!sortedRuns(j, r)))

Spec == Init /\ [][Next]_allVars /\ Fairness

(* jacobi_1d alone, with messages that the library does not copy.           *)
RendezvousSpec ==
  /\ program = "jacobi_1d" /\ size = 3 /\ eager = FALSE /\ level = MPI_THREAD_SINGLE
  /\ rank = [r \in Rank |-> JacobiInit(r, MaxSweeps)]
  /\ Quiet /\ WavefrontInit /\ KeysInit /\ SortInit
  /\ [][Next]_allVars /\ Fairness

-----------------------------------------------------------------------------
(* Every program has what it is there to compute: no rank works with a      *)
(* message of another turn, another sweep or another block.                 *)
Results == Computed /\ JacobiRows /\ JacobiGathered /\ ProductGathered

(* When all ranks are done, no message is left that nobody received.        *)
AllReceived == Ended => \A p \in DOMAIN net : net[p] = <<>>

(* The collective calls put every element in its place: the parts of a       *)
(* vector (vectorsum.cpp, vectorsumV.cpp), the ranks of the new             *)
(* communicators (SplitComm.cpp, Group.cpp, group.cpp, split.cpp), ...       *)
CollectivesCorrect ==
  program = "collectives" =>
    /\ Coll!Communicators(size) /\ Coll!Values(size)
    /\ \A k \in 0 .. 9 : Coll!Sums(k, size)

(* Wf_mpi.cpp: every rank that has left the split phase, or works in it,     *)
(* holds the wavefront of all the earlier diagonals.                        *)
Replicated == program = "Wf_mpi" => Wf!Replicated

(* nkeys-par.cpp: every rank's copy of the counters and sums is, at the top *)
(* of each turn, what the sequential program has after as many turns.       *)
SameAsSequential == program = "nkeys-par" => Keys!SameAsSequential

(* nkeys-par.cpp: ranks that meet in a reduction add up rows of the same    *)
(* product of the same matrices.                                            *)
SameProduct == program = "nkeys-par" => Keys!SameProduct

(* nkeys-par.cpp: no counter is at its limit between two turns.             *)
CountersRestart == program = "nkeys-par" => Keys!CountersRestart

(* steffe, main.cpp:364, "Sorted file": the result is the input, sorted.    *)
SortedOutput == program = "steffe" => Sort!SortedOutput

(* steffe: while a sort merges, what is written is sorted, nothing smaller  *)
(* is still to come, and no number is lost or taken from another sort.      *)
MergedSoFar == program = "steffe" => Sort!MergedSoFar

(* Every program ends, whether or not the library copies what is sent; the  *)
(* wavefront ends with the matrix of Wf_seq.cpp in rank 0, a sort with its  *)
(* result and no temporary file.                                            *)
ProgramsEnd ==
  <> CASE program = "Wf_mpi" -> phase[0] = "end" /\ \A c \in Wf!Cell : M[0][c] = "ok"
       [] program = "nkeys-par" -> \A r \in 0 .. keyRanks - 1 : state[r] = "end"
       [] program = "steffe" -> (\A j \in Job : merge[j] = "done") /\ dir = {}
       [] OTHER -> Ended
=============================================================================
