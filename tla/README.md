# TLA+ models of Shared_Memory_Programming

The repository is a collection of parallel programs written for courses on
shared-memory and distributed programming: C++ threads and condition variables,
OpenMP, FastFlow and MPI. There is no library that ties them together and there
are no tests; every program is a small system of its own. This directory holds
TLA+ modules for the programs whose correctness depends on the order in which
threads, tasks or messages act, the TLC configurations that check them, and
proofs, checked by TLAPS, of the results that hold for every size.

## 1. Inventory

| component | state | operations and interaction | hard behaviour | what makes it correct |
|---|---|---|---|---|
| Thread pool and wavefront, `ParallelizingTasks/assignment1` | task queue, `stop_pool`, `start_pool`, `active_threads`, two condition variables, one mutex | `enqueue`, `wait_loop`, hooks, `starting_pool`, `wait_and_stop`, destructor; the client builds one pool per diagonal | self-stopping pool, unlocked `start_pool`, notifications after unlock | a diagonal is over only when all its blocks ran; every block runs once; the client gets out of `wait_and_stop` |
| Thread pools of the lab, `SMP_unipi_lab/example3`, `example4`, `example5` | as above without `start_pool` (example4), or without self-stop (example3) | `spawn` from inside tasks (tree traversal), futures | `spawn` reads `active_threads` without the mutex; the pool stops itself when idle | all nodes visited before the pool stops; every future becomes ready |
| Exam wavefront, `SMP_unipi_exam` | the matrix, the current diagonal, tasks sent and done | sequential, FastFlow master-worker, MPI three-phase versions | task splitting, feedback counting, thresholds of the MPI phases | a cell is computed after the cells on its left and below; FastFlow and MPI compute what the sequential program computes |
| Word count, `ParallelizingTasks/assignment2`, `assignment3` | word map, totals | OpenMP for and tasks, FastFlow farm with feedback | three accumulating passes, critical merge, feedback termination | every line counted once, the merged map is the map of the sequential program |
| nkeys, `ParallelizingTasks/assignment4` | counters per key on two processes | Bcast, Allreduce, Barrier, reset flags | flags owned by different ranks | both ranks hold equal counters; same result as the sequential program |
| Condition variables, promises, `SMP_unipi_lab/example2` | go flag, cv | alarm clock, one-shot alarm clock, matrix-vector splits, fibonacci | lost notification | the sleeper wakes |
| Producer-consumer, readers-writer, all-pairs, `example3` | deque, counters, cv | producers, consumers, stop source | unlocked test of the queue, items left behind | FIFO, no item lost or taken twice |
| Atomics and memory order, `example4` | atomic variables | spin lock, atomic max, litmus tests | relaxed and acquire/release orders | mutual exclusion, the maximum is found, the asserts of the litmus tests |
| PDS exercises, `PDS` | blocking queue, go flag, barrier | push/pop, wait/notify, arrive_and_wait | missed flag window | FIFO, barrier phases, every thread ends |
| OpenMP exercises, `example5` | shared/private variables | scopes, sections, schedules | data races | results independent of the schedule |
| FastFlow farms, `example6` | ready flags, buffer, in-flight counters | on-demand emitter, two nested feedback loops | termination with messages in flight | nothing lost, EOS only when nothing is in flight |
| Primes and file compressor, `example7` | ranges, results; map of file parts | all-to-all, master-worker, OpenMP; reader/worker/writer farm | splitting, collection of parts in any order | every number tested once; a file is complete when its parts are written |
| Macro data-flow and divide and conquer, `example8` | task graph | mdf, dac, cholesky, strassen | dependencies deduced from addresses | result equal to the sequential order |
| MPI exercises, `example9` to `example11`, `MPI_basics` | messages | master-workers, rings, Jacobi, SUMMA, collectives | non-blocking sends on reused buffers, rank arithmetic | messages paired, results equal to the sequential program |
| External sort, `steffe_SortingAlg` | run files, heap | sorted runs per rank, k-way merge | temporary files shared by pattern, truncated or stale output | output is the sorted input |

Vendored or outside the models: `miniz` (a compression library, used as an
external function), timing macros, command line and printing code.

## 2. Modules, and the code they stand for

The programs are independent, so each has a module of its own, or shares one
with its variants; programs of one kind are composed side by side, with a
variable that says which of them runs, so that one run of TLC checks them all.
The variables of a program that does not run hold a fixed value.

| module | code | state and actions |
|---|---|---|
| `ThreadPool` | `threadPool.hpp` of assignment 1 and of example4 | the fields under the mutex; `wait_loop`, the hooks, `notify_one`, `notify_all`. A critical section is one action, since nobody reads those fields without the mutex; what the code does after it releases the mutex is a step of its own. A condition variable is the set of the threads asleep on it, and spurious wakeups are steps. |
| `PoolWavefront` | `UTWavefront-par.cpp` with its pool | the client that enqueues the blocks of a diagonal, calls `starting_pool`, `wait_and_stop` and the destructor, diagonal after diagonal. `start_pool` is written without the mutex: a worker that reads it may see the old or the new value until the client's next lock (`StartRead`). |
| `TreeTraversal` | `tree-traversal.cpp` with the pool of example4 | tasks that spawn tasks; `spawn` reads `active_threads` without the mutex and runs the subtree itself or enqueues it |
| `Wavefront` | `Wf_seq.cpp` | the abstract specification: which elements an element needs. A value is `zero`, `ok` or `wrong`, so floating point does not appear |
| `WavefrontFF` | `Wf_ff.cpp` | emitter with its counters, workers, the queue to each worker and the one back |
| `WavefrontMPI` | `Wf_mpi.cpp` | a copy of the matrix per rank, the three phases, `MPI_Allgather` |
| `Stream` | the sequential loop behind a FastFlow network | the abstract specification: items in, every one out once, the end last |
| `FarmOnDemand` | `example-farm-ondemand.cpp` | source, emitter with ready flags and buffer, workers, sink, both ways to end |
| `TerminationLoop` | `termination_with_loop.cpp` | four stages, an inner and an outer loop, both ways to end the inner one |
| `DotProductStreams` | the pipelines, farms, all-to-all, single node and OpenMP pipelines of example6 | a network is a table of nodes and channels; a node's `svc`, the end of stream passing through it, the order the ordered farm keeps, tasks with `depend` clauses |
| `Primes` | `primes*.cpp` of example7, example8 and PDS | the parts of the range, emitter and workers with feedback, the all-to-all, the critical section of the OpenMP loop, the final sort |
| `FileCompressor` | `ffc_farm.cpp` with reader, workers, writer and `utility.hpp` | blocks of big files and small files as tasks, the map that counts the blocks of a file, which of them are on the disk whole or truncated, the archive or the merged file, temporary directories, what is removed; system calls fail in three ways: noted in `success`, not looked at, or with a signal behind them |
| `DirectoryWalk` | `walkDir`, `doWork` and `compdecomp.cpp` | a stack of open directories, the working directory that `chdir` changes, the value returned on the way up; failing calls of `chdir`, `opendir`, `readdir`, `stat` and on the files |
| `DataFlow` | `mdf_example.cpp`, `strassen_mdf.cpp`, `ff_chol_mdf.cpp` | tasks with the addresses they read and write; a task starts when those it depends on have ended. External: FastFlow lets a task wait for the last writer of an address and, when it writes, for the readers since; readers of an address no task has written are not known to it, which is why the program copies them |
| `DivideAndConquer` | `mergesort_dac_ptr.cpp`, `fib_dac.cpp`, `strassen_dac.cpp`, `omp_fibo.cpp` | calls that divide, or solve, and are combined when all parts have ended. Of `strassen_dac` one level; `mergeMS` is one step, which the disjoint segments of the calls justify |
| `StrassenAlgebra` | the seven products and four sums of `strassen_mdf.cpp` | a matrix as the set of signed products it sums |
| `ItemNetworks` | | four of them side by side, the networks that carry one stream of numbered items from a source to a sink: the farm on demand, the nested loops, `Wf_ff.cpp` and the dot products |
| `StreamNetworks` | | extends it with the others: all eight network and task programs side by side |
| `NKeysMPI` | `nkeys-par.cpp`, `nkeys-seq.cpp` | a copy of the counters per rank, rows of the product per rank, `MPI_Allreduce` and `MPI_Bcast` on the communicators of both builds; the sequential program as a function of the stream and a number of turns |
| `MessagePassing` | `PingPong`, `PingPongBarrier`, `Ring`, `ping_pong_ring_nb`, `send-recv`, the trapezoids, `master-workers`, `jacobi_1d`, `jacobi_seq` | one action per MPI call and the work up to the next one. External: messages in order per pair of ranks, copied by the library or not, collectives that end when all have called them, the thread level |
| `GridProducts` | `mm_2d.cpp`, `summa.cpp`, `summa_omp.cpp` | the grid of ranks, row and column communicators, the broadcasts of step k, the products added |
| `Collectives` | example10, `AllReduce`, `Communicators`, `Gather`, `Groups`, `Reduce`, `split`, `group`, `rowcol` | what each rank holds after the calls, as operators |
| `ExternalSort` | `steffe_SortingAlg/main.cpp` | the loop over slices of every rank of every job, the directory and the contents of the temporary files, the merge with its heap, the unlinking |
| `MPIPrograms` | | the MPI programs, the MPI wavefront, `nkeys-par` and the external sort side by side |
| `WordCount` | `Word-Count-seq.cpp` | the tokens of a text as positions (file, line, place), what `tokenize_line` adds to a map for a set of them, the map and the total of the whole text; a unit is the line or the file a task is made of |
| `WordCountOmp` | `Word-Count-par-for.cpp`, `Word-Count-omp-line.cpp`, `Word-Count-omp-file.cpp` | the three passes, the tasks, the barrier; the critical section as a read and a write by threads in mutual exclusion |
| `WordCountFF` | `Word-Count-ff-line.cpp`, `Word-Count-ff-file.cpp` | emitter that sends the units in the order of the text and broadcasts the end in its first call, workers, feedback |
| `Reductions` | | the word counts, with OpenMP and as farms, and `Primes` side by side: programs that deal out a text or a range and put together what each worker has found |
| `SpinLock`, `AtomicMax` | `spin-lock.cpp`, `atomic_max.cpp` | one action per atomic operation; `compare_exchange_weak` may fail spuriously |
| `AllPairs` | `all_pair.cpp`, dynamic distribution | the shared `global_lower` under its mutex |
| `RowSplits` | `matrix_vector.cpp`, `all_pair.cpp` static, `omp_all_pair.cpp` | the rows each thread still has, the result vector; one action per row, or per column where the program sums in the result |
| `AlarmClock` | `alarm_clock.cpp` | the student, the main thread, the condition variable; `alarm_clock_wrong.cpp` is its mutant |
| `ProdCons` | `prod-cons.cpp` | the deque as the numbers of items pushed and popped; a consumer's test without the mutex reads the two ends of the deque in two steps, in either order |
| `FuturesPool` | `threadPool.hpp` of example3 with `squareTP.cpp` and `preorder-tree.cpp` | the queue, the workers, the futures; main enqueues, notifies, gets, stops and joins |
| `ThreadPrograms` | `fibo*.cpp`, `make_task.cpp`, `spawn-and-join.cpp`, `one_shot_alarm_clock.cpp`, `reader-writer.cpp`, `atomic_counting.cpp`, `barrier.cpp`, `synchro.cpp` | threads main spawns one by one; each read and write of what they share is a step |
| `MemoryOrder` | the six `*_ordering*.cpp` | every store with the view its thread had when it released it; a load takes any store that coherence leaves open and acquires that view; the single order of `seq_cst` as one more view; fences |
| `SharedMemory` | | the nine thread programs side by side |
| `FiniteLemmas` | | what the proofs share: sums over finite sets, least elements, division, sequences |
| `PoolWavefrontProofs`, `TreeTraversalProofs`, `SharedMemoryProofs`, `ReductionsProofs`, `MPIProgramsProofs`, `ItemNetworksProofs`, `StreamNetworksProofs` | | the proofs about the modules they are named after |

The constants get their values in the `.cfg` files; a value that is a sequence or
a function is a definition (`TwoFiles`, `SmallTree`, `SmallRanges`, ...) at the end
of the module the run is about. `ItemNetworks` is a module of its own because the
provers see every constant and variable of the module they work in: the four
networks do not carry the variables of the other four. `Primes` is composed with
the word counts for the same reason.

A definition named `Mut...` or `mut_...` is the definition below it with a mistake
that the code might have had; the properties are tried against them and each is
violated by one. Nothing uses them otherwise.

## 3. What is checked

All passing runs finish and reach every action.

| run | instance | distinct states | what it shows |
|---|---|---|---|
| `pool_wavefront` | N = 9, T = 2 | 10,577 | the pool stops only when its diagonal is complete (`StopMeansDone`), an element is computed once at most and only behind all those of the earlier, longer diagonals (`DiagonalOrder`), no `enqueue` throws (`NeverThrows`), no block stays in the queue (`BlocksComputed`), and the client goes on whenever a task was outstanding as it began to wait (`StartedInTime`) |
| `pool_wavefront_stuck` | N = 2, T = 2 | | **violated**: `wait_and_stop` need not end, see 4 |
| `tree_traversal` | 3 workers, 5 nodes | 128,072 | the pool never takes a spawning worker for idle (`StopMeansVisited`), while a thread sleeps every queued subtree has a thread or a notification of its own coming, and not just its spawner, which goes on working (`QueueServed`), `main` returns |
| `wavefront_mpi_edge` | N = 2, 3 ranks | | **violated**: rank 0 overwrites the major diagonal, see 4 |
| `streams` | see below | 216,763 | the counters and flags by which emitters judge what is under way are exact (`InFlightCounted`); EOS is behind the last item on every channel (`EOSBehindLast`); pipelines and the ordered farm keep the order (`InputOrder`); a failing call of the compressor does no harm to any file but its own, compression removes no original without a complete result whatever fails, and "Done." is said over complete results but for failures the program does not look at (`FilesIntact`); data flow and divide and conquer give the sequential result (`AsIfSequential`); the networks implement `Stream` and `Wavefront`, and end |
| `compressor_removes`, `archive_lost` | as `streams`; one file in the second | | **violated**: see 4 |
| `reductions` | 2 files, 2 lines each, 2 words, 2 threads or workers; 3 ranges, 1 to 3 workers (any pair of numbers for the all-to-all), chunks of 3 | 7,327 | no count is lost while threads merge (`NothingLost`), every parallel region leaves the exact map and the total it should (`RegionsExact`), the farm's map and total are exact at every moment and its emitter ends only with all of them (`FarmExact`); every prime of a range is found once and listed in order (`PrimesFound`), and every program ends (`ReductionsEnd`) |
| `shared_memory` | 3 threads; 3 units, 7 numbers, 4 or 5 rows; 2 producers, 2 consumers, 2 items; a pool of 3 with 4 tasks | 142,414 | work is shared out once, increments and results are not lost (`SharedOut`); no consumer and no worker sleeps while there is work nobody is about to take (`NobodySleepsOnWork`); what was pushed before the stop is consumed; the assertions of the memory-order programs hold; every program ends |
| `mpi_programs` | see below | 218,374 | every rank computes with the message, sweep and block it should (`Results`), none is left over (`AllReceived`); the collectives place every element; the copies of the wavefront are right (`Replicated`); the ranks of `nkeys-par` follow the sequential program turn by turn (`SameAsSequential`), reduce one product (`SameProduct`), and no counter is stuck at its limit (`CountersRestart`); the result of a sort is its input, sorted (`SortedOutput`), and during the merge what is written, in the heap and unread is together the input (`MergedSoFar`); all programs end |
| `jacobi_rendezvous` | 3 ranks, 7 rows, 2 sweeps | | **violated**: see 4 |
| `external_sort_together` | 2 jobs started in one second | | **violated**: see 4 |

Why the bounds are enough.

- *Pool*: the diagonals of nine and eight elements are split in blocks of two,
  the last one cut off or not, the shorter ones in blocks of one; all but the
  shortest have at least as many blocks as threads, and for the last one `usedt`
  starts a single thread. With two threads one may be asleep, running or between
  its hook and the queue while the other stops the pool.
- *Tree*: five nodes put a spawn inside a spawned task, and three workers let one
  sleep, one run and one enqueue.
- *Streams*: four products on two workers fill the on-demand buffer and let EOS
  arrive before, between and behind the last flags. The wavefront of 6 on three
  workers has a remainder, an exact division and empty tasks. Two files, of
  1 or 3 and of 1 or 2 Mbyte, in one to three blocks, and two workers; calls fail for
  one file (`MaxFaults` bounds the pairs of a file and a way to fail, and not how
  often), so that a failed block may be the first, the last or the only one, or all. A tree of four directories has a
  subdirectory in a subdirectory and two side by side. The factorisation of 3 by
  3 blocks is the smallest in which all four kernels have readers and writers
  that overtake. Arrays of five elements with two values, the empty one and one
  of seven are cut unevenly and have equal elements on both sides of a cut.
- *Reductions*: two files share a word, one has an empty line and one a line of two
  words, so that two threads hold counts of the same word. The ranges of primes are
  empty, of eight and of nine numbers: with one to three workers, and with what the
  emitter keeps, they are divided with and without a remainder, and chunks of three
  leave a shorter one at the end.
- *Shared memory*: three threads let two of them meet while a third is behind.
  The rows are 2 or 4, with 2 or 4 columns, so that a thread may get no row and
  `check` meets both its branches. Four tasks for three workers give a worker
  a second task while another sleeps; four nodes make the tree of depth three.
- *MPI*: rings of two and of three ranks (a neighbour on both sides is the same
  rank, or not), four ranks for a grid of 2 by 2, seven rows on three ranks, one
  and two sweeps; collectives on 1 to 11 ranks, more than there are elements.
  Ten diagonals on four ranks go through all three phases, with exact and
  inexact divisions. With SIZE = 2 the counters of `nkeys` reach their limit
  inside three pairs, and three ranks leave one without rows. With RAMNUM = 2
  files of 0, 1, 3 and 5 numbers take less than a slice, a slice per rank, and
  two turns of a rank.

Fairness. Every thread, process or FastFlow node that can take a step is taken to
be scheduled again and again: `WF` per thread, as the operating system schedules
them. In `StreamNetworks` one `WF` on the whole next-state relation is enough: no
program there can run in circles, so that something happens until nothing can;
the primes in `Reductions` have one of their own for the same reason.
A collective is taken to complete once all its ranks call it. No fairness is put
on spurious wakeups, nor on a library copying what is sent. A spurious failure of
`compare_exchange_weak` changes nothing, so the `WF` on a thread's loop says that
it does not fail for ever. One `SF` is used: in `alarm_clock.cpp` a student that
wakes spuriously again and again could keep taking the mutex before main.
Deadlock is checked in every run; each module has an explicit step for a program
that has ended.

## 4. Findings

1. `threadPool.hpp:190` of assignment 1. Only the hook after a task sets
   `stop_pool`, and only when it sees `start_pool`. If the last task of a diagonal
   ends before the client has called `starting_pool()`, no later task exists and
   the client waits for ever (`pool_wavefront_stuck`). `StartedInTime` is what
   holds instead.
2. `Wf_mpi.cpp:110`. With N + 1 ranks the last phase starts at diagonal 0 and
   overwrites the initial values (`wavefront_mpi_edge`). With more ranks `N - B`
   wraps around; the assumption `NoWrapAround` leaves that out.
3. `steffe_SortingAlg/main.cpp:378`. Jobs that start within one second draw the
   same id and mix up their temporary files (`external_sort_together`).
4. `jacobi_1d.cpp:196`. The rows handed to `MPI_Isend` are overwritten without a
   wait for the sends: unless the library copies them, a neighbour computes with
   rows of a later sweep (`jacobi_rendezvous`).
5. `ffc/writer.hpp:97`. When a worker of `ffc_farm -D 1` fails behind the `fopen` of
   its output, the truncated block stays and is forwarded all the same; the writer
   merges it without an error and removes the archive (`archive_lost`). The comment
   of `decompressFile` says the input is removed "if successfully uncompressed".
6. `ffc/writer.hpp:65`. For a big file in the current directory the path that is
   removed is `.name`, not `name` (`compressor_removes`).

Also seen while modelling, without a run of their own:

- `ffc/utility.hpp:442`: `!chdir("..")` is true when `chdir` succeeds. The walk of
  `compdecomp` reports an error behind every subdirectory, against the comment of
  line 411 ("returns false in case of error"), and none when `chdir` does fail.
  `ReturnTrue` models both.
- `decompressFile` goes to `dcpError` with `pOutfile` uninitialised when the input
  cannot be opened (`utility.hpp:298`, 394), and the writer calls `fclose(NULL)` when
  the result cannot be created (`writer.hpp:85`, 111): the process may be killed there.
- `ffc/reader.hpp:98`: after an error of `readdir` the blocks found so far are sent with
  their own number as the total, so that the writer merges them as the whole file.
  `removeDir` (`utility.hpp:184`) removes the files of a directory that is not empty
  and then calls `unlink` on the directory, which stays. The `fclose` of what is
  decompressed or merged is never looked at (`utility.hpp:385`, `writer.hpp:111`), nor is
  what becomes of a small file that is compressed. These are the failures of kind
  "unseen", and why `FilesIntact` speaks of decompressed files without a failing call.
- `main.cpp:262` of the external sort opens the result without `O_TRUNC`: the tail
  of an earlier, longer result of the same name would stay. `Init` starts with no
  earlier result, or with one of the same length.
- `Word-Count-par-for.cpp` adds to `total_words` in each of its three passes, so
  the total it prints is three times the number of words; `RegionsExact` states
  what each region leaves. `Word-Count-seq.cpp:146` calls `std::clamp` with an
  upper bound of 0 when no word was read.
- `prod-cons.cpp` may leave an item in the deque that a producer pushed after the
  stop was requested: `NothingLeftBehind` is about the items pushed before.
- `example4/tree-traversal.cpp` with a capacity of zero runs the traversal in
  `main` and then waits for ever; `SomeThread` leaves that out.
- `synchro.cpp`: a consumer that does not look while the flag is up spins for ever;
  `ThreadsEnd` names the case (`Missed`).
- `primes_omp.cpp:64` does not sort when the schedule is static, so that with
  `OMP_SCHEDULE=static,chunk` the primes are printed out of order; `primes.cpp` of example7,
  `primes_parallelfor.cpp` and `primes_master-worker.cpp` with one worker
  include `n2`, the other programs exclude it.
- `ffc/worker.hpp:54` takes no notice of a small file that could not be written,
  and `utility.hpp:238` returns 0 after a failed write: "Done." is not stated of
  files with a failure of this kind. `ffc/cmdline.hpp:71` takes `std::min` where a
  minimum threshold is meant, so that `-t 0` divides by zero in `reader.hpp:36`.
- `compdecomp.cpp` does not return to where it started after an argument that is
  a directory, so that the next relative argument is looked up inside it.
- `example-omp2.cpp` has a buffer per `omp_get_max_threads()` and runs
  `num_threads(nworkers)`: with more workers it would be left; the model has
  enough buffers.
- `Group.cpp` frees `MPI_COMM_NULL` on the ranks outside the group, `ScatterTest.cpp`
  receives more than its buffer holds on few ranks, and `jacobi_1d.cpp` needs two
  rows per rank.

## 5. What is proved

For every value of the constants that the assumptions allow:

| module | theorem | statement |
|---|---|---|
| `PoolWavefrontProofs` | `TypeCorrect` | `Spec => []TypeOK` |
| | `StopIsSafe` | `Spec => []StopMeansDone` |
| | `WavefrontOrder` | `Spec => []DiagonalOrder` |
| | `EnqueueNeverThrows` | `Spec => []NeverThrows` |
| `TreeTraversalProofs` | `TypeCorrect` | `Spec => []TypeOK` |
| | `StopIsSafe` | `Spec => []StopMeansVisited` |
| | `QueueIsServed` | `Spec => []QueueServed` |
| `SharedMemoryProofs` | `WorkSharedOut` | `Spec => []SharedOut` |
| | `AssertsNeverFire` | `Spec => []NeverFires` |
| | `NobodySleeps` | `Spec => []NobodySleepsOnWork` |
| | `StopsLeaveNothing` | `Spec => []NothingLeftBehind` |
| `ReductionsProofs` | `NoWordLost` | `AllSpec => []NothingLost` |
| | `EveryRegionExact` | `AllSpec => []RegionsExact` |
| | `ReductionExact` | `AllSpec => []FarmExact` |
| | `EveryPrimeFound` | `AllSpec => []PrimesFound` |
| `MPIProgramsProofs` | `EveryRankHasTheMatrix` | `Replicated`, on at most N ranks |
| | `RanksAgreeWithSequential` | `Spec => []SameAsSequential` |
| | `ReductionsOfOneProduct` | `Spec => []SameProduct` |
| | `CountersStayBelow` | `Spec => []CountersRestart` |
| `StreamNetworksProofs` | `WavefrontImplemented` | `Spec => AbstractWavefront`: `Wf_ff.cpp` implements `Wavefront` |
| | `CountedInFlight` | `Spec => []InFlightCounted` |
| | `EOSIsLast` | `Spec => []EOSBehindLast` |
| | `StreamsImplemented` | `Spec => NetworksAreStreams`: the networks implement `Stream` |
| | `ResultsInOrder` | `Spec => []InputOrder` |
| | `FilesStayIntact` | `Spec => []FilesIntact` |

The assumptions are the `ASSUME`s of the modules: sizes are natural numbers,
numbers of threads, workers and ranks positive ones, sets of threads finite, a
value that stands for "no task" or "no thread" is not one. They are what the
programs need to start at all, but for `NoWrapAround` (see 4) and `WalkAssumption`:
the directories `compdecomp` walks through are a tree, and no argument is given
twice (the second time the file would not be found). The one theorem with a
hypothesis of its own is `EveryRankHasTheMatrix`: `mpiSize <= N`. With N + 1 ranks
the statement is false, which is what `wavefront_mpi_edge` shows.

None of the invariants is inductive. The strengthening, in each case, says *where
everything is*:

- *Pool of assignment 1* (`IInv`). Handed to the pool, elements are pending or
  computed and not both (`CoverInv`), pending blocks are disjoint and belong to
  the current diagonal (`DisjointInv`, `BlockInv`), `active_threads` counts the
  busy workers (`ActiveCounted`), and a stopped pool is idle, with the client past
  its last `enqueue` (`StopInv`, `ClientInv`). When the hook finds no active thread
  and an empty queue behind `starting_pool()`, nothing is pending and everything
  has been handed over. `OrderInv` carries this to the next diagonal. `StopInv` also
  is why `enqueue` cannot throw.
- *Tree traversal* (`IInv`). Every node whose parent has been visited is visited,
  queued, or on the stack of a thread, in one place only (`PlacesInv`,
  `ReachedInv`); a thread inside `traverse` is counted (`ActiveCounted`,
  `ThreadInv`). When no thread is active and the queue is empty nothing is pending;
  the least node not visited would have a visited parent, so there is none.
  `QueueServed` is inductive next to these: a task comes with a notification, which
  wakes a thread if one sleeps; a thread that goes to look at the queue takes a task,
  and falls asleep only when there is none.
- *Producers and consumers.* What a consumer has read of the deque without the
  mutex bounds what has been consumed, from above or from below, depending on the end
  it has read first (`StopInv`). *Pool of futures:* a task is queued or in the hands
  of one worker until its future is set (`TaskInv`), what `main` has read is set
  (`PrintInv`), and the notifications to come and the workers awake are as many as the
  queued tasks (`EveryTaskIsServed`, which is inductive next to the others). Its
  `main` submits a node once because the nodes listed, with those behind them, are
  those not submitted (`NodeInv`); that every node has been submitted at the end
  follows from the least one that has not, whose parent has.
- *Spin-lock, maximum, pairs.* Whoever is past the exchange of the flag is alone, and
  the counter and what was taken make up the supply (`SpinInv`); the atomic never
  becomes less, so what a thread has loaded is a lower bound (`MaxInv`); the chunks
  of the threads are disjoint and below `global_lower`, a row below it is computed or
  in the rest of one (`ChunkInv`, `RowInv`).
- *Splits of rows.* Whatever the function (`cyclic`, `block`, `block_cyclic`, a schedule
  of OpenMP), every row has one thread (`SplitOwner`, division with remainder), for all
  sizes. A row nobody has any more is in the result (`ReadyInv`), one summed in place
  has the terms so far (`SumInv`), and the sum of all of them is the closed form
  the program checks against (`Triangle`).
- *Small programs.* A thread has ended exactly when its result is set, and main reads
  the results in order (`FiboInv`); a writer is alone with what it has read, and the
  counter is what the threads have added (`CountInv`); the last one to come opens the
  barrier (`BarrierInv`); the consumer of `synchro.cpp` reads after the producer wrote
  (`SynchroInv`).
- *Memory orders.* A variable is stored to once, so that what a thread may read of it
  is fixed by whether it has seen the store (`OrderInv`). With `seq_cst` whoever has
  seen one of `x` and `y` set reads the last store of the other (`SeqInv`); with
  acquire and release, or fences, the store to `y` carries the view of the store
  to `x`, and who has read it after the acquire has seen `x` too (`AcqRelInv`,
  `FenceInv`).
- *Word counts, OpenMP.* `NothingLost` is a sum over the threads. A thread inside the
  critical section holds in `reg` what it read; the sum is kept because the counter
  has not moved since (`ValueInv`), and that because nobody else is inside
  (`MutexInv`). The total is kept in the same way (`WordsInv`); a barrier is passed
  with nothing left in hand (`EndInv`), which makes the sums the result of the
  region. *Farm:* a task is in one place at most from the moment it is sent until it
  is added (`PlaceInv`), and in no place only if it has been added or not sent.
- *Primes.* The range is partitioned (`Splits`, division with remainder): parts, chunks
  and what has not been sent are disjoint (`ApartInv`) and inside the range
  (`WithinInv`), every prime is in one of them, in the part the emitter keeps or in a
  list (`CoverInv`), and the lists have nothing but primes, each once (`FoundInv`,
  `ResultInv`). The programs that do not sort at the end have a part for each worker,
  in order (`InRowInv`), which is why `upper_bound` finds the place of a list. What
  `is_prime` computes is that a number is prime: its least divisor is not above the
  root, and 2, 3 or next to a multiple of 6.
- *MPI wavefront.* Every rank has the elements of the diagonals behind it
  (`Behind`); ranks meet in the gathers, so that none is more than one step ahead
  (`Together`), and what a gather will bring is computed (`Brought`).
- *nkeys.* First, the rows of a product are shared out by the members of a
  communicator, so that a reduction of ranks that agree is the whole product.
  Then `After(st, k)`: what the sequential program has after k turns of the stream
  st. Then the ranks: each has what `After` gives for its own turn
  (`RankInv`), and two ranks in different turns have no product between them that
  only one of them would reduce (`Sync`).
- *Wavefront on FastFlow.* An element of the current diagonal is computed, or in the
  share of exactly one worker who waits for it, works on it or returns it; the
  shares are disjoint and cover the diagonal. Four phases of the emitter
  (`BeforeFirst`, `InDiagonal`, `Closing`, `Closed`) say which of these can be.
- *Farm on demand.* A worker's flag, its queue and its state are those of one that
  is served (`Serves`) or has been told to end (`Told`); every task is in one place
  (`TaskOnce`). *Nested loops:* outer and inner items counted with what is in each
  queue (`OuterLoop`, `InnerLoop`), every item in one place (`ItemOnce`).
- *Dot products.* One invariant for all the networks, over their table of nodes and
  channels: EOS is the last in a channel and there only if the node in front has
  ended (`ChannelsEnd`, `NodesEnd`), every item is in exactly one channel or node, or
  out (`DotOnce`). Channels have a depth; when the sink has ended, the deepest
  channel still open would have a node behind it that ended too early.
- *Order of the dot products.* In a pipeline of three the items added up, in the channel
  behind the middle node, held by it, in the channel before it and not sent yet are
  consecutive numbers (`InLine`); which channel may hold EOS follows from the
  invariant above. The collector of the ordered farm takes an item only when all
  before it are added up.
- *`ffc_farm`.* A block is in one place: the reader's list, a queue, a worker
  (`BlockOnce`). A file of many blocks that is compressed, or decompressed without a failing
  call of its own, has in the writer's counter the blocks that came (`InProgress`),
  which are never all of them: with the last one the result is made, and from then on
  nothing of the file is under way (`Joined`). In compression a failed block does not
  come, and the file stays in progress, its original there; a file of one block has its
  worker's result (`Single`). `FileInv` says that each file is in one of these states.
  When the writer ends no block is left (`CompEnd`), and a failure the program looks
  at has cleared a `success` (`Noted`), which is what "Done." is said of.
- *`compdecomp`.* What `main` and each call of `walkDir` have before them, down to the
  last file below, are disjoint sets (`ComesOnce`), and no removed file is in one of
  them (`Gone`), whatever calls fail: otherwise a second, failing compression would spoil the only copy.
  That entries of one directory have nothing in common below them follows from the tree
  (`BelowApart`).

A temporal theorem follows from three facts: `Init` implies the invariant, a step
of the program keeps it, and the property follows; the refinements add that each step
maps to a step of the abstract specification or to a stutter. In composed modules
a step of one program leaves the variables of the others alone.

Induction over data is done by hand: the library's induction theorems take an
operator as a parameter and cannot be used, but a least counterexample can be
picked (`LeastNatural`, `SmallestSubset`). The sums of the community modules are
reasoned about this way: `SumOver` in `FiniteLemmas` is `MapThenSumSet`, and the
lemmas about it (one element changed, a set split in two) come from the
well-foundedness of the subset order.

Only model-checked: liveness (`BlocksComputed`, `StartedInTime`, `MainReturns`,
`ReductionsEnd`, `ThreadsEnd`, `ProgramsEnd`, `NetworksEnd`), which is outside the
prover; of the MPI programs `Results`, `AllReceived`,
`CollectivesCorrect`, `SortedOutput` and `MergedSoFar`; of the streams `AsIfSequential`.
They rest on sorting, on recursive operators or on tables of programs.

## 6. Not modelled

`PROJECT.json` lists every program with its state. Outside for good: the
vectorisation benchmarks, timing macros and measurements, the exercises that only
print or that the OpenMP runtime or FastFlow does alone (`omp_*` but `omp_fibo` and
`omp_all_pair`, `ff_pi`, `farm_pinning`), vectors and maps of PDS, `queue.cpp`, a
class no program uses, the MPI programs of a single call, the vendored `miniz`;
floating-point arithmetic, command lines, input parsing and output wherever they
occur.

Abstractions worth knowing: FastFlow and MPI are modelled from how the programs
use them (first-in first-out queues per pair of nodes; messages in order per pair
of ranks; collectives that complete when every rank has called them). Sums in
`NKeysMPI` are exact integers, so the difference between `float` in `nkeys-seq.cpp`
and `double` in `nkeys-par.cpp` does not show. `MemoryOrder` has no out-of-thin-air
values and takes a store's place in the modification order to be the order of
execution, which is all that programs with one store per variable can tell. What
`miniz` writes is a file that is whole, truncated or missing. The unlinks of originals, and of
the files in a temporary directory, are taken to work, and a directory given
to `ffc_farm` is the list of the files its reader finds in it. `strassen_dac` is
divided once. A result of a dot product that is 0.0 is, sent as a pointer, the null
pointer; the products are taken not to be zero.

## 7. Plan

Done: all components with a protocol of their own, composed in six passing runs by kind;
six violations of what the code says of itself; the proofs of section 5.

Theorems worth proving next: `MergedSoFar` of the external sort, with the multiset of
what is written, in the heap and unread;
`AllReceived` of the rings for any number of ranks.

Runs worth adding: the external sort over an earlier, longer result; `ffc_farm` with
the same file twice on its command line.
