------------------------------ MODULE SharedMemory ------------------------------
(***************************************************************************)
(* The C++ thread programs of example2 to example5 and PDS, side by side;  *)
(* one of them runs.                                                       *)
(***************************************************************************)
EXTENDS Naturals, FiniteSets

CONSTANTS
  num_threads,
  Supply,                  \* spin-lock: the units to take
  num_iters,               \* atomic_max
  rows, chunk_size, free,  \* all_pair
  Producer, Consumer, MaxItems, none,
  capacity, num_nodes      \* threadPool.hpp and its users

ASSUME ThreadsAssumption == num_threads \in Nat \ {0}
ASSUME CountsAssumption == Supply \in Nat /\ num_iters \in Nat
ASSUME ChunkAssumption == chunk_size \in Nat \ {0} /\ rows \in Nat
ASSUME PoolAssumption == capacity \in Nat \ {0} /\ num_nodes \in Nat \ {0}
ASSUME FiniteAssumption == IsFiniteSet(Producer) /\ IsFiniteSet(Consumer)
ASSUME NobodyAssumption == free \notin 1 .. num_threads /\ none \notin Producer \cup Consumer

VARIABLES
  running,                 \* the program that runs
  flag, counter, pc, success,
  maximum, i, previous, loaded,
  mutex, global_lower, lower, row, phase, computed,
  owner, time_for_breakfast, student, ringer,
  stop, told, mtx, pushed, popped, made, producer, consumer, seen, pushedAtStop,
  text, stores, view, released, acquired, sc, at, z,
  preorder, traverse, tasks, stop_pool, active_threads, futures, worker, task,
  submitter, printed,
  split, left, col, b,
  prog, spawned, thread, todo, tmp, results, read, shared, go

spinVars == <<flag, counter, pc, success>>
maxVars == <<maximum, i, previous, loaded>>
pairVars == <<mutex, global_lower, lower, row, phase, computed>>
clockVars == <<owner, time_for_breakfast, student, ringer>>
queueVars == <<stop, told, mtx, pushed, popped, made, producer, consumer, seen, pushedAtStop>>
orderVars == <<text, stores, view, released, acquired, sc, at, z>>
poolVars == <<preorder, traverse, tasks, stop_pool, active_threads, futures, worker, task,
              submitter, printed>>
splitVars == <<split, left, col, b>>
threadVars == <<prog, spawned, thread, todo, tmp, results, read, shared, go>>
newVars == <<poolVars, splitVars, threadVars>>
oldVars == <<spinVars, maxVars, pairVars, clockVars, queueVars, orderVars>>
vars == <<running, oldVars, newVars>>

Spin == INSTANCE SpinLock WITH Thread <- 1 .. num_threads
Maxi == INSTANCE AtomicMax
Pairs == INSTANCE AllPairs
Clock == INSTANCE AlarmClock
Queue == INSTANCE ProdCons
Order == INSTANCE MemoryOrder
Pool == INSTANCE FuturesPool WITH at <- worker
Rows == INSTANCE RowSplits
Threads == INSTANCE ThreadPrograms WITH at <- thread, printed <- read

Program == {"spin-lock", "atomic_max", "all_pair", "alarm_clock", "prod-cons", "ordering",
            "threadPool", "rows", "threads"}

(* The calls: m and n are powers of two in matrix_vector.cpp.               *)
RowCalls ==
  [kind : {"cyclic", "falsesharing", "block", "block_cyclic"},
   m : {2, 4}, n : {2, 4}, chunk_size : {chunk_size}]
  \cup [kind : {"all_pairs", "omp_all_pair"}, m : {rows - 1}, n : {1}, chunk_size : {1, chunk_size}]

ThreadProgram ==
  {"fibo", "futures", "one_shot", "reader-writer", "lock_count", "atomic_count", "barrier",
   "synchro"}

(* The variables of a program that does not run.                            *)
NoPool ==
  /\ preorder = 0 /\ traverse = 0 /\ tasks = 0 /\ stop_pool = 0 /\ active_threads = 0
  /\ futures = 0 /\ worker = 0 /\ task = 0 /\ submitter = 0 /\ printed = 0
NoRows ==
  /\ split = 0 /\ left = 0 /\ col = 0 /\ b = 0
NoThreads ==
  /\ prog = 0 /\ spawned = 0 /\ thread = 0 /\ todo = 0 /\ tmp = 0
  /\ results = 0 /\ read = 0 /\ shared = 0 /\ go = 0

Init ==
  /\ running \in Program
  /\ Spin!Init /\ Maxi!Init /\ Pairs!Init /\ Clock!Init /\ Queue!Init
  /\ IF running = "ordering" THEN Order!Init ELSE Order!InitWith(Order!relaxed_ordering)
  /\ IF running = "threadPool" THEN Pool!Init ELSE NoPool
  /\ IF running = "rows" THEN \E s \in RowCalls : Rows!InitWith(s) ELSE NoRows
  /\ IF running = "threads" THEN \E p \in ThreadProgram : Threads!InitWith(p)
     ELSE NoThreads

InSpin(A) == running = "spin-lock" /\ A
  /\ UNCHANGED <<running, maxVars, pairVars, clockVars, queueVars, orderVars, newVars>>
InMax(A) == running = "atomic_max" /\ A
  /\ UNCHANGED <<running, spinVars, pairVars, clockVars, queueVars, orderVars, newVars>>
InPairs(A) == running = "all_pair" /\ A
  /\ UNCHANGED <<running, spinVars, maxVars, clockVars, queueVars, orderVars, newVars>>
InClock(A) == running = "alarm_clock" /\ A
  /\ UNCHANGED <<running, spinVars, maxVars, pairVars, queueVars, orderVars, newVars>>
InQueue(A) == running = "prod-cons" /\ A
  /\ UNCHANGED <<running, spinVars, maxVars, pairVars, clockVars, orderVars, newVars>>
InOrder(A) == running = "ordering" /\ A
  /\ UNCHANGED <<running, spinVars, maxVars, pairVars, clockVars, queueVars, newVars>>
InPool(A) == running = "threadPool" /\ A /\ UNCHANGED <<running, oldVars, splitVars, threadVars>>
InRows(A) == running = "rows" /\ A /\ UNCHANGED <<running, oldVars, poolVars, threadVars>>
InThreads(A) == running = "threads" /\ A /\ UNCHANGED <<running, oldVars, poolVars, splitVars>>

Next ==
  \/ InSpin(Spin!Next) \/ InMax(Maxi!Next) \/ InPairs(Pairs!Next)
  \/ InClock(Clock!Next) \/ InQueue(Queue!Next) \/ InOrder(Order!Next)
  \/ InPool(Pool!Next) \/ InRows(Rows!Next) \/ InThreads(Threads!Next)

(* Every thread, main included, is scheduled again and again.  A student    *)
(* that wakes spuriously again and again does not keep main from the mutex. *)
Spec ==
  /\ Init /\ [][Next]_vars
  /\ \A t \in 1 .. num_threads :
       /\ WF_vars(InSpin(Spin!F(t)))
       /\ WF_vars(InPairs(Pairs!dynamic_block_cyclic(t)))
  /\ \A t \in Maxi!Thread : WF_vars(InMax(Maxi!correct_max(t)))
  /\ WF_vars(InClock(Clock!Student)) /\ SF_vars(InClock(Clock!Main))
  /\ \A p \in Producer : WF_vars(InQueue(Queue!Produce(p)))
  /\ \A c \in Consumer : WF_vars(InQueue(Queue!Consume(c)))
  /\ WF_vars(InQueue(Queue!Main))
  /\ \A t \in 1 .. 4 : WF_vars(InOrder(t \in Order!Thread /\ Order!Run(t)))
  /\ WF_vars(InPool(Pool!Main))
  /\ \A w \in Pool!Worker : WF_vars(InPool(Pool!wait_loop(w)))
  /\ \A t \in Rows!Thread : WF_vars(InRows(Rows!Run(t)))
  /\ WF_vars(InThreads(Threads!Main))
  /\ \A t \in Threads!Thread : WF_vars(InThreads(Threads!Run(t)))

-----------------------------------------------------------------------------
(* What the threads share out is shared out exactly once: the units of the  *)
(* counter (spin-lock.cpp), the rows (all_pair.cpp, omp_all_pair.cpp,       *)
(* matrix_vector.cpp), the maximum over all numbers (atomic_max.cpp), the   *)
(* tasks of a pool (threadPool.hpp), increments and results (the others).   *)
SharedOut ==
  /\ Spin!TakenOnce /\ Maxi!MaxSoFar /\ Pairs!RowsShared
  /\ running = "threadPool" => Pool!EveryTaskOnce
  /\ running = "rows" => Rows!RowsSplit
  /\ running = "threads" => Threads!NothingMissed

(* prod-cons.cpp, threadPool.hpp: no consumer and no worker sleeps while    *)
(* there is work nobody is about to take.                                   *)
NobodySleepsOnWork ==
  Queue!NobodySleepsOnWork /\ (running = "threadPool" => Pool!EveryTaskIsServed)

(* prod-cons.cpp, threadPool.hpp: what was pushed before the stop is        *)
(* consumed.                                                                *)
NothingLeftBehind ==
  Queue!NothingLeftBehind /\ (running = "threadPool" => Pool!StopsEmpty)

(* *_ordering*.cpp: the assertions that must not fire do not, and the plain *)
(* variable is read without a race.                                         *)
NeverFires == Order!NeverFires

(* Every program ends; for alarm_clock.cpp, the student gets up.  In        *)
(* synchro.cpp the consumer may miss the flag and spin for ever.            *)
ThreadsEnd ==
  <> CASE running = "spin-lock" -> Spin!Done
       [] running = "atomic_max" -> Maxi!Done
       [] running = "all_pair" -> Pairs!Done
       [] running = "alarm_clock" -> Clock!Done
       [] running = "prod-cons" -> Queue!Done
       [] running = "ordering" -> Order!Done
       [] running = "threadPool" -> Pool!Done
       [] running = "rows" -> Rows!Done
       [] running = "threads" -> Threads!Done \/ Threads!Missed
=============================================================================
