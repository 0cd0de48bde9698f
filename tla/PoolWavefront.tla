---------------------------- MODULE PoolWavefront -----------------------------
(***************************************************************************)
(* parallelWavefront: the upper diagonals of an N x N matrix one after the *)
(* other, each with a pool of its own.  The client enqueues the blocks of  *)
(* the diagonal, declares the pool started, waits for it to stop and lets  *)
(* the destructor join the workers before the next diagonal.               *)
(***************************************************************************)
EXTENDS ThreadPool

CONSTANTS
  N,    \* size of the matrix
  T     \* threads asked for on the command line

ASSUME SizeAssumption == N \in Nat
ASSUME ThreadsAssumption == T \in Nat \ {0} /\ Thread = 1 .. T   \* the code supposes T > 0

VARIABLES
  k,            \* the diagonal being computed
  i,            \* first element of the next block
  start_pool,   \* written by the client without the mutex
  computed      \* how often each element has been computed

vars == <<tasks, stop_pool, active_threads, pc, task, client,
          k, i, start_pool, computed>>

(* Element r of upper diagonal d.                                           *)
Cell == {c \in (0 .. N - 1) \X (0 .. N - 1) : c[1] + c[2] < N}
Diagonal(d) == {c \in Cell : c[1] = d}
Block == [diag : 0 .. N - 1, from : 0 .. N - 1, to : 1 .. 2 * N]

ASSUME TaskAssumption == Task = Block

reusability == 2

usedt(d) == IF T < N - d THEN T ELSE (N - d) \div reusability + 1

blockSize(d) ==
  LET size == (N - d) \div (usedt(d) * reusability)
  IN  IF size > 0 THEN size ELSE 1

(* Mutant: the last element is included.                                    *)
MutBlockCells(b) ==
  LET t == IF b.to > N - b.diag THEN N - b.diag ELSE b.to
  IN  {c \in Diagonal(b.diag) : b.from <= c[2] /\ c[2] <= t}

(* blockWavefront clamps the end of a block to the end of the diagonal.     *)
BlockCells(b) ==
  LET t == IF b.to > N - b.diag THEN N - b.diag ELSE b.to
  IN  {c \in Diagonal(b.diag) : b.from <= c[2] /\ c[2] < t}

-----------------------------------------------------------------------------

Init ==
  /\ NoPool
  /\ client = "construct"
  /\ k = 0
  /\ i = 0
  /\ start_pool = FALSE
  /\ computed = [c \in Cell |-> 0]

NewPool ==
  /\ client = "construct"
  /\ k < N
  /\ Construct(1 .. usedt(k))
  /\ start_pool' = FALSE
  /\ i' = 0
  /\ client' = "enqueue"
  /\ UNCHANGED <<k, computed>>

EnqueueBlock ==
  /\ client = "enqueue"
  /\ i < N - k
  /\ Enqueue([diag |-> k, from |-> i, to |-> i + blockSize(k)])
  /\ client' = IF stop_pool THEN "terminate" ELSE "notify"   \* nothing catches
  /\ UNCHANGED <<stop_pool, active_threads, pc, task,
                 k, i, start_pool, computed>>

NotifyWorker ==
  /\ client = "notify"
  /\ pc' \in NotifyOne(pc)
  /\ i' = i + blockSize(k)
  /\ client' = "enqueue"
  /\ UNCHANGED <<tasks, stop_pool, active_threads, task,
                 k, start_pool, computed>>

(* starting_pool() does not take the mutex.                                 *)
starting_pool ==
  /\ client = "enqueue"
  /\ i >= N - k
  /\ start_pool' = TRUE
  /\ client' = "started"
  /\ UNCHANGED <<tasks, stop_pool, active_threads, pc, task, k, i, computed>>

(* The first critical section of wait_and_stop; until it begins, nothing    *)
(* orders the write of start_pool before the workers' critical sections.    *)
EnterWait ==
  /\ client = "started"
  /\ client' = IF stop_pool THEN "destroy" ELSE "asleep"
  /\ UNCHANGED <<tasks, stop_pool, active_threads, pc, task,
                 k, i, start_pool, computed>>

NextDiagonal ==
  /\ Join("construct")
  /\ k' = k + 1
  /\ UNCHANGED <<i, start_pool, computed>>

Return ==
  /\ client = "construct"
  /\ k = N
  /\ client' = "returned"
  /\ UNCHANGED <<tasks, stop_pool, active_threads, pc, task,
                 k, i, start_pool, computed>>

Client ==
  \/ NewPool
  \/ EnqueueBlock
  \/ NotifyWorker
  \/ starting_pool
  \/ EnterWait
  \/ (wait_and_stop \/ Destroy \/ WakeAll) /\ UNCHANGED <<k, i, start_pool, computed>>
  \/ NextDiagonal
  \/ Return

blockWavefront(w) ==
  /\ pc[w] = "run"
  /\ computed' = [c \in Cell |->
                    IF c \in BlockCells(task[w]) THEN computed[c] + 1 ELSE computed[c]]
  /\ pc' = [pc EXCEPT ![w] = "ran"]
  /\ UNCHANGED <<tasks, stop_pool, active_threads, task, client, k, i, start_pool>>

(* The values a worker's unsynchronised read of start_pool can return: a    *)
(* data race from the client's write until its next acquisition of the      *)
(* mutex.                                                                   *)
StartRead ==
  IF start_pool /\ client = "started" THEN BOOLEAN ELSE {start_pool}

Finish(w) ==
  /\ \E armed \in StartRead : FinishTask(w, armed)
  /\ UNCHANGED <<k, i, start_pool, computed>>

Worker(w) ==
  \/ Loop(w) /\ UNCHANGED <<k, i, start_pool, computed>>
  \/ blockWavefront(w)
  \/ Finish(w)

Spurious ==
  /\ SpuriousReturn \/ \E w \in Thread : SpuriousWakeup(w)
  /\ UNCHANGED <<k, i, start_pool, computed>>

(* parallelWavefront has returned, or an exception has ended the process.   *)
Ended ==
  /\ client \in {"returned", "terminate"}
  /\ UNCHANGED vars

Next ==
  \/ Client
  \/ \E w \in Thread : Worker(w)
  \/ Spurious
  \/ Ended

Spec == Init /\ [][Next]_vars

(* Every thread that can take a step keeps being scheduled; a spurious      *)
(* wake-up never has to happen.                                             *)
FairSpec ==
  /\ Spec
  /\ WF_vars(Client)
  /\ \A w \in Thread : WF_vars(Worker(w))

-----------------------------------------------------------------------------
ClientPC == {"construct", "enqueue", "notify", "started", "asleep", "wait",
             "destroy", "notify_all", "join", "returned", "terminate"}

TypeOK ==
  /\ PoolTypeOK
  /\ client \in ClientPC
  /\ k \in 0 .. N
  /\ i \in Nat
  /\ start_pool \in BOOLEAN
  /\ computed \in [Cell -> Nat]

(* The pool stops itself, or is stopped by its destructor, only when every  *)
(* element of the diagonal has been computed: the worker that sees zero     *)
(* active threads and an empty queue must not be fooled by a client that    *)
(* is still enqueueing.                                                     *)
StopMeansDone ==
  stop_pool => \A d \in 0 .. k : \A c \in Diagonal(d) : computed[c] > 0

(* The dependency of the wavefront: no element is computed twice, and an    *)
(* element only after all the elements of the earlier, longer diagonals.    *)
DiagonalOrder ==
  \A c \in Cell :
    /\ computed[c] <= 1
    /\ computed[c] > 0 => \A e \in Cell : e[1] < c[1] => computed[e] = 1

(* enqueue never finds the pool stopped, so its exception is never thrown.  *)
NeverThrows == client # "terminate"

(* A block that has been enqueued is computed: no wake-up of a worker is    *)
(* lost, whatever happens to the client.                                    *)
BlocksComputed ==
  \A c \in Cell :
    (\E j \in DOMAIN tasks : c \in BlockCells(tasks[j])) ~> computed[c] = 1

(* If a task is still outstanding when the client begins to wait, the       *)
(* diagonal ends and the pool is joined.                                    *)
StartedInTime ==
  client = "asleep" /\ (active_threads > 0 \/ tasks # <<>>)
    ~> client \in {"construct", "returned"}

(* What the comment in wait_and_stop promises: the pool the client waits    *)
(* for is set to stop.                                                      *)
WaitEnds == client = "asleep" ~> client # "asleep" /\ stop_pool

-----------------------------------------------------------------------------
(* The inductive invariant behind StopMeansDone, DiagonalOrder and          *)
(* NeverThrows.                                                             *)

NoPoolPC == {"construct", "returned"}
EnqueuePC == {"enqueue", "notify"}
StoppedPC == {"destroy", "notify_all", "join"}

(* How much of the diagonal has been handed to the pool.                    *)
Handed == IF client = "notify" THEN i + blockSize(k) ELSE i

(* The blocks that are still to be computed.                                *)
Queued(j, c) == j \in DOMAIN tasks /\ c \in BlockCells(tasks[j])
Running(w, c) == pc[w] = "run" /\ c \in BlockCells(task[w])

GoodBlock(b) == b \in Block /\ b.diag = k /\ b.to <= Handed

ClientInv ==
  /\ client # "terminate"
  /\ client \in NoPoolPC => NoPool
  /\ client \notin NoPoolPC => k < N
  /\ client \in EnqueuePC => ~start_pool
  /\ client \notin EnqueuePC \cup NoPoolPC => i >= N - k
  /\ client \in StoppedPC => stop_pool

BlockInv ==
  /\ \A j \in DOMAIN tasks : GoodBlock(tasks[j])
  /\ \A w \in Busy : GoodBlock(task[w])

(* Two pending blocks have no element in common.                            *)
DisjointInv ==
  \A c \in Cell :
    /\ \A j, h \in DOMAIN tasks : Queued(j, c) /\ Queued(h, c) => j = h
    /\ \A v, w \in Thread : Running(v, c) /\ Running(w, c) => v = w
    /\ \A j \in DOMAIN tasks, w \in Thread : ~(Queued(j, c) /\ Running(w, c))

(* An element handed to the pool is pending or computed, never both.        *)
CoverInv ==
  \A c \in Diagonal(k) :
    /\ client \notin NoPoolPC /\ c[2] < Handed =>
         \/ computed[c] = 1
         \/ \E j \in DOMAIN tasks : Queued(j, c)
         \/ \E w \in Thread : Running(w, c)
    /\ computed[c] = 1 =>
         /\ client \notin NoPoolPC
         /\ c[2] < Handed
         /\ \A j \in DOMAIN tasks : ~Queued(j, c)
         /\ \A w \in Thread : ~Running(w, c)

OrderInv ==
  \A c \in Cell :
    /\ c[1] < k => computed[c] = 1
    /\ c[1] = k => computed[c] \in {0, 1}
    /\ c[1] > k => computed[c] = 0

StopInv ==
  stop_pool =>
    /\ client \notin EnqueuePC
    /\ tasks = <<>>
    /\ Busy = {}

IInv ==
  /\ TypeOK
  /\ ActiveCounted
  /\ ClientInv
  /\ BlockInv
  /\ DisjointInv
  /\ CoverInv
  /\ OrderInv
  /\ StopInv
=============================================================================
