-------------------------- MODULE PoolWavefrontProofs --------------------------
(* Proofs about PoolWavefront, for every size N and every number T of       *)
(* threads.                                                                 *)
EXTENDS PoolWavefront, TLAPS, FiniteSetTheorems

(* A quotient is at most the dividend.                                      *)
LEMMA DivBound ==
  ASSUME NEW a \in Nat, NEW m \in Nat \ {0}
  PROVE  a \div m \in 0 .. a
<1>. DEFINE q == a \div m
<1>1. q \in Int /\ a = m * q + (a % m) /\ a % m \in 0 .. m - 1
  OBVIOUS
<1>2. q >= 0
  BY <1>1
<1>3. q <= a
  BY <1>1, <1>2
<1>. QED
  BY <1>1, <1>2, <1>3

(* The partition of a diagonal never asks for a pool without threads, and   *)
(* no block is empty or longer than the diagonal.                           *)
LEMMA BlockSizeBound ==
  ASSUME NEW d \in 0 .. N - 1
  PROVE  /\ usedt(d) \in 1 .. T
         /\ blockSize(d) \in 1 .. N - d
<1>1. usedt(d) \in 1 .. T
  BY SizeAssumption, ThreadsAssumption DEF usedt, reusability
<1>2. usedt(d) * reusability \in Nat \ {0}
  BY <1>1, ThreadsAssumption DEF reusability
<1>3. (N - d) \div (usedt(d) * reusability) \in 0 .. N - d
  BY <1>2, DivBound, SizeAssumption
<1>. QED
  BY <1>1, <1>3, SizeAssumption DEF blockSize
-----------------------------------------------------------------------------

LEMMA NotifyOneType ==
  ASSUME NEW p \in [Thread -> WorkerPC], NEW q \in NotifyOne(p)
  PROVE  /\ q \in [Thread -> WorkerPC]
         /\ \A w \in Thread : q[w] = p[w] \/ (p[w] = "asleep" /\ q[w] = "ready")
BY DEF NotifyOne, Asleep, WorkerPC

(* The counter of active threads never goes below zero: a worker in a task  *)
(* has been counted.                                                        *)
LEMMA BusyCounted ==
  ASSUME TypeOK, ActiveCounted
  PROVE  /\ IsFiniteSet(Busy)
         /\ \A w \in Busy : active_threads \in Nat \ {0}
         /\ active_threads = 0 => Busy = {}
<1>1. IsFiniteSet(Busy)
  BY FS_Subset, ThreadAssumption DEF Busy
<1>2. Cardinality(Busy) \in Nat /\ (Cardinality(Busy) = 0 <=> Busy = {})
  BY <1>1, FS_CardinalityType, FS_EmptySet
<1>. QED
  BY <1>1, <1>2 DEF ActiveCounted

LEMMA InitIInv == Init => IInv
<1>. SUFFICES ASSUME Init PROVE IInv
  OBVIOUS
<1>. USE SizeAssumption DEF Init, NoPool
<1>1. TypeOK
  <2>1. stop_pool \in BOOLEAN /\ start_pool \in BOOLEAN
    OBVIOUS
  <2>1a. tasks \in Seq(Task)
    OBVIOUS
  <2>1b. active_threads \in Nat
    OBVIOUS
  <2>1c. pc \in [Thread -> WorkerPC]
    BY DEF WorkerPC
  <2>1d. task \in [Thread -> Task \cup {NoTask}]
    OBVIOUS
  <2>1e. k \in 0 .. N /\ i \in Nat
    OBVIOUS
  <2>2. client \in ClientPC
    BY DEF ClientPC
  <2>3. computed \in [Cell -> Nat]
    OBVIOUS
  <2>. QED
    BY <2>1, <2>1a, <2>1b, <2>1c, <2>1d, <2>1e, <2>2, <2>3 DEF TypeOK, PoolTypeOK
<1>2. Busy = {}
  BY DEF Busy
<1>3. ActiveCounted
  BY <1>2, FS_EmptySet DEF ActiveCounted
<1>4. ClientInv
  BY DEF ClientInv, NoPoolPC, EnqueuePC, StoppedPC
<1>5. BlockInv /\ DisjointInv
  BY <1>2 DEF BlockInv, DisjointInv, Queued, Running
<1>6. CoverInv
  BY DEF CoverInv, NoPoolPC, Diagonal
<1>7. OrderInv
  BY DEF OrderInv, Cell
<1>8. StopInv
  BY DEF StopInv
<1>. QED
  BY <1>1, <1>3, <1>4, <1>5, <1>6, <1>7, <1>8 DEF IInv
-----------------------------------------------------------------------------
(* The parts of the invariant about the blocks.                             *)
BlocksInv == ActiveCounted /\ BlockInv /\ DisjointInv /\ CoverInv /\ OrderInv

(* A step that neither moves a block nor computes one keeps them.           *)
LEMMA QuietStep ==
  ASSUME BlocksInv,
         UNCHANGED <<tasks, active_threads, task, k, computed>>,
         \A w \in Thread : /\ pc'[w] = "run" <=> pc[w] = "run"
                           /\ pc'[w] = "ran" <=> pc[w] = "ran",
         Handed' = Handed,
         client' \in NoPoolPC <=> client \in NoPoolPC
  PROVE  BlocksInv'
<1>. USE DEF BlocksInv
<1>1. Busy' = Busy
  BY DEF Busy
<1>2. ActiveCounted'
  BY <1>1 DEF ActiveCounted
<1>3. /\ \A j, c : Queued(j, c)' <=> Queued(j, c)
      /\ \A w \in Thread : \A c : Running(w, c)' <=> Running(w, c)
  BY DEF Queued, Running
<1>4. \A b : GoodBlock(b)' <=> GoodBlock(b)
  BY DEF GoodBlock
<1>5. BlockInv'
  BY <1>1, <1>4 DEF BlockInv
<1>6. DisjointInv'
  BY <1>3 DEF DisjointInv
<1>7. CoverInv'
  BY <1>3 DEF CoverInv
<1>8. OrderInv'
  BY DEF OrderInv
<1>. QED
  BY <1>2, <1>5, <1>6, <1>7, <1>8

-----------------------------------------------------------------------------
(* Type correctness.                                                        *)
LEMMA TypeStep ==
  ASSUME IInv, [Next]_vars
  PROVE  TypeOK'
<1>. USE SizeAssumption DEF IInv, TypeOK
<1>1. CASE NewPool
  <2>. USE <1>1 DEF NewPool, Construct
  <2>1. stop_pool' \in BOOLEAN /\ start_pool' \in BOOLEAN
    OBVIOUS
  <2>2. tasks' \in Seq(Task) /\ active_threads' \in Nat
    OBVIOUS
  <2>3. pc' \in [Thread -> WorkerPC] /\ task' \in [Thread -> Task \cup {NoTask}]
    BY DEF WorkerPC
  <2>. QED
    BY <2>1, <2>2, <2>3 DEF PoolTypeOK, ClientPC
<1>2. CASE EnqueueBlock
  <2>. USE <1>2 DEF EnqueueBlock, PoolTypeOK
  <2>1. [diag |-> k, from |-> i, to |-> i + blockSize(k)] \in Task
    <3>1. k \in 0 .. N - 1 /\ i \in 0 .. N - 1
      OBVIOUS
    <3>. QED
      BY <3>1, BlockSizeBound, TaskAssumption DEF Block
  <2>2. tasks' \in Seq(Task)
    BY <2>1 DEF Enqueue
  <2>. QED
    BY <2>2 DEF ClientPC
<1>3. CASE NotifyWorker
  <2>. USE <1>3 DEF NotifyWorker, PoolTypeOK
  <2>1. pc' \in [Thread -> WorkerPC]
    BY NotifyOneType
  <2>2. i' \in Nat
    <3>1. k \in 0 .. N - 1
      BY DEF ClientInv, NoPoolPC
    <3>. QED
      BY <3>1, BlockSizeBound
  <2>. QED
    BY <2>1, <2>2 DEF ClientPC
<1>4. CASE starting_pool
  BY <1>4 DEF starting_pool, PoolTypeOK, ClientPC
<1>5. CASE EnterWait
  BY <1>5 DEF EnterWait, PoolTypeOK, ClientPC
<1>6. CASE (wait_and_stop \/ Destroy \/ WakeAll \/ SpuriousReturn)
           /\ UNCHANGED <<k, i, start_pool, computed>>
  <2>1. CASE wait_and_stop \/ SpuriousReturn
    BY <1>6, <2>1 DEF wait_and_stop, SpuriousReturn, PoolTypeOK, ClientPC
  <2>2. CASE Destroy
    BY <1>6, <2>2 DEF Destroy, PoolTypeOK, ClientPC
  <2>3. CASE WakeAll
    <3>1. pc' \in [Thread -> WorkerPC]
      BY <2>3 DEF WakeAll, NotifyAll, PoolTypeOK, WorkerPC
    <3>. QED
      BY <1>6, <2>3, <3>1 DEF WakeAll, PoolTypeOK, ClientPC
  <2>. QED
    BY <1>6, <2>1, <2>2, <2>3
<1>7. CASE NextDiagonal
  <2>. USE <1>7 DEF NextDiagonal, Join, Construct
  <2>1. stop_pool' \in BOOLEAN
    OBVIOUS
  <2>2. tasks' \in Seq(Task) /\ active_threads' \in Nat
    OBVIOUS
  <2>3. pc' \in [Thread -> WorkerPC] /\ task' \in [Thread -> Task \cup {NoTask}]
    BY DEF WorkerPC
  <2>4. k' \in 0 .. N
    BY DEF ClientInv, NoPoolPC
  <2>. QED
    BY <2>1, <2>2, <2>3, <2>4 DEF PoolTypeOK, ClientPC
<1>8. CASE Return
  BY <1>8 DEF Return, PoolTypeOK, ClientPC
<1>9. ASSUME NEW w \in Thread,
             Sleep(w) \/ Exit(w) \/ SpuriousWakeup(w),
             UNCHANGED <<k, i, start_pool, computed>>
      PROVE  TypeOK'
  <2>1. pc' \in [Thread -> WorkerPC]
    BY <1>9 DEF Sleep, Exit, SpuriousWakeup, PoolTypeOK, WorkerPC
  <2>. QED
    BY <1>9, <2>1 DEF Sleep, Exit, SpuriousWakeup, PoolTypeOK
<1>10. ASSUME NEW w \in Thread, TakeTask(w),
              UNCHANGED <<k, i, start_pool, computed>>
       PROVE  TypeOK'
  <2>. USE <1>10 DEF TakeTask, PoolTypeOK
  <2>1. Head(tasks) \in Task /\ tasks' \in Seq(Task)
    OBVIOUS
  <2>2. task' \in [Thread -> Task \cup {NoTask}]
    BY <2>1
  <2>3. pc' \in [Thread -> WorkerPC]
    BY DEF WorkerPC
  <2>. QED
    BY <2>1, <2>2, <2>3 DEF before_task_hook
<1>11. ASSUME NEW w \in Thread, blockWavefront(w)
       PROVE  TypeOK'
  <2>1. computed' \in [Cell -> Nat]
    BY <1>11 DEF blockWavefront
  <2>2. pc' \in [Thread -> WorkerPC]
    BY <1>11 DEF blockWavefront, PoolTypeOK, WorkerPC
  <2>. QED
    BY <1>11, <2>1, <2>2 DEF blockWavefront, PoolTypeOK
<1>12. ASSUME NEW w \in Thread, Finish(w)
       PROVE  TypeOK'
  <2>1. PICK armed \in StartRead : FinishTask(w, armed)
    BY <1>12 DEF Finish
  <2>2. active_threads' \in Nat
    BY <2>1, BusyCounted DEF FinishTask, after_task_hook, Busy
  <2>3. stop_pool' \in BOOLEAN
    BY <2>1 DEF FinishTask, after_task_hook, PoolTypeOK
  <2>4. client' \in ClientPC
    BY <2>1 DEF FinishTask, after_task_hook, ClientPC
  <2>5. pc' \in [Thread -> WorkerPC] /\ task' \in [Thread -> Task \cup {NoTask}]
    BY <2>1 DEF FinishTask, PoolTypeOK, WorkerPC
  <2>. QED
    BY <1>12, <2>1, <2>2, <2>3, <2>4, <2>5 DEF Finish, FinishTask, PoolTypeOK
<1>13. CASE UNCHANGED vars
  BY <1>13 DEF vars, PoolTypeOK
<1>. QED
  BY <1>1, <1>2, <1>3, <1>4, <1>5, <1>6, <1>7, <1>8, <1>9, <1>10, <1>11, <1>12,
     <1>13 DEF Next, Client, Worker, Loop, Spurious, Ended

-----------------------------------------------------------------------------
(* The client's position, the started flag and the stopped pool.            *)
LEMMA ClientStep ==
  ASSUME IInv, [Next]_vars
  PROVE  ClientInv'
<1>. USE DEF IInv, ClientInv, NoPoolPC, EnqueuePC, StoppedPC
<1>1. CASE NewPool
  BY <1>1, SizeAssumption DEF NewPool, Construct, TypeOK
<1>2. CASE EnqueueBlock
  BY <1>2 DEF EnqueueBlock, StopInv
<1>3. CASE NotifyWorker
  BY <1>3 DEF NotifyWorker
<1>4. CASE starting_pool
  BY <1>4 DEF starting_pool
<1>5. CASE EnterWait
  BY <1>5 DEF EnterWait
<1>6. CASE (wait_and_stop \/ Destroy \/ WakeAll \/ SpuriousReturn)
           /\ UNCHANGED <<k, i, start_pool, computed>>
  BY <1>6 DEF wait_and_stop, Destroy, WakeAll, SpuriousReturn
<1>7. CASE NextDiagonal
  BY <1>7 DEF NextDiagonal, Join, Construct, NoPool
<1>8. CASE Return
  BY <1>8 DEF Return, NoPool
<1>9. ASSUME NEW w \in Thread,
             Sleep(w) \/ Exit(w) \/ TakeTask(w) \/ SpuriousWakeup(w),
             UNCHANGED <<k, i, start_pool, computed>>
      PROVE  ClientInv'
  <2>1. client \notin NoPoolPC
    BY <1>9 DEF Sleep, Exit, TakeTask, SpuriousWakeup, NoPool
  <2>. QED
    BY <1>9, <2>1 DEF Sleep, Exit, TakeTask, SpuriousWakeup
<1>10. ASSUME NEW w \in Thread, blockWavefront(w) \/ Finish(w)
       PROVE  ClientInv'
  <2>1. client \notin NoPoolPC
    BY <1>10 DEF blockWavefront, Finish, FinishTask, NoPool
  <2>2. CASE blockWavefront(w)
    BY <2>1, <2>2 DEF blockWavefront
  <2>3. CASE Finish(w)
    BY <2>1, <2>3 DEF Finish, FinishTask, after_task_hook
  <2>. QED
    BY <1>10, <2>2, <2>3
<1>11. CASE UNCHANGED vars
  BY <1>11 DEF vars, NoPool
<1>. QED
  BY <1>1, <1>2, <1>3, <1>4, <1>5, <1>6, <1>7, <1>8, <1>9, <1>10, <1>11
     DEF Next, Client, Worker, Loop, Spurious, Ended

(* The pool is stopped only when it is started, idle and empty, and from    *)
(* then on no task can appear.                                              *)
LEMMA StopStep ==
  ASSUME IInv, [Next]_vars
  PROVE  StopInv'
<1>. USE DEF IInv, StopInv, EnqueuePC
<1>1. CASE NewPool
  BY <1>1 DEF NewPool, Construct
<1>2. CASE EnqueueBlock \/ NotifyWorker \/ starting_pool
  BY <1>2 DEF EnqueueBlock, NotifyWorker, starting_pool
<1>3. CASE EnterWait \/ Return
  BY <1>3 DEF EnterWait, Return, Busy
<1>4. CASE (wait_and_stop \/ Destroy \/ WakeAll \/ SpuriousReturn)
           /\ UNCHANGED <<k, i, start_pool, computed>>
  <2>1. Busy' = Busy
    BY <1>4 DEF wait_and_stop, Destroy, WakeAll, SpuriousReturn, NotifyAll, Busy,
                TypeOK, PoolTypeOK
  <2>. QED
    BY <1>4, <2>1 DEF wait_and_stop, Destroy, WakeAll, SpuriousReturn, ClientInv,
                      StoppedPC
<1>5. CASE NextDiagonal
  BY <1>5 DEF NextDiagonal, Join, Construct
<1>6. ASSUME NEW w \in Thread,
             Sleep(w) \/ Exit(w) \/ TakeTask(w) \/ SpuriousWakeup(w) \/ blockWavefront(w)
      PROVE  StopInv'
  <2>1. stop_pool' = stop_pool /\ client' = client
    BY <1>6 DEF Sleep, Exit, TakeTask, SpuriousWakeup, blockWavefront
  <2>2. stop_pool => tasks' = tasks /\ Busy' = Busy
    BY <1>6 DEF Sleep, Exit, TakeTask, SpuriousWakeup, blockWavefront, Busy,
                TypeOK, PoolTypeOK
  <2>. QED
    BY <2>1, <2>2
<1>7. ASSUME NEW w \in Thread, Finish(w)
      PROVE  StopInv'
  <2>1. PICK armed \in StartRead : FinishTask(w, armed)
    BY <1>7 DEF Finish
  <2>. SUFFICES ASSUME stop_pool'
                PROVE  /\ client' \notin EnqueuePC
                       /\ tasks' = <<>>
                       /\ Busy' = {}
    OBVIOUS
  <2>2. w \in Busy /\ ~stop_pool
    BY <2>1 DEF FinishTask, Busy
  <2>3. active_threads' = 0 /\ tasks = <<>> /\ armed
    BY <2>1, <2>2 DEF FinishTask, after_task_hook
  <2>4. start_pool
    BY <2>1, <2>3 DEF StartRead
  <2>5. client' \notin EnqueuePC
    BY <2>1, <2>2, <2>4 DEF FinishTask, after_task_hook, ClientInv
  <2>6. Busy = {w}
    <3>1. Cardinality(Busy) = 1
      BY <2>1, <2>2, <2>3, BusyCounted
         DEF FinishTask, after_task_hook, ActiveCounted, TypeOK, PoolTypeOK
    <3>. QED
      BY <2>2, <3>1, BusyCounted, FS_Singleton
  <2>7. Busy' = {}
    BY <2>1, <2>6 DEF FinishTask, Busy, TypeOK, PoolTypeOK
  <2>. QED
    BY <2>1, <2>3, <2>5, <2>7 DEF FinishTask
<1>8. CASE UNCHANGED vars
  BY <1>8 DEF vars, Busy
<1>. QED
  BY <1>1, <1>2, <1>3, <1>4, <1>5, <1>6, <1>7, <1>8
     DEF Next, Client, Worker, Loop, Spurious, Ended

-----------------------------------------------------------------------------
(* The steps that move a block.                                             *)

(* The block being enqueued begins where the handed part ends.              *)
LEMMA EnqueueBlocks ==
  ASSUME IInv, EnqueueBlock
  PROVE  BlocksInv'
<1>. USE SizeAssumption DEF IInv, TypeOK, PoolTypeOK
<1>0. PICK b : b = [diag |-> k, from |-> i, to |-> i + blockSize(k)]
  OBVIOUS
<1>1. /\ ~stop_pool /\ client = "enqueue" /\ client' = "notify"
      /\ tasks' = Append(tasks, b)
      /\ UNCHANGED <<active_threads, pc, task, k, i, computed>>
  BY <1>0 DEF EnqueueBlock, Enqueue, StopInv, EnqueuePC
<1>2. k \in 0 .. N - 1 /\ i \in 0 .. N - 1 /\ blockSize(k) \in 1 .. N - k
  BY BlockSizeBound DEF EnqueueBlock
<1>3. b \in Block
  BY <1>0, <1>2 DEF Block
<1>4. Handed = i /\ Handed' = i + blockSize(k)
  BY <1>1 DEF Handed
<1>5. PICK n : /\ DOMAIN tasks' = DOMAIN tasks \cup {n}
               /\ n \notin DOMAIN tasks
               /\ \A j \in DOMAIN tasks : tasks'[j] = tasks[j]
               /\ tasks'[n] = b
  BY <1>1, <1>3, TaskAssumption
<1>6. \A c \in Cell : c \in BlockCells(b) <=> c[1] = k /\ i <= c[2] /\ c[2] < i + blockSize(k)
  BY <1>0, <1>2 DEF BlockCells, Diagonal, Cell
<1>7. \A c \in Cell, a \in Block : GoodBlock(a) /\ c \in BlockCells(a) => c[1] = k /\ c[2] < i
  BY <1>2, <1>4 DEF GoodBlock, BlockCells, Diagonal, Cell, Block
<1>8. \A c : /\ \A j \in DOMAIN tasks : Queued(j, c)' <=> Queued(j, c)
             /\ Queued(n, c)' <=> c \in BlockCells(b)
  BY <1>5 DEF Queued
<1>9. \A c, w : Running(w, c)' <=> Running(w, c)
  BY <1>1 DEF Running
<1>10. \A c \in Cell : /\ \A j : Queued(j, c) => c[1] = k /\ c[2] < i
                       /\ \A w \in Thread : Running(w, c) => c[1] = k /\ c[2] < i
  BY <1>7 DEF Queued, Running, BlockInv, GoodBlock, Busy
<1>11. ActiveCounted'
  BY <1>1 DEF ActiveCounted, Busy
<1>12. BlockInv'
  <2>1. \A a : GoodBlock(a) => GoodBlock(a)'
    BY <1>1, <1>2, <1>4 DEF GoodBlock, Block
  <2>2. GoodBlock(b)'
    BY <1>0, <1>1, <1>3, <1>4 DEF GoodBlock
  <2>. QED
    BY <1>1, <1>5, <2>1, <2>2 DEF BlockInv, Busy
<1>13. DisjointInv'
  <2>. SUFFICES ASSUME NEW c \in Cell
       PROVE /\ \A j, h \in DOMAIN tasks' : Queued(j, c)' /\ Queued(h, c)' => j = h
             /\ \A v, w \in Thread : Running(v, c)' /\ Running(w, c)' => v = w
             /\ \A j \in DOMAIN tasks', w \in Thread : ~(Queued(j, c)' /\ Running(w, c)')
    BY DEF DisjointInv
  <2>. HIDE DEF IInv, TypeOK, PoolTypeOK
  <2>1. c \in BlockCells(b) => /\ \A j \in DOMAIN tasks : ~Queued(j, c)
                               /\ \A w \in Thread : ~Running(w, c)
    <3>1. c[2] \in Int /\ i \in Int
      BY <1>2 DEF Cell
    <3>. QED
      BY <1>6, <1>10, <3>1
  <2>2. \A j, h \in DOMAIN tasks : Queued(j, c) /\ Queued(h, c) => j = h
    BY DEF DisjointInv, IInv
  <2>3. \A j, h \in DOMAIN tasks' : Queued(j, c)' /\ Queued(h, c)' => j = h
    BY <1>5, <1>8, <2>1, <2>2
  <2>4. \A v, w \in Thread : Running(v, c)' /\ Running(w, c)' => v = w
    BY <1>9 DEF DisjointInv, IInv
  <2>5. \A j \in DOMAIN tasks, w \in Thread : ~(Queued(j, c) /\ Running(w, c))
    BY DEF DisjointInv, IInv
  <2>6. \A j \in DOMAIN tasks', w \in Thread : ~(Queued(j, c)' /\ Running(w, c)')
    BY <1>5, <1>8, <1>9, <2>1, <2>5
  <2>. QED
    BY <2>3, <2>4, <2>6
<1>14. CoverInv'
  <2>. SUFFICES ASSUME NEW c \in Diagonal(k)
       PROVE /\ c[2] < i + blockSize(k) =>
                  \/ computed[c] = 1
                  \/ \E j \in DOMAIN tasks' : Queued(j, c)'
                  \/ \E w \in Thread : Running(w, c)'
             /\ computed[c] = 1 =>
                  /\ c[2] < i + blockSize(k)
                  /\ \A j \in DOMAIN tasks' : ~Queued(j, c)'
                  /\ \A w \in Thread : ~Running(w, c)'
    BY <1>1, <1>4 DEF CoverInv, NoPoolPC
  <2>1. c \in Cell /\ c[1] = k /\ c[2] \in Nat
    BY DEF Diagonal, Cell
  <2>2. ASSUME c[2] < i + blockSize(k)
        PROVE  \/ computed[c] = 1
               \/ \E j \in DOMAIN tasks' : Queued(j, c)'
               \/ \E w \in Thread : Running(w, c)'
    <3>1. CASE c[2] < i
      BY <1>1, <1>4, <1>5, <1>8, <1>9, <3>1 DEF CoverInv, NoPoolPC
    <3>2. CASE i <= c[2]
      BY <1>5, <1>6, <1>8, <2>1, <2>2, <3>2
    <3>. QED
      BY <1>2, <2>1, <3>1, <3>2
  <2>3. ASSUME computed[c] = 1
        PROVE  /\ c[2] < i + blockSize(k)
               /\ \A j \in DOMAIN tasks' : ~Queued(j, c)'
               /\ \A w \in Thread : ~Running(w, c)'
    <3>1. /\ c[2] < i
          /\ \A j \in DOMAIN tasks : ~Queued(j, c)
          /\ \A w \in Thread : ~Running(w, c)
      BY <1>4, <2>3 DEF CoverInv
    <3>2. c \notin BlockCells(b) /\ c[2] < i + blockSize(k)
      BY <1>2, <1>6, <2>1, <3>1
    <3>. QED
      BY <1>5, <1>8, <1>9, <3>1, <3>2
  <2>. QED
    BY <2>2, <2>3
<1>15. OrderInv'
  BY <1>1 DEF OrderInv
<1>. QED
  BY <1>11, <1>12, <1>13, <1>14, <1>15 DEF BlocksInv

(* The block at the head of the queue becomes the one w runs.               *)
LEMMA TakeTaskBlocks ==
  ASSUME IInv, NEW w \in Thread, TakeTask(w), UNCHANGED <<k, i, start_pool, computed>>
  PROVE  BlocksInv'
<1>1. /\ tasks \in Seq(Task) /\ active_threads \in Nat
      /\ pc \in [Thread -> WorkerPC]
      /\ task \in [Thread -> Task \cup {NoTask}]
  BY DEF IInv, TypeOK, PoolTypeOK
<1>2. /\ pc[w] = "ready" /\ tasks # <<>>
      /\ task' = [task EXCEPT ![w] = tasks[1]]
      /\ pc' = [pc EXCEPT ![w] = "run"]
      /\ active_threads' = active_threads + 1
      /\ UNCHANGED <<client, k, i, computed>>
  BY <1>1 DEF TakeTask, before_task_hook
<1>3. /\ 1 \in DOMAIN tasks
      /\ \A j \in DOMAIN tasks' : j + 1 \in DOMAIN tasks /\ j + 1 # 1 /\ tasks'[j] = tasks[j + 1]
      /\ \A j \in DOMAIN tasks : j = 1 \/ j - 1 \in DOMAIN tasks'
      /\ DOMAIN tasks' \subseteq Int /\ DOMAIN tasks \subseteq Int
  BY <1>1, <1>2 DEF TakeTask
<1>4. \A c : /\ \A j \in DOMAIN tasks' : Queued(j, c)' <=> Queued(j + 1, c)
             /\ Running(w, c)' <=> Queued(1, c)
             /\ ~Running(w, c)
             /\ \A v \in Thread : v # w => (Running(v, c)' <=> Running(v, c))
  BY <1>1, <1>2, <1>3 DEF Queued, Running
<1>5. Handed' = Handed
  BY <1>2 DEF Handed
<1>6. ActiveCounted'
  <2>1. Busy' = Busy \cup {w} /\ w \notin Busy
    BY <1>1, <1>2 DEF Busy
  <2>2. Cardinality(Busy') = Cardinality(Busy) + 1
    BY <2>1, BusyCounted, FS_AddElement DEF IInv
  <2>. QED
    BY <1>2, <2>2 DEF ActiveCounted, IInv
<1>7. BlockInv'
  <2>1. \A a : GoodBlock(a)' <=> GoodBlock(a)
    BY <1>2, <1>5 DEF GoodBlock
  <2>2. \A j \in DOMAIN tasks' : GoodBlock(tasks'[j])
    BY <1>3 DEF IInv, BlockInv
  <2>3. \A v \in Busy' : GoodBlock(task'[v])
    BY <1>1, <1>2, <1>3 DEF IInv, BlockInv, Busy
  <2>. QED
    BY <2>1, <2>2, <2>3 DEF BlockInv
<1>8. DisjointInv'
  <2>. SUFFICES ASSUME NEW c \in Cell
       PROVE /\ \A j, h \in DOMAIN tasks' : Queued(j, c)' /\ Queued(h, c)' => j = h
             /\ \A v, u \in Thread : Running(v, c)' /\ Running(u, c)' => v = u
             /\ \A j \in DOMAIN tasks', v \in Thread : ~(Queued(j, c)' /\ Running(v, c)')
    BY DEF DisjointInv
  <2>1. /\ \A j, h \in DOMAIN tasks : Queued(j, c) /\ Queued(h, c) => j = h
        /\ \A v, u \in Thread : Running(v, c) /\ Running(u, c) => v = u
        /\ \A j \in DOMAIN tasks, v \in Thread : ~(Queued(j, c) /\ Running(v, c))
    BY DEF IInv, DisjointInv
  <2>2. \A j, h \in DOMAIN tasks' : Queued(j, c)' /\ Queued(h, c)' => j = h
    BY <1>3, <1>4, <2>1
  <2>3. \A v, u \in Thread : Running(v, c)' /\ Running(u, c)' => v = u
    BY <1>3, <1>4, <2>1
  <2>4. \A j \in DOMAIN tasks', v \in Thread : ~(Queued(j, c)' /\ Running(v, c)')
    BY <1>3, <1>4, <2>1
  <2>. QED
    BY <2>2, <2>3, <2>4
<1>9. CoverInv'
  <2>. SUFFICES ASSUME NEW c \in Diagonal(k)
       PROVE /\ client \notin NoPoolPC /\ c[2] < Handed =>
                  \/ computed[c] = 1
                  \/ \E j \in DOMAIN tasks' : Queued(j, c)'
                  \/ \E v \in Thread : Running(v, c)'
             /\ computed[c] = 1 =>
                  /\ client \notin NoPoolPC
                  /\ c[2] < Handed
                  /\ \A j \in DOMAIN tasks' : ~Queued(j, c)'
                  /\ \A v \in Thread : ~Running(v, c)'
    BY <1>2, <1>5 DEF CoverInv
  <2>1. ASSUME client \notin NoPoolPC, c[2] < Handed
        PROVE  \/ computed[c] = 1
               \/ \E j \in DOMAIN tasks' : Queued(j, c)'
               \/ \E v \in Thread : Running(v, c)'
    <3>1. CASE computed[c] = 1
      BY <3>1
    <3>2. ASSUME NEW j \in DOMAIN tasks, Queued(j, c), j # 1
          PROVE  \E h \in DOMAIN tasks' : Queued(h, c)'
      <4>1. PICK h \in DOMAIN tasks' : h = j - 1
        BY <1>3, <3>2
      <4>2. h + 1 = j
        BY <1>3, <4>1
      <4>3. Queued(h + 1, c)
        BY <3>2, <4>2
      <4>4. Queued(h, c)'
        BY <1>4, <4>1, <4>3
      <4>. QED
        BY <4>1, <4>4
    <3>3. CASE Queued(1, c)
      BY <1>4, <3>3
    <3>4. ASSUME NEW v \in Thread, Running(v, c)
          PROVE  Running(v, c)'
      BY <1>4, <3>4
    <3>. QED
      BY <2>1, <3>1, <3>2, <3>3, <3>4 DEF IInv, CoverInv
  <2>2. ASSUME computed[c] = 1
        PROVE  /\ client \notin NoPoolPC
               /\ c[2] < Handed
               /\ \A j \in DOMAIN tasks' : ~Queued(j, c)'
               /\ \A v \in Thread : ~Running(v, c)'
    <3>1. /\ client \notin NoPoolPC /\ c[2] < Handed
          /\ \A j \in DOMAIN tasks : ~Queued(j, c)
          /\ \A v \in Thread : ~Running(v, c)
      BY <2>2 DEF IInv, CoverInv
    <3>. QED
      BY <1>3, <1>4, <3>1
  <2>. QED
    BY <2>1, <2>2
<1>10. OrderInv'
  BY <1>2 DEF OrderInv, IInv
<1>. QED
  BY <1>6, <1>7, <1>8, <1>9, <1>10 DEF BlocksInv

(* Running a block computes its elements, each for the first time.          *)
LEMMA RunBlocks ==
  ASSUME IInv, NEW w \in Thread, blockWavefront(w)
  PROVE  BlocksInv'
<1>1. /\ pc \in [Thread -> WorkerPC] /\ computed \in [Cell -> Nat]
      /\ k \in 0 .. N /\ N \in Nat
  BY SizeAssumption DEF IInv, TypeOK, PoolTypeOK
<1>2. /\ pc[w] = "run"
      /\ pc' = [pc EXCEPT ![w] = "ran"]
      /\ UNCHANGED <<tasks, active_threads, task, client, k, i>>
  BY DEF blockWavefront
<1>3. Handed' = Handed /\ Busy' = Busy
  BY <1>1, <1>2 DEF Handed, Busy
<1>4. \A c : /\ \A j \in DOMAIN tasks : Queued(j, c)' <=> Queued(j, c)
             /\ ~Running(w, c)'
             /\ Running(w, c) <=> c \in BlockCells(task[w])
             /\ \A v \in Thread : v # w => (Running(v, c)' <=> Running(v, c))
  BY <1>1, <1>2 DEF Queued, Running
<1>5. ActiveCounted' /\ BlockInv'
  <2>1. \A a : GoodBlock(a)' <=> GoodBlock(a)
    BY <1>2, <1>3 DEF GoodBlock
  <2>. QED
    BY <1>2, <1>3, <2>1 DEF IInv, ActiveCounted, BlockInv
<1>6. \A c \in Cell : Running(w, c) =>
        /\ c[1] = k /\ c \in Diagonal(k)
        /\ client \notin NoPoolPC
        /\ c[2] < Handed
        /\ computed[c] = 0
  <2>1. GoodBlock(task[w])
    BY <1>2 DEF IInv, BlockInv, Busy
  <2>2. client \notin NoPoolPC
    BY <1>2 DEF IInv, ClientInv, NoPool
  <2>. SUFFICES ASSUME NEW c \in Cell, Running(w, c)
                PROVE  c[1] = k /\ c \in Diagonal(k) /\ c[2] < Handed /\ computed[c] = 0
    BY <2>2
  <2>3. c[1] = k /\ c \in Diagonal(k) /\ c[2] < task[w].to
    BY <1>1, <1>4, <2>1 DEF BlockCells, Diagonal, GoodBlock, Block, Cell
  <2>4. c[2] < Handed
    <3>1. Handed \in Int
      <4>1. CASE client = "notify"
        <5>1. k \in 0 .. N - 1 /\ i \in Nat
          BY <1>1, <2>2 DEF IInv, ClientInv, TypeOK
        <5>. QED
          BY <4>1, <5>1, BlockSizeBound DEF Handed
      <4>2. CASE client # "notify"
        BY <4>2 DEF Handed, IInv, TypeOK
      <4>. QED
        BY <4>1, <4>2
    <3>. QED
      BY <2>1, <2>3, <3>1 DEF GoodBlock, Block, Cell
  <2>5. computed[c] = 0
    BY <2>3 DEF IInv, OrderInv, CoverInv
  <2>. QED
    BY <2>3, <2>4, <2>5
<1>7. \A c \in Cell : computed'[c] = IF Running(w, c) THEN 1 ELSE computed[c]
  BY <1>4, <1>6 DEF blockWavefront
<1>8. DisjointInv'
  BY <1>2, <1>4 DEF IInv, DisjointInv
<1>9. CoverInv'
  <2>. SUFFICES ASSUME NEW c \in Diagonal(k)
       PROVE /\ client \notin NoPoolPC /\ c[2] < Handed =>
                  \/ computed'[c] = 1
                  \/ \E j \in DOMAIN tasks : Queued(j, c)'
                  \/ \E v \in Thread : Running(v, c)'
             /\ computed'[c] = 1 =>
                  /\ client \notin NoPoolPC
                  /\ c[2] < Handed
                  /\ \A j \in DOMAIN tasks : ~Queued(j, c)'
                  /\ \A v \in Thread : ~Running(v, c)'
    BY <1>2, <1>3 DEF CoverInv
  <2>0. c \in Cell
    BY DEF Diagonal
  <2>1. CASE Running(w, c)
    BY <1>4, <1>6, <1>7, <2>0, <2>1 DEF IInv, DisjointInv
  <2>2. CASE ~Running(w, c)
    BY <1>4, <1>7, <2>0, <2>2 DEF IInv, CoverInv
  <2>. QED
    BY <2>1, <2>2
<1>10. OrderInv'
  BY <1>1, <1>2, <1>6, <1>7 DEF IInv, OrderInv, Cell
<1>. QED
  BY <1>5, <1>8, <1>9, <1>10 DEF BlocksInv

(* A finished worker is no longer counted, and no longer has a block.       *)
LEMMA FinishBlocks ==
  ASSUME IInv, NEW w \in Thread, Finish(w)
  PROVE  BlocksInv'
<1>1. PICK armed \in StartRead : FinishTask(w, armed)
  BY DEF Finish
<1>2. /\ pc \in [Thread -> WorkerPC] /\ active_threads \in Nat
      /\ task \in [Thread -> Task \cup {NoTask}]
  BY DEF IInv, TypeOK, PoolTypeOK
<1>3. /\ pc[w] = "ran"
      /\ pc' = [pc EXCEPT ![w] = "ready"]
      /\ task' = [task EXCEPT ![w] = NoTask]
      /\ active_threads' = active_threads - 1
      /\ UNCHANGED <<tasks, k, i, computed>>
  BY <1>1 DEF Finish, FinishTask, after_task_hook
<1>4. client' \in NoPoolPC <=> client \in NoPoolPC
  BY <1>1 DEF FinishTask, after_task_hook, NoPoolPC
<1>5. Handed' = Handed
  BY <1>1, <1>3 DEF FinishTask, after_task_hook, Handed
<1>6. /\ \A c : \A j \in DOMAIN tasks : Queued(j, c)' <=> Queued(j, c)
      /\ \A c : \A v \in Thread : Running(v, c)' <=> Running(v, c)
  BY <1>2, <1>3 DEF Queued, Running
<1>7. ActiveCounted'
  <2>1. Busy' = Busy \ {w} /\ w \in Busy
    BY <1>2, <1>3 DEF Busy
  <2>2. Cardinality(Busy') = Cardinality(Busy) - 1
    BY <2>1, BusyCounted, FS_RemoveElement DEF IInv
  <2>. QED
    BY <1>3, <2>2 DEF ActiveCounted, IInv
<1>8. BlockInv'
  <2>1. \A a : GoodBlock(a)' <=> GoodBlock(a)
    BY <1>3, <1>5 DEF GoodBlock
  <2>2. \A v \in Busy' : v \in Busy /\ task'[v] = task[v]
    BY <1>2, <1>3 DEF Busy
  <2>. QED
    BY <1>3, <2>1, <2>2 DEF BlockInv, IInv
<1>9. DisjointInv' /\ OrderInv'
  BY <1>3, <1>6 DEF DisjointInv, OrderInv, IInv
<1>10. CoverInv'
  BY <1>3, <1>4, <1>5, <1>6 DEF CoverInv, IInv
<1>. QED
  BY <1>7, <1>8, <1>9, <1>10 DEF BlocksInv

(* Between two diagonals nothing is pending.                                *)
LEMMA NewPoolBlocks ==
  ASSUME IInv, NewPool
  PROVE  BlocksInv'
<1>1. /\ client = "construct" /\ client' = "enqueue" /\ i' = 0
      /\ tasks' = <<>> /\ active_threads' = 0
      /\ \A w \in Thread : pc'[w] \in {"ready", "none"}
      /\ UNCHANGED <<k, computed>>
  BY DEF NewPool, Construct
<1>2. Busy' = {}
  BY <1>1 DEF Busy
<1>3. ActiveCounted'
  BY <1>1, <1>2, FS_EmptySet DEF ActiveCounted
<1>4. BlockInv' /\ DisjointInv' /\ OrderInv'
  BY <1>1, <1>2 DEF BlockInv, DisjointInv, OrderInv, Queued, Running, IInv
<1>5. Handed' = 0
  BY <1>1 DEF Handed
<1>6. CoverInv'
  BY <1>1, <1>5 DEF CoverInv, NoPoolPC, Diagonal, Cell, IInv
<1>. QED
  BY <1>3, <1>4, <1>6 DEF BlocksInv

(* A stopped pool has computed the whole diagonal.                          *)
LEMMA StoppedDone ==
  ASSUME IInv, stop_pool
  PROVE  \A c \in Cell : c[1] <= k => computed[c] = 1
<1>1. client \notin NoPoolPC /\ client # "notify" /\ i >= N - k
  BY DEF IInv, ClientInv, StopInv, NoPool, EnqueuePC
<1>2. Handed = i
  BY <1>1 DEF Handed
<1>3. k \in 0 .. N /\ N \in Nat /\ i \in Nat
  BY SizeAssumption DEF IInv, TypeOK
<1>4. /\ \A c, j : j \in DOMAIN tasks => ~Queued(j, c)
      /\ \A w \in Thread : \A c : ~Running(w, c)
  BY DEF IInv, StopInv, Queued, Running, Busy
<1>5. ASSUME NEW c \in Cell, c[1] = k
      PROVE  computed[c] = 1
  <2>1. c \in Diagonal(k) /\ c[2] < Handed
    BY <1>1, <1>2, <1>3, <1>5 DEF Diagonal, Cell
  <2>. QED
    BY <1>1, <1>4, <2>1 DEF IInv, CoverInv
<1>. QED
  BY <1>3, <1>5 DEF IInv, OrderInv, Cell

LEMMA NextDiagonalBlocks ==
  ASSUME IInv, NextDiagonal
  PROVE  BlocksInv'
<1>1. /\ client = "join" /\ client' = "construct" /\ k' = k + 1
      /\ tasks' = <<>> /\ active_threads' = 0
      /\ \A w \in Thread : pc'[w] = "none"
      /\ UNCHANGED computed
  BY DEF NextDiagonal, Join, Construct
<1>2. Busy' = {}
  BY <1>1 DEF Busy
<1>3. ActiveCounted'
  BY <1>1, <1>2, FS_EmptySet DEF ActiveCounted
<1>4. BlockInv' /\ DisjointInv'
  BY <1>1, <1>2 DEF BlockInv, DisjointInv, Queued, Running
<1>5. stop_pool
  BY <1>1 DEF IInv, ClientInv, StoppedPC
<1>6. \A c \in Cell : /\ c[1] < k' => computed'[c] = 1
                      /\ c[1] >= k' => computed'[c] = 0
  <2>1. k \in 0 .. N /\ \A c \in Cell : c[1] \in Int
    BY DEF IInv, TypeOK, Cell
  <2>. QED
    BY <1>1, <1>5, <2>1, StoppedDone DEF IInv, OrderInv
<1>7. OrderInv'
  BY <1>1, <1>6 DEF OrderInv, IInv, TypeOK, Cell
<1>8. CoverInv'
  <2>1. \A c \in Diagonal(k') : c \in Cell /\ computed'[c] = 0
    BY <1>1, <1>6 DEF Diagonal, IInv, TypeOK
  <2>. QED
    BY <1>1, <2>1 DEF CoverInv, NoPoolPC
<1>. QED
  BY <1>3, <1>4, <1>7, <1>8 DEF BlocksInv

LEMMA BlocksStep ==
  ASSUME IInv, [Next]_vars
  PROVE  BlocksInv'
<1>1. CASE NewPool
  BY <1>1, NewPoolBlocks
<1>2. CASE EnqueueBlock
  BY <1>2, EnqueueBlocks
<1>3. CASE NextDiagonal
  BY <1>3, NextDiagonalBlocks
<1>4. ASSUME NEW w \in Thread, TakeTask(w), UNCHANGED <<k, i, start_pool, computed>>
      PROVE  BlocksInv'
  BY <1>4, TakeTaskBlocks
<1>5. ASSUME NEW w \in Thread, blockWavefront(w)
      PROVE  BlocksInv'
  BY <1>5, RunBlocks
<1>6. ASSUME NEW w \in Thread, Finish(w)
      PROVE  BlocksInv'
  BY <1>6, FinishBlocks
<1>7. BlocksInv
  BY DEF IInv, BlocksInv
<1>8. CASE NotifyWorker
  <2>. USE <1>8 DEF NotifyWorker, NoPoolPC
  <2>1. \A w \in Thread : pc'[w] = pc[w] \/ (pc[w] = "asleep" /\ pc'[w] = "ready")
    BY NotifyOneType DEF IInv, TypeOK, PoolTypeOK
  <2>2. Handed' = Handed
    BY DEF Handed
  <2>. QED
    BY <1>7, <2>1, <2>2, QuietStep
<1>9. CASE starting_pool \/ EnterWait \/ Return
  <2>1. Handed' = Handed /\ (client' \in NoPoolPC <=> client \in NoPoolPC)
    BY <1>9 DEF starting_pool, EnterWait, Return, Handed, NoPoolPC
  <2>. QED
    BY <1>7, <1>9, <2>1, QuietStep DEF starting_pool, EnterWait, Return
<1>10. CASE (wait_and_stop \/ Destroy \/ WakeAll \/ SpuriousReturn)
            /\ UNCHANGED <<k, i, start_pool, computed>>
  <2>1. Handed' = Handed /\ (client' \in NoPoolPC <=> client \in NoPoolPC)
    BY <1>10 DEF wait_and_stop, Destroy, WakeAll, SpuriousReturn, Handed, NoPoolPC
  <2>2. \A w \in Thread : pc'[w] = pc[w] \/ (pc[w] = "asleep" /\ pc'[w] = "ready")
    BY <1>10 DEF wait_and_stop, Destroy, WakeAll, SpuriousReturn, NotifyAll
  <2>. QED
    BY <1>7, <1>10, <2>1, <2>2, QuietStep DEF wait_and_stop, Destroy, WakeAll, SpuriousReturn
<1>11. ASSUME NEW w \in Thread,
              Sleep(w) \/ Exit(w) \/ SpuriousWakeup(w),
              UNCHANGED <<k, i, start_pool, computed>>
       PROVE  BlocksInv'
  <2>1. \A v \in Thread : /\ pc'[v] = "run" <=> pc[v] = "run"
                          /\ pc'[v] = "ran" <=> pc[v] = "ran"
    BY <1>11 DEF Sleep, Exit, SpuriousWakeup, IInv, TypeOK, PoolTypeOK
  <2>2. Handed' = Handed
    BY <1>11 DEF Sleep, Exit, SpuriousWakeup, Handed
  <2>. QED
    BY <1>7, <1>11, <2>1, <2>2, QuietStep DEF Sleep, Exit, SpuriousWakeup
<1>12. CASE UNCHANGED vars
  BY <1>7, <1>12, QuietStep DEF vars, Handed
<1>. QED
  BY <1>1, <1>2, <1>3, <1>4, <1>5, <1>6, <1>8, <1>9, <1>10, <1>11, <1>12
     DEF Next, Client, Worker, Loop, Spurious, Ended

-----------------------------------------------------------------------------
(* The theorems.                                                            *)

LEMMA Invariance == Spec => []IInv
<1>1. IInv /\ [Next]_vars => IInv'
  BY TypeStep, ClientStep, StopStep, BlocksStep DEF IInv, BlocksInv
<1>. QED
  BY InitIInv, <1>1, PTL DEF Spec

(* Every variable keeps its type.                                           *)
THEOREM TypeCorrect == Spec => []TypeOK
<1>1. IInv => TypeOK
  BY DEF IInv
<1>. QED
  BY Invariance, <1>1, PTL

(* The pool never stops, by itself or through its destructor, before every  *)
(* element of the current diagonal has been computed.                       *)
THEOREM StopIsSafe == Spec => []StopMeansDone
<1>1. IInv => StopMeansDone
  <2>. SUFFICES ASSUME IInv, stop_pool, NEW d \in 0 .. k, NEW c \in Diagonal(d)
                PROVE  computed[c] > 0
    BY DEF StopMeansDone
  <2>1. c \in Cell /\ c[1] <= k
    BY DEF Diagonal, Cell, IInv, TypeOK
  <2>. QED
    BY <2>1, StoppedDone
<1>. QED
  BY Invariance, <1>1, PTL

(* No element is computed twice, and each one only after all the elements   *)
(* of the earlier, longer diagonals.                                        *)
THEOREM WavefrontOrder == Spec => []DiagonalOrder
<1>1. IInv => DiagonalOrder
  <2>. SUFFICES ASSUME IInv, NEW c \in Cell
                PROVE  /\ computed[c] <= 1
                       /\ computed[c] > 0 => \A e \in Cell : e[1] < c[1] => computed[e] = 1
    BY DEF DiagonalOrder
  <2>1. k \in Int /\ \A e \in Cell : e[1] \in Int
    BY DEF IInv, TypeOK, Cell
  <2>2. computed[c] \in {0, 1}
    BY <2>1 DEF IInv, OrderInv
  <2>3. computed[c] > 0 => c[1] <= k
    BY <2>1 DEF IInv, OrderInv
  <2>4. ASSUME computed[c] > 0, NEW e \in Cell, e[1] < c[1]
        PROVE  computed[e] = 1
    BY <2>1, <2>3, <2>4 DEF IInv, OrderInv
  <2>. QED
    BY <2>2, <2>4
<1>. QED
  BY Invariance, <1>1, PTL

(* parallelWavefront never enqueues on a stopped pool.                      *)
THEOREM EnqueueNeverThrows == Spec => []NeverThrows
<1>1. IInv => NeverThrows
  BY DEF IInv, ClientInv, NeverThrows
<1>. QED
  BY Invariance, <1>1, PTL

=============================================================================
