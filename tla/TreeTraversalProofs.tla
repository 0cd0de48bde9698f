--------------------------- MODULE TreeTraversalProofs ---------------------------
(***************************************************************************)
(* Proofs about TreeTraversal, for every tree and every number of threads: *)
(* the types, the pool that stops itself when the tree has been visited,   *)
(* and the queue that is served.  The inductive invariant IInv says where  *)
(* every call of traverse is while it waits.                               *)
(***************************************************************************)
EXTENDS TreeTraversal, FiniteLemmas

(* The node whose traversal spawns node n.                                  *)
Parent(n) == (n - 1) \div 2

(* Node n has been handed to the pool, or its parent has been visited.      *)
Reached(n) ==
  IF n = 0 THEN client # "enqueue" ELSE Parent(n) \in Node /\ visited[Parent(n)] = 1

Pending == Range(tasks) \cup UNION {Range(stack[w]) : w \in Thread}

(* A call waits in one place only: in the queue or on one stack.            *)
PlacesInv ==
  /\ IsInjective(tasks)
  /\ \A w \in Thread : IsInjective(stack[w]) /\ Range(stack[w]) \cap Range(tasks) = {}
  /\ \A v, w \in Thread : v # w => Range(stack[v]) \cap Range(stack[w]) = {}

(* A reached node is either visited or pending; no other node is.           *)
ReachedInv ==
  /\ \A n \in Node : visited[n] \in {0, 1} /\ (visited[n] = 1 => Reached(n))
  /\ \A n \in Pending : Reached(n) /\ (n \in Node => visited[n] = 0)
  /\ \A n \in Node : Reached(n) => visited[n] = 1 \/ n \in Pending

(* Calls are pending on the stacks of threads inside a task only.           *)
ThreadInv ==
  \A w \in Thread :
    /\ pc[w] # "run" => at[w] = "call" /\ stack[w] = <<>>
    /\ at[w] \in {"spawn", "enqueue"} => stack[w] # <<>>

(* A stopped pool is idle, and main has spawned the root.                   *)
StopInv ==
  /\ client = "enqueue" => tasks = <<>> /\ Busy = {}
  /\ stop_pool => client # "enqueue" /\ tasks = <<>> /\ Busy = {}
  /\ client \in {"destroy", "notify_all", "join"} => stop_pool

IInv ==
  /\ TypeOK /\ ActiveCounted /\ PlacesInv /\ ReachedInv /\ ThreadInv /\ StopInv /\ QueueServed

-----------------------------------------------------------------------------
(* The children of node m are 2m + 1 and 2m + 2.                            *)
LEMMA Children ==
  ASSUME NEW n \in Nat, n # 0
  PROVE  /\ Parent(n) \in Nat /\ Parent(n) < n
         /\ \A m \in Nat : Parent(n) = m <=> n = 2 * m + 1 \/ n = 2 * m + 2
BY DEF Parent

(* A thread is ready after notify_one, or was not asleep.                   *)
LEMMA NotifyOneType ==
  ASSUME NEW p \in [Thread -> WorkerPC], NEW q \in NotifyOne(p)
  PROVE  /\ q \in [Thread -> WorkerPC]
         /\ \A w \in Thread : q[w] = p[w] \/ (p[w] = "asleep" /\ q[w] = "ready")
         /\ \E w \in Thread : q[w] # "asleep"
<1>1. CASE Asleep(p) = {}
  BY <1>1, SomeThread DEF NotifyOne, Asleep
<1>2. CASE Asleep(p) # {}
  BY <1>2 DEF NotifyOne, Asleep, WorkerPC
<1>. QED
  BY <1>1, <1>2

(* notify_one wakes sleepers only, and leaves somebody awake.               *)
LEMMA Notified ==
  ASSUME pc \in [Thread -> WorkerPC], pc' \in NotifyOne(pc)
  PROVE  /\ pc' \in [Thread -> WorkerPC]
         /\ \A w \in Thread : pc'[w] = "run" <=> pc[w] = "run"
         /\ \A w \in Thread : pc'[w] = "ran" <=> pc[w] = "ran"
         /\ \E w \in Thread : pc'[w] # "asleep"
<1>1. /\ pc' \in [Thread -> WorkerPC]
      /\ \A w \in Thread : pc'[w] = pc[w] \/ (pc[w] = "asleep" /\ pc'[w] = "ready")
      /\ \E w \in Thread : pc'[w] # "asleep"
  BY NotifyOneType
<1>. QED
  BY <1>1

(* notify_all wakes sleepers only, and all of them.                         *)
LEMMA NotifyAllType ==
  ASSUME pc \in [Thread -> WorkerPC]
  PROVE  /\ NotifyAll(pc) \in [Thread -> WorkerPC]
         /\ \A w \in Thread : NotifyAll(pc)[w] = "run" <=> pc[w] = "run"
         /\ \A w \in Thread : NotifyAll(pc)[w] = "ran" <=> pc[w] = "ran"
         /\ \A w \in Thread : NotifyAll(pc)[w] # "asleep"
BY DEF NotifyAll, WorkerPC

(* The counter is zero when no thread is inside a task.                     *)
LEMMA BusyCounted ==
  ASSUME TypeOK, ActiveCounted
  PROVE  /\ IsFiniteSet(Busy)
         /\ \A w \in Busy : active_threads \in Nat \ {0}
         /\ active_threads = 0 <=> Busy = {}
<1>1. IsFiniteSet(Busy)
  BY FS_Subset, ThreadAssumption DEF Busy
<1>2. Cardinality(Busy) \in Nat /\ (Cardinality(Busy) = 0 <=> Busy = {})
  BY <1>1, FS_CardinalityType, FS_EmptySet
<1>. QED
  BY <1>1, <1>2 DEF ActiveCounted

(* The first state.                                                         *)
LEMMA InitIInv == Init => IInv
<1>. SUFFICES ASSUME Init PROVE IInv
  OBVIOUS
<1>. USE DEF Init
<1>1. TypeOK
  <2>1. pc \in [Thread -> WorkerPC]
    BY DEF WorkerPC
  <2>2. tasks \in Seq(Task)
    OBVIOUS
  <2>2a. stop_pool \in BOOLEAN /\ active_threads \in Nat
    OBVIOUS
  <2>3. task \in [Thread -> Task \cup {NoTask}] /\ stack \in [Thread -> Seq(Nat)]
    OBVIOUS
  <2>4. visited \in [Node -> Nat] /\ at \in [Thread -> {"call", "spawn", "enqueue", "notify"}]
    OBVIOUS
  <2>. QED
    BY <2>1, <2>2, <2>2a, <2>3, <2>4 DEF TypeOK, PoolTypeOK
<1>2. Busy = {}
  BY DEF Busy
<1>3. ActiveCounted
  BY <1>2, FS_EmptySet DEF ActiveCounted
<1>4. Range(tasks) = {} /\ IsInjective(tasks)
  BY DEF Range, IsInjective
<1>5. \A w \in Thread : Range(stack[w]) = {} /\ IsInjective(stack[w])
  BY DEF Range, IsInjective
<1>6. PlacesInv
  BY <1>4, <1>5 DEF PlacesInv
<1>7. Pending = {}
  BY <1>4, <1>5 DEF Pending
<1>8. \A n \in Node : visited[n] = 0 /\ ~Reached(n)
  <2>. SUFFICES ASSUME NEW n \in Node PROVE visited[n] = 0 /\ ~Reached(n)
    OBVIOUS
  <2>1. Parent(n) \in Node => visited[Parent(n)] = 0
    OBVIOUS
  <2>. QED
    BY <2>1 DEF Reached
<1>9. ReachedInv
  BY <1>7, <1>8 DEF ReachedInv
<1>10. ThreadInv /\ StopInv /\ QueueServed
  BY <1>2 DEF ThreadInv, StopInv, QueueServed, Asleep
<1>. QED
  BY <1>1, <1>3, <1>6, <1>9, <1>10 DEF IInv

-----------------------------------------------------------------------------
(* Type correctness.                                                        *)
LEMMA TypeStep ==
  ASSUME IInv, [Next]_vars
  PROVE  TypeOK'
<1>. USE DEF IInv, TypeOK, traversal
<1>1. CASE EnqueueRoot
  <2>1. tasks' \in Seq(Task)
    BY <1>1, TaskIsNode DEF EnqueueRoot, Enqueue, PoolTypeOK
  <2>. QED
    BY <1>1, <2>1 DEF EnqueueRoot, PoolTypeOK
<1>2. CASE NotifyRoot
  <2>1. pc' \in [Thread -> WorkerPC]
    BY <1>2, Notified DEF NotifyRoot, PoolTypeOK
  <2>. QED
    BY <1>2, <2>1 DEF NotifyRoot, PoolTypeOK
<1>3. CASE (wait_and_stop \/ Destroy \/ SpuriousReturn) /\ UNCHANGED traversal
  BY <1>3 DEF wait_and_stop, Destroy, SpuriousReturn, PoolTypeOK
<1>4. CASE WakeAll /\ UNCHANGED traversal
  <2>1. pc' \in [Thread -> WorkerPC]
    BY <1>4, NotifyAllType DEF WakeAll, PoolTypeOK
  <2>. QED
    BY <1>4, <2>1 DEF WakeAll, PoolTypeOK
<1>5. CASE Join("returned") /\ UNCHANGED traversal
  <2>. USE <1>5 DEF Join, Construct
  <2>1. pc' \in [Thread -> WorkerPC] /\ task' \in [Thread -> Task \cup {NoTask}]
    BY DEF WorkerPC
  <2>2. tasks' \in Seq(Task)
    OBVIOUS
  <2>3. stop_pool' \in BOOLEAN /\ active_threads' \in Nat
    OBVIOUS
  <2>. QED
    BY <2>1, <2>2, <2>3 DEF PoolTypeOK
<1>6. ASSUME NEW w \in Thread, Sleep(w) \/ Exit(w) \/ SpuriousWakeup(w), UNCHANGED traversal
      PROVE  TypeOK'
  <2>1. pc' \in [Thread -> WorkerPC]
    BY <1>6 DEF Sleep, Exit, SpuriousWakeup, PoolTypeOK, WorkerPC
  <2>. QED
    BY <1>6, <2>1 DEF Sleep, Exit, SpuriousWakeup, PoolTypeOK
<1>7. ASSUME NEW w \in Thread, BeginTask(w)
      PROVE  TypeOK'
  <2>. USE <1>7 DEF BeginTask, TakeTask, PoolTypeOK
  <2>1. Head(tasks) \in Task /\ tasks' \in Seq(Task)
    OBVIOUS
  <2>2. task' \in [Thread -> Task \cup {NoTask}]
    BY <2>1
  <2>3. pc' \in [Thread -> WorkerPC]
    BY DEF WorkerPC
  <2>4. stack' \in [Thread -> Seq(Nat)]
    BY <2>1, TaskIsNode
  <2>5. at' \in [Thread -> {"call", "spawn", "enqueue", "notify"}] /\ active_threads' \in Nat
    BY DEF before_task_hook
  <2>. QED
    BY <2>1, <2>2, <2>3, <2>4, <2>5
<1>8. ASSUME NEW w \in Thread, traverse(w)
      PROVE  TypeOK'
  <2>. USE <1>8 DEF traverse, pool
  <2>1. stack[w] \in Seq(Nat) /\ stack[w] # <<>> /\ Head(stack[w]) \in Nat /\ Tail(stack[w]) \in Seq(Nat)
    OBVIOUS
  <2>2. CASE Head(stack[w]) < NumNodes
    <3>. DEFINE node == Head(stack[w])
    <3>1. <<2 * node + 1, 2 * node + 2>> \o Tail(stack[w]) \in Seq(Nat)
      BY <2>1, PushRange
    <3>2. stack' = [stack EXCEPT ![w] = <<2 * node + 1, 2 * node + 2>> \o Tail(stack[w])]
      BY <2>2
    <3>2a. stack' \in [Thread -> Seq(Nat)]
      BY <3>1, <3>2
    <3>3. visited' \in [Node -> Nat]
      <4>1. visited' = [visited EXCEPT ![node] = visited[node] + 1] /\ node \in Node
        BY <2>1, <2>2, NumNodesAssumption DEF Node
      <4>. QED
        BY <4>1
    <3>4. at' \in [Thread -> {"call", "spawn", "enqueue", "notify"}]
      BY <2>2
    <3>. QED
      BY <3>2a, <3>3, <3>4 DEF PoolTypeOK
  <2>3. CASE ~(Head(stack[w]) < NumNodes)
    BY <2>1, <2>3 DEF PoolTypeOK
  <2>. QED
    BY <2>2, <2>3
<1>9. ASSUME NEW w \in Thread, spawn(w)
      PROVE  TypeOK'
  <2>1. at' \in [Thread -> {"call", "spawn", "enqueue", "notify"}]
    BY <1>9 DEF spawn
  <2>. QED
    BY <1>9, <2>1 DEF spawn, pool, PoolTypeOK
<1>10. ASSUME NEW w \in Thread, EnqueueChild(w)
       PROVE  TypeOK'
  <2>. USE <1>10 DEF EnqueueChild
  <2>1. stack[w] \in Seq(Nat) /\ stack[w] # <<>>
    BY DEF ThreadInv
  <2>2. Head(stack[w]) \in Nat /\ Tail(stack[w]) \in Seq(Nat)
    BY <2>1
  <2>3. tasks' \in Seq(Task)
    BY <2>2, TaskIsNode DEF Enqueue, PoolTypeOK
  <2>4. stack' \in [Thread -> Seq(Nat)]
    BY <2>2
  <2>5. at' \in [Thread -> {"call", "spawn", "enqueue", "notify"}]
    OBVIOUS
  <2>. QED
    BY <2>3, <2>4, <2>5 DEF PoolTypeOK
<1>11. ASSUME NEW w \in Thread, NotifyChild(w)
       PROVE  TypeOK'
  <2>1. pc' \in [Thread -> WorkerPC]
    BY <1>11, Notified DEF NotifyChild, PoolTypeOK
  <2>2. at' \in [Thread -> {"call", "spawn", "enqueue", "notify"}]
    BY <1>11 DEF NotifyChild
  <2>. QED
    BY <1>11, <2>1, <2>2 DEF NotifyChild, PoolTypeOK
<1>12. ASSUME NEW w \in Thread, EndTask(w)
       PROVE  TypeOK'
  <2>1. pc' \in [Thread -> WorkerPC]
    BY <1>12 DEF EndTask, PoolTypeOK, WorkerPC
  <2>. QED
    BY <1>12, <2>1 DEF EndTask, PoolTypeOK
<1>13. ASSUME NEW w \in Thread, FinishTask(w, TRUE), UNCHANGED traversal
       PROVE  TypeOK'
  <2>1. active_threads' \in Nat
    BY <1>13, BusyCounted DEF FinishTask, after_task_hook, Busy
  <2>2. stop_pool' \in BOOLEAN
    BY <1>13 DEF FinishTask, after_task_hook, PoolTypeOK
  <2>3. client' \in {"enqueue", "notify", "wait", "asleep", "destroy", "notify_all", "join", "returned"}
    BY <1>13 DEF FinishTask, after_task_hook
  <2>4. pc' \in [Thread -> WorkerPC] /\ task' \in [Thread -> Task \cup {NoTask}]
    BY <1>13 DEF FinishTask, PoolTypeOK, WorkerPC
  <2>. QED
    BY <1>13, <2>1, <2>2, <2>3, <2>4 DEF FinishTask, PoolTypeOK
<1>14. CASE UNCHANGED vars
  BY <1>14 DEF vars, PoolTypeOK
<1>. QED
  BY <1>1, <1>2, <1>3, <1>4, <1>5, <1>6, <1>7, <1>8, <1>9, <1>10, <1>11, <1>12, <1>13, <1>14
     DEF Next, Main, Worker, Spurious, Ended

-----------------------------------------------------------------------------
(* What a thread does outside its task, and the end of a task.              *)
LEMMA ThreadStep ==
  ASSUME IInv, [Next]_vars
  PROVE  ThreadInv'
<1>. USE DEF IInv, ThreadInv, TypeOK, PoolTypeOK, traversal
<1>1. CASE EnqueueRoot
  BY <1>1 DEF EnqueueRoot
<1>2. CASE NotifyRoot
  <2>1. pc \in [Thread -> WorkerPC] /\ pc' \in NotifyOne(pc)
    BY <1>2 DEF NotifyRoot
  <2>2. \A v \in Thread : pc'[v] = "run" <=> pc[v] = "run"
    BY <2>1, Notified
  <2>. QED
    BY <1>2, <2>2 DEF NotifyRoot
<1>3. CASE (wait_and_stop \/ Destroy \/ SpuriousReturn) /\ UNCHANGED traversal
  BY <1>3 DEF wait_and_stop, Destroy, SpuriousReturn
<1>4. CASE WakeAll /\ UNCHANGED traversal
  <2>1. \A w \in Thread : pc'[w] = "run" <=> pc[w] = "run"
    BY <1>4, NotifyAllType DEF WakeAll
  <2>. QED
    BY <1>4, <2>1 DEF WakeAll
<1>5. CASE Join("returned") /\ UNCHANGED traversal
  BY <1>5 DEF Join, Construct
<1>6. ASSUME NEW w \in Thread, Sleep(w) \/ Exit(w) \/ SpuriousWakeup(w), UNCHANGED traversal
      PROVE  ThreadInv'
  BY <1>6 DEF Sleep, Exit, SpuriousWakeup
<1>7. ASSUME NEW w \in Thread, BeginTask(w)
      PROVE  ThreadInv'
  BY <1>7 DEF BeginTask, TakeTask
<1>8. ASSUME NEW w \in Thread, traverse(w)
      PROVE  ThreadInv'
  <2>. USE <1>8 DEF traverse, pool
  <2>1. CASE Head(stack[w]) < NumNodes
    <3>. DEFINE node == Head(stack[w])
    <3>1. node \in Nat /\ Tail(stack[w]) \in Seq(Nat)
      OBVIOUS
    <3>2. <<2 * node + 1, 2 * node + 2>> \o Tail(stack[w]) # <<>>
      BY <3>1, PushRange
    <3>. QED
      BY <2>1, <3>2
  <2>2. CASE ~(Head(stack[w]) < NumNodes)
    BY <2>2
  <2>. QED
    BY <2>1, <2>2
<1>9. ASSUME NEW w \in Thread, spawn(w)
      PROVE  ThreadInv'
  BY <1>9 DEF spawn, pool
<1>10. ASSUME NEW w \in Thread, EnqueueChild(w)
       PROVE  ThreadInv'
  BY <1>10 DEF EnqueueChild
<1>11. ASSUME NEW w \in Thread, NotifyChild(w)
       PROVE  ThreadInv'
  <2>1. pc \in [Thread -> WorkerPC] /\ pc' \in NotifyOne(pc)
    BY <1>11 DEF NotifyChild
  <2>2. \A v \in Thread : pc'[v] = "run" <=> pc[v] = "run"
    BY <2>1, Notified
  <2>. QED
    BY <1>11, <2>2 DEF NotifyChild
<1>12. ASSUME NEW w \in Thread, EndTask(w)
       PROVE  ThreadInv'
  BY <1>12 DEF EndTask
<1>13. ASSUME NEW w \in Thread, FinishTask(w, TRUE), UNCHANGED traversal
       PROVE  ThreadInv'
  BY <1>13 DEF FinishTask
<1>14. CASE UNCHANGED vars
  BY <1>14 DEF vars
<1>. QED
  BY <1>1, <1>2, <1>3, <1>4, <1>5, <1>6, <1>7, <1>8, <1>9, <1>10, <1>11, <1>12, <1>13, <1>14
     DEF Next, Main, Worker, Spurious, Ended

-----------------------------------------------------------------------------
(* The counter of the hooks.                                                *)
LEMMA ActiveStep ==
  ASSUME IInv, [Next]_vars
  PROVE  ActiveCounted'
<1>. USE DEF IInv, TypeOK, PoolTypeOK, traversal
<1>0. IsFiniteSet(Busy)
  BY BusyCounted
<1>1. ASSUME active_threads' = active_threads,
             \A w \in Thread : /\ pc'[w] = "run" <=> pc[w] = "run"
                               /\ pc'[w] = "ran" <=> pc[w] = "ran"
      PROVE  ActiveCounted'
  <2>1. Busy' = Busy
    BY <1>1 DEF Busy
  <2>. QED
    BY <1>1, <2>1 DEF ActiveCounted
<1>2. CASE EnqueueRoot
  BY <1>1, <1>2 DEF EnqueueRoot
<1>3. CASE NotifyRoot
  <2>1. active_threads' = active_threads /\ pc \in [Thread -> WorkerPC] /\ pc' \in NotifyOne(pc)
    BY <1>3 DEF NotifyRoot
  <2>. QED
    BY <1>1, <2>1, Notified
<1>4. CASE (wait_and_stop \/ Destroy \/ SpuriousReturn) /\ UNCHANGED traversal
  BY <1>1, <1>4 DEF wait_and_stop, Destroy, SpuriousReturn
<1>5. CASE WakeAll /\ UNCHANGED traversal
  <2>1. active_threads' = active_threads /\ pc \in [Thread -> WorkerPC] /\ pc' = NotifyAll(pc)
    BY <1>5 DEF WakeAll
  <2>. QED
    BY <1>1, <2>1, NotifyAllType
<1>6. CASE Join("returned") /\ UNCHANGED traversal
  <2>1. Busy' = {} /\ active_threads' = 0
    BY <1>6 DEF Join, Construct, Busy
  <2>. QED
    BY <2>1, FS_EmptySet DEF ActiveCounted
<1>7. ASSUME NEW w \in Thread, Sleep(w) \/ Exit(w) \/ SpuriousWakeup(w), UNCHANGED traversal
      PROVE  ActiveCounted'
  BY <1>1, <1>7 DEF Sleep, Exit, SpuriousWakeup
<1>8. ASSUME NEW w \in Thread, BeginTask(w)
      PROVE  ActiveCounted'
  <2>1. Busy' = Busy \cup {w} /\ w \notin Busy
    BY <1>8 DEF BeginTask, TakeTask, Busy
  <2>2. active_threads' = active_threads + 1
    BY <1>8 DEF BeginTask, TakeTask, before_task_hook
  <2>3. Cardinality(Busy \cup {w}) = Cardinality(Busy) + 1
    BY <1>0, <2>1, FS_AddElement
  <2>. QED
    BY <2>1, <2>2, <2>3 DEF ActiveCounted
<1>9. ASSUME NEW w \in Thread, traverse(w) \/ spawn(w) \/ EnqueueChild(w)
      PROVE  ActiveCounted'
  <2>1. active_threads' = active_threads /\ pc' = pc
    BY <1>9 DEF traverse, spawn, EnqueueChild, pool
  <2>. QED
    BY <1>1, <2>1
<1>10. ASSUME NEW w \in Thread, NotifyChild(w)
       PROVE  ActiveCounted'
  <2>1. active_threads' = active_threads /\ pc \in [Thread -> WorkerPC] /\ pc' \in NotifyOne(pc)
    BY <1>10 DEF NotifyChild
  <2>. QED
    BY <1>1, <2>1, Notified
<1>11. ASSUME NEW w \in Thread, EndTask(w)
       PROVE  ActiveCounted'
  <2>1. Busy' = Busy /\ active_threads' = active_threads
    BY <1>11 DEF EndTask, Busy
  <2>. QED
    BY <2>1 DEF ActiveCounted
<1>12. ASSUME NEW w \in Thread, FinishTask(w, TRUE), UNCHANGED traversal
       PROVE  ActiveCounted'
  <2>1. Busy' = Busy \ {w} /\ w \in Busy
    BY <1>12 DEF FinishTask, Busy
  <2>2. active_threads' = active_threads - 1
    BY <1>12 DEF FinishTask, after_task_hook
  <2>3. Cardinality(Busy \ {w}) = Cardinality(Busy) - 1
    BY <1>0, <2>1, FS_RemoveElement
  <2>. QED
    BY <2>1, <2>2, <2>3 DEF ActiveCounted
<1>13. CASE UNCHANGED vars
  BY <1>1, <1>13 DEF vars
<1>. QED
  BY <1>2, <1>3, <1>4, <1>5, <1>6, <1>7, <1>8, <1>9, <1>10, <1>11, <1>12, <1>13
     DEF Next, Main, Worker, Spurious, Ended

(* The pool stops when it is idle, and no task appears in a stopped pool.   *)
LEMMA StopStep ==
  ASSUME IInv, [Next]_vars
  PROVE  StopInv'
<1>. USE DEF IInv, StopInv, traversal
<1>1. ASSUME UNCHANGED <<tasks, stop_pool, client>>,
             \A w \in Thread : /\ pc'[w] = "run" <=> pc[w] = "run"
                               /\ pc'[w] = "ran" <=> pc[w] = "ran"
      PROVE  StopInv'
  <2>1. Busy' = Busy
    BY <1>1 DEF Busy
  <2>. QED
    BY <1>1, <2>1
<1>2. CASE EnqueueRoot
  BY <1>2 DEF EnqueueRoot
<1>3. CASE NotifyRoot
  <2>1. pc \in [Thread -> WorkerPC] /\ pc' \in NotifyOne(pc)
    BY <1>3 DEF NotifyRoot, TypeOK, PoolTypeOK
  <2>2. Busy' = Busy
    BY <2>1, Notified DEF Busy
  <2>. QED
    BY <1>3, <2>2 DEF NotifyRoot
<1>4. CASE (wait_and_stop \/ SpuriousReturn) /\ UNCHANGED traversal
  <2>1. Busy' = Busy
    BY <1>4 DEF wait_and_stop, SpuriousReturn, Busy
  <2>. QED
    BY <1>4, <2>1 DEF wait_and_stop, SpuriousReturn
<1>5. CASE Destroy /\ UNCHANGED traversal
  <2>1. Busy' = Busy
    BY <1>5 DEF Destroy, Busy
  <2>. QED
    BY <1>5, <2>1 DEF Destroy
<1>6. CASE WakeAll /\ UNCHANGED traversal
  <2>1. pc \in [Thread -> WorkerPC] /\ pc' = NotifyAll(pc)
    BY <1>6 DEF WakeAll, TypeOK, PoolTypeOK
  <2>2. Busy' = Busy
    BY <2>1, NotifyAllType DEF Busy
  <2>. QED
    BY <1>6, <2>2 DEF WakeAll
<1>7. CASE Join("returned") /\ UNCHANGED traversal
  BY <1>7 DEF Join, Construct
<1>8. ASSUME NEW w \in Thread, Sleep(w) \/ Exit(w) \/ SpuriousWakeup(w), UNCHANGED traversal
      PROVE  StopInv'
  BY <1>1, <1>8 DEF Sleep, Exit, SpuriousWakeup, TypeOK, PoolTypeOK
<1>9. ASSUME NEW w \in Thread, BeginTask(w)
      PROVE  StopInv'
  <2>1. tasks # <<>> /\ UNCHANGED <<stop_pool, client>>
    BY <1>9 DEF BeginTask, TakeTask
  <2>. QED
    BY <2>1
<1>10. ASSUME NEW w \in Thread, traverse(w) \/ spawn(w)
       PROVE  StopInv'
  BY <1>1, <1>10 DEF traverse, spawn, pool
<1>11. ASSUME NEW w \in Thread, EnqueueChild(w)
       PROVE  StopInv'
  <2>1. w \in Busy
    BY <1>11 DEF EnqueueChild, Busy
  <2>2. UNCHANGED <<stop_pool, client>>
    BY <1>11 DEF EnqueueChild
  <2>. QED
    BY <2>1, <2>2
<1>12. ASSUME NEW w \in Thread, NotifyChild(w)
       PROVE  StopInv'
  <2>1. UNCHANGED <<tasks, stop_pool, client>> /\ pc \in [Thread -> WorkerPC] /\ pc' \in NotifyOne(pc)
    BY <1>12 DEF NotifyChild, TypeOK, PoolTypeOK
  <2>. QED
    BY <1>1, <2>1, Notified
<1>13. ASSUME NEW w \in Thread, EndTask(w)
       PROVE  StopInv'
  <2>1. w \in Busy /\ UNCHANGED <<stop_pool, client>>
    BY <1>13 DEF EndTask, Busy
  <2>. QED
    BY <2>1
<1>14. ASSUME NEW w \in Thread, FinishTask(w, TRUE), UNCHANGED traversal
       PROVE  StopInv'
  <2>1. w \in Busy /\ client # "enqueue" /\ ~stop_pool
    BY <1>14 DEF FinishTask, Busy
  <2>2. client \notin {"destroy", "notify_all", "join"}
    BY <2>1
  <2>3. client' # "enqueue" /\ client' \notin {"destroy", "notify_all", "join"}
    BY <1>14, <2>1, <2>2 DEF FinishTask, after_task_hook
  <2>4. stop_pool' => tasks' = <<>> /\ active_threads' = 0
    BY <1>14, <2>1 DEF FinishTask, after_task_hook
  <2>5. ActiveCounted' /\ TypeOK'
    BY ActiveStep, TypeStep
  <2>6. stop_pool' => Busy' = {}
    <3>1. IsFiniteSet(Busy')
      BY <2>5, FS_Subset, ThreadAssumption DEF Busy
    <3>. QED
      BY <2>4, <2>5, <3>1, FS_EmptySet DEF ActiveCounted
  <2>. QED
    BY <2>3, <2>4, <2>6
<1>15. CASE UNCHANGED vars
  BY <1>1, <1>15 DEF vars
<1>. QED
  BY <1>2, <1>3, <1>4, <1>5, <1>6, <1>7, <1>8, <1>9, <1>10, <1>11, <1>12, <1>13, <1>14, <1>15
     DEF Next, Main, Worker, Spurious, Ended

(* notify_one makes a thread look at the queue, if one sleeps.              *)
LEMMA NotifiedLooks ==
  ASSUME pc \in [Thread -> WorkerPC], pc' \in NotifyOne(pc), Asleep(pc') # {}
  PROVE  /\ Asleep(pc) # {}
         /\ \E v \in Thread : v \notin Looking /\ Looking' = Looking \cup {v}
<1>1. Asleep(pc) # {}
  BY DEF NotifyOne
<1>2. PICK v \in Asleep(pc) : pc' = [pc EXCEPT ![v] = "ready"]
  BY <1>1 DEF NotifyOne
<1>3. v \in Thread /\ pc[v] = "asleep"
  BY DEF Asleep
<1>4. v \notin Looking /\ Looking' = Looking \cup {v}
  BY <1>2, <1>3 DEF Looking
<1>. QED
  BY <1>1, <1>3, <1>4

(* A set of threads that gains a thread, or loses one.                      *)
LEMMA OneMore ==
  ASSUME NEW S \in SUBSET Thread, NEW w \in Thread
  PROVE  /\ Cardinality(S) \in Nat
         /\ w \notin S => Cardinality(S \cup {w}) = Cardinality(S) + 1
         /\ w \in S => Cardinality(S \ {w}) = Cardinality(S) - 1
<1>1. IsFiniteSet(S)
  BY FS_Subset, ThreadAssumption
<1>. QED
  BY <1>1, FS_CardinalityType, FS_AddElement, FS_RemoveElement

(* Who sleeps, looks and notifies after a step of thread w, by pc' and at'. *)
LEMMA ThreadMoves ==
  ASSUME TypeOK, NEW w \in Thread, NEW x, NEW y,
         pc' = [pc EXCEPT ![w] = x], at' = [at EXCEPT ![w] = y]
  PROVE  /\ x # "asleep" /\ Asleep(pc') # {} => Asleep(pc) # {}
         /\ Looking' = IF x = "ready" THEN Looking \cup {w} ELSE Looking \ {w}
         /\ Notifying' = IF y = "notify" THEN Notifying \cup {w} ELSE Notifying \ {w}
<1>1. \A v \in Thread : pc'[v] = (IF v = w THEN x ELSE pc[v]) /\ at'[v] = (IF v = w THEN y ELSE at[v])
  BY DEF TypeOK, PoolTypeOK
<1>. QED
  BY <1>1 DEF Asleep, Looking, Notifying

(* Every queued task keeps somebody who comes for it.                       *)
LEMMA ServeStep ==
  ASSUME IInv, [Next]_vars
  PROVE  QueueServed'
<1>. DEFINE R == Cardinality(Looking)
            N == Cardinality(Notifying)
            c == IF client = "notify" THEN 1 ELSE 0
<1>0. /\ TypeOK /\ ThreadInv /\ pc \in [Thread -> WorkerPC] /\ Len(tasks) \in Nat
      /\ Looking \in SUBSET Thread /\ Notifying \in SUBSET Thread
      /\ Asleep(pc) # {} => Len(tasks) <= R + N + c
  BY DEF IInv, TypeOK, PoolTypeOK, QueueServed, Looking, Notifying
<1>1. R \in Nat /\ N \in Nat /\ c \in Nat
  BY <1>0, OneMore, SomeThread
<1>2. /\ Looking' \in SUBSET Thread /\ Notifying' \in SUBSET Thread
      /\ R' \in Nat /\ N' \in Nat /\ c' \in Nat
  <2>1. Looking' \in SUBSET Thread /\ Notifying' \in SUBSET Thread
    BY DEF Looking, Notifying
  <2>. QED BY <2>1, OneMore, SomeThread
<1>3. ASSUME Asleep(pc') # {} => Len(tasks') <= R' + N' + c'
      PROVE  QueueServed'
  BY <1>3 DEF QueueServed
(* Nobody sleeps, or nothing is in the queue.                               *)
<1>4. ASSUME Asleep(pc') = {} \/ tasks' = <<>>
      PROVE  QueueServed'
  <2>1. Len(<<>>) = 0
    OBVIOUS
  <2>. QED BY <1>2, <1>3, <1>4, <2>1
(* Nothing that counts changes.                                             *)
<1>5. ASSUME UNCHANGED <<tasks, pc, at>>, client' = "notify" <=> client = "notify"
      PROVE  QueueServed'
  BY <1>0, <1>5 DEF QueueServed, Looking, Notifying
<1>6. CASE EnqueueRoot
  <2>1. UNCHANGED <<pc, at>> /\ c = 0 /\ c' = 1
    BY <1>6 DEF EnqueueRoot, traversal
  <2>2. R' = R /\ N' = N /\ Asleep(pc') = Asleep(pc)
    BY <2>1 DEF Looking, Notifying
  <2>3. Len(tasks') <= Len(tasks) + 1
    <3>1. tasks \in Seq(Nat) /\ (tasks' = tasks \/ tasks' = Append(tasks, 0))
      BY <1>0, <1>6, TaskIsNode DEF EnqueueRoot, Enqueue, TypeOK, PoolTypeOK
    <3>. QED BY <1>0, <3>1
  <2>4. Asleep(pc') # {} => Len(tasks') <= R' + N' + c'
    <3>. HIDE DEF R, N, c
    <3>1. Len(tasks') \in Nat
      BY <1>6, <1>0, TaskIsNode DEF EnqueueRoot, Enqueue, TypeOK, PoolTypeOK
    <3>. QED BY <1>0, <1>1, <2>1, <2>2, <2>3, <3>1
  <2>. QED BY <1>3, <2>4
(* A notification moves to a thread that looks.                             *)
<1>7. ASSUME pc' \in NotifyOne(pc), UNCHANGED tasks,
             (N' = N /\ c = 1 /\ c' = 0) \/ (N' = N - 1 /\ c' = c)
      PROVE  QueueServed'
  <2>1. SUFFICES ASSUME Asleep(pc') # {} PROVE Len(tasks') <= R' + N' + c'
    BY <1>3
  <2>2. PICK v \in Thread : v \notin Looking /\ Looking' = Looking \cup {v}
    BY <1>0, <1>7, <2>1, NotifiedLooks
  <2>3. R' = R + 1
    BY <1>0, <2>2, OneMore
  <2>4. Asleep(pc) # {}
    BY <1>0, <1>7, <2>1, NotifiedLooks
  <2>5. Len(tasks) <= R + N + c /\ Len(tasks) \in Nat /\ Len(tasks') = Len(tasks)
    BY <1>0, <1>7, <2>4
  <2>6. CASE N' = N /\ c = 1 /\ c' = 0
    <3>. HIDE DEF R, N, c
    <3>. QED BY <1>1, <2>3, <2>5, <2>6
  <2>7. CASE N' = N - 1 /\ c' = c
    <3>. HIDE DEF R, N, c
    <3>. QED BY <1>1, <2>3, <2>5, <2>7
  <2>. QED BY <1>7, <2>6, <2>7
<1>8. CASE NotifyRoot
  <2>1. UNCHANGED <<tasks, at>> /\ pc' \in NotifyOne(pc) /\ c = 1 /\ c' = 0
    BY <1>8 DEF NotifyRoot, traversal
  <2>2. N' = N
    BY <2>1 DEF Notifying
  <2>. QED BY <1>7, <2>1, <2>2
<1>9. CASE (wait_and_stop \/ Destroy \/ SpuriousReturn) /\ UNCHANGED traversal
  <2>1. UNCHANGED <<tasks, pc, at>> /\ (client' = "notify" <=> client = "notify")
    BY <1>9 DEF wait_and_stop, Destroy, SpuriousReturn, traversal
  <2>. QED BY <1>5, <2>1
<1>10. CASE WakeAll /\ UNCHANGED traversal
  <2>1. pc' = NotifyAll(pc)
    BY <1>10 DEF WakeAll
  <2>2. Asleep(pc') = {}
    BY <1>0, <2>1, NotifyAllType DEF Asleep
  <2>. QED BY <1>4, <2>2
<1>11. CASE Join("returned") /\ UNCHANGED traversal
  BY <1>4, <1>11 DEF Join, Construct
<1>12. ASSUME NEW w \in Thread, (Sleep(w) \/ Exit(w)) /\ UNCHANGED traversal
       PROVE  QueueServed'
  BY <1>4, <1>12 DEF Sleep, Exit
(* A thread looks again, and nothing else that counts changes.              *)
<1>13. ASSUME NEW w \in Thread, pc[w] # "ready", pc' = [pc EXCEPT ![w] = "ready"],
              UNCHANGED <<tasks, at>>, client' = "notify" <=> client = "notify"
       PROVE  QueueServed'
  <2>1. at' = [at EXCEPT ![w] = at[w]]
    BY <1>0, <1>13 DEF TypeOK
  <2>2. Asleep(pc') # {} => Asleep(pc) # {}
    BY <1>0, <1>13, <2>1, ThreadMoves
  <2>3. w \notin Looking /\ Looking' = Looking \cup {w} /\ N' = N /\ c' = c
    BY <1>0, <1>13, <2>1, ThreadMoves DEF Looking, Notifying
  <2>4. R' = R + 1
    BY <1>0, <2>3, OneMore
  <2>5. Asleep(pc') # {} => Len(tasks') <= R' + N' + c'
    <3>1. SUFFICES ASSUME Asleep(pc') # {} PROVE Len(tasks') <= R' + N' + c'
      OBVIOUS
    <3>2. Len(tasks) <= R + N + c /\ Len(tasks) \in Nat /\ Len(tasks') = Len(tasks)
      BY <1>0, <1>13, <2>2, <3>1
    <3>3. N' = N /\ c' = c
      BY <2>3
    <3>. HIDE DEF R, N, c
    <3>. QED BY <1>1, <2>4, <3>2, <3>3
  <2>. QED BY <1>3, <2>5
<1>14. ASSUME NEW w \in Thread, SpuriousWakeup(w), UNCHANGED traversal
       PROVE  QueueServed'
  BY <1>13, <1>14 DEF SpuriousWakeup, traversal
<1>15. ASSUME NEW w \in Thread, FinishTask(w, TRUE), UNCHANGED traversal
       PROVE  QueueServed'
  <2>1. client' = "notify" <=> client = "notify"
    BY <1>15 DEF FinishTask, after_task_hook
  <2>. QED BY <1>13, <1>15, <2>1 DEF FinishTask, traversal
(* The thread that looks takes its task.                                    *)
<1>16. ASSUME NEW w \in Thread, BeginTask(w)
       PROVE  QueueServed'
  <2>1. /\ w \in Looking /\ pc' = [pc EXCEPT ![w] = "run"] /\ at' = [at EXCEPT ![w] = "call"]
        /\ at[w] = "call" /\ tasks # <<>> /\ tasks' = Tail(tasks) /\ c' = c
    BY <1>0, <1>16 DEF BeginTask, TakeTask, Looking, ThreadInv
  <2>2. /\ Asleep(pc') # {} => Asleep(pc) # {}
        /\ Looking' = Looking \ {w} /\ Notifying' = Notifying \ {w}
    BY <1>0, <2>1, ThreadMoves
  <2>3. N' = N
    <3>1. Notifying' = Notifying
      BY <2>1, <2>2 DEF Notifying
    <3>. QED BY <3>1
  <2>4. R' = R - 1
    BY <1>0, <2>1, <2>2, OneMore
  <2>5. Len(tasks') = Len(tasks) - 1
    BY <1>0, <2>1 DEF TypeOK, PoolTypeOK
  <2>6. Asleep(pc') # {} => Len(tasks') <= R' + N' + c'
    <3>1. SUFFICES ASSUME Asleep(pc') # {} PROVE Len(tasks') <= R' + N' + c'
      OBVIOUS
    <3>2. Len(tasks) <= R + N + c /\ Len(tasks) \in Nat
      BY <1>0, <2>2, <3>1
    <3>3. c' = c
      BY <2>1
    <3>. HIDE DEF R, N, c
    <3>. QED BY <1>1, <2>3, <2>4, <2>5, <3>2, <3>3
  <2>. QED BY <1>3, <2>6
(* A thread stays inside its task.                                          *)
<1>17. ASSUME NEW w \in Thread, traverse(w) \/ spawn(w) \/ EndTask(w)
       PROVE  QueueServed'
  <2>1. /\ UNCHANGED <<tasks, client>> /\ pc[w] = "run" /\ at[w] # "notify"
        /\ \E x \in {"run", "ran"} : pc' = [pc EXCEPT ![w] = x]
        /\ \E y \in {"call", "spawn", "enqueue"} : at' = [at EXCEPT ![w] = y]
    <3>1. pc = [pc EXCEPT ![w] = pc[w]] /\ at = [at EXCEPT ![w] = at[w]]
      BY <1>0 DEF TypeOK
    <3>. QED BY <1>17, <3>1 DEF traverse, spawn, EndTask, pool, traversal
  <2>2. PICK x \in {"run", "ran"} : pc' = [pc EXCEPT ![w] = x]
    BY <2>1
  <2>3. PICK y \in {"call", "spawn", "enqueue"} : at' = [at EXCEPT ![w] = y]
    BY <2>1
  <2>4. /\ Asleep(pc') # {} => Asleep(pc) # {}
        /\ Looking' = Looking \ {w} /\ Notifying' = Notifying \ {w}
    BY <1>0, <2>2, <2>3, ThreadMoves
  <2>5. Looking' = Looking /\ Notifying' = Notifying
    BY <2>1, <2>4 DEF Looking, Notifying
  <2>6. Asleep(pc') # {} => Len(tasks') <= R' + N' + c'
    BY <1>0, <2>1, <2>4, <2>5
  <2>. QED BY <1>3, <2>6
<1>18. ASSUME NEW w \in Thread, EnqueueChild(w)
       PROVE  QueueServed'
  <2>1. CASE stop_pool
    <3>1. UNCHANGED <<tasks, pc, client>> /\ at[w] # "notify" /\ at' = [at EXCEPT ![w] = "call"]
      BY <1>18, <2>1 DEF EnqueueChild, Enqueue
    <3>2. Notifying' = Notifying
      BY <1>0, <3>1 DEF Notifying, TypeOK
    <3>. QED BY <1>0, <1>3, <3>1, <3>2 DEF Looking
  <2>2. CASE ~stop_pool
    <3>1. /\ UNCHANGED <<pc, client>> /\ w \notin Notifying /\ at' = [at EXCEPT ![w] = "notify"]
          /\ tasks' = Append(tasks, Head(stack[w]))
      BY <1>18, <2>2 DEF EnqueueChild, Enqueue, Notifying
    <3>2. Notifying' = Notifying \cup {w} /\ R' = R /\ c' = c /\ Asleep(pc') = Asleep(pc)
      BY <1>0, <3>1 DEF Notifying, Looking, TypeOK
    <3>3. N' = N + 1
      BY <1>0, <3>1, <3>2, OneMore
    <3>4. Len(tasks') = Len(tasks) + 1
      BY <1>0, <3>1 DEF TypeOK, PoolTypeOK
    <3>5. Asleep(pc') # {} => Len(tasks') <= R' + N' + c'
      <4>. HIDE DEF R, N, c
      <4>. QED BY <1>0, <1>1, <1>2, <3>2, <3>3, <3>4
    <3>. QED BY <1>3, <3>5
  <2>. QED BY <2>1, <2>2
<1>19. ASSUME NEW w \in Thread, NotifyChild(w)
       PROVE  QueueServed'
  <2>1. /\ UNCHANGED tasks /\ pc' \in NotifyOne(pc) /\ w \in Notifying /\ c' = c
        /\ at' = [at EXCEPT ![w] = "call"]
    BY <1>19 DEF NotifyChild, Notifying
  <2>2. Notifying' = Notifying \ {w}
    BY <1>0, <2>1 DEF Notifying, TypeOK
  <2>3. N' = N - 1
    BY <1>0, <2>1, <2>2, OneMore
  <2>. QED BY <1>7, <2>1, <2>3
<1>20. CASE UNCHANGED vars
  BY <1>5, <1>20 DEF vars
<1>. QED
  BY <1>6, <1>8, <1>9, <1>10, <1>11, <1>12, <1>14, <1>15, <1>16, <1>17, <1>18, <1>19, <1>20
     DEF Next, Main, Worker, Spurious, Ended

-----------------------------------------------------------------------------
(* The calls and the nodes.                                                 *)
TreeInv == PlacesInv /\ ReachedInv

(* A step that touches neither the calls nor the nodes.                     *)
LEMMA QuietStep ==
  ASSUME TreeInv, UNCHANGED <<tasks, stack, visited>>,
         client' = "enqueue" <=> client = "enqueue"
  PROVE  TreeInv'
<1>1. \A n : Reached(n)' <=> Reached(n)
  BY DEF Reached
<1>2. Pending' = Pending
  BY DEF Pending
<1>. QED
  BY <1>1, <1>2 DEF TreeInv, PlacesInv, ReachedInv

(* A step that moves calls from one place to another.                       *)
LEMMA MoveStep ==
  ASSUME TreeInv, PlacesInv', Pending' = Pending, visited' = visited,
         client' = "enqueue" <=> client = "enqueue"
  PROVE  TreeInv'
<1>1. \A n : Reached(n)' <=> Reached(n)
  BY DEF Reached
<1>. QED
  BY <1>1 DEF TreeInv, ReachedInv

(* main hands the root to the pool.                                         *)
LEMMA RootTree ==
  ASSUME IInv, EnqueueRoot
  PROVE  TreeInv'
<1>. USE DEF IInv
<1>1. tasks = <<>> /\ client = "enqueue" /\ client' = "notify" /\ UNCHANGED <<stack, visited>>
  BY DEF EnqueueRoot, StopInv, traversal
<1>2. tasks' = <<0>>
  <2>1. ~stop_pool
    BY <1>1 DEF StopInv
  <2>. QED
    BY <1>1, <2>1 DEF EnqueueRoot, Enqueue
<1>3. Range(tasks) = {} /\ Range(tasks') = {0} /\ IsInjective(tasks')
  BY <1>1, <1>2 DEF Range, IsInjective
<1>4. Pending' = Pending \cup {0}
  BY <1>1, <1>3 DEF Pending
<1>5. 0 \notin Pending
  BY <1>1 DEF ReachedInv, Reached
<1>6. PlacesInv'
  BY <1>1, <1>3, <1>5 DEF PlacesInv, Pending
<1>7. \A n : Reached(n)' <=> n = 0 \/ Reached(n)
  BY <1>1 DEF Reached
<1>8. 0 \in Node => visited[0] = 0
  BY <1>1 DEF ReachedInv, Reached
<1>9. ReachedInv'
  <2>1. \A n \in Node : visited'[n] \in {0, 1} /\ (visited'[n] = 1 => Reached(n)')
    BY <1>1, <1>7 DEF ReachedInv
  <2>2. \A n \in Pending' : Reached(n)' /\ (n \in Node => visited'[n] = 0)
    BY <1>1, <1>4, <1>7, <1>8 DEF ReachedInv
  <2>3. \A n \in Node : Reached(n)' => visited'[n] = 1 \/ n \in Pending'
    BY <1>1, <1>4, <1>7 DEF ReachedInv
  <2>. QED
    BY <2>1, <2>2, <2>3 DEF ReachedInv
<1>. QED
  BY <1>6, <1>9 DEF TreeInv

(* The calls that wait, one by one, in this state and in the next one.      *)
LEMMA InPending ==
  /\ \A n : n \in Pending <=> n \in Range(tasks) \/ \E v \in Thread : n \in Range(stack[v])
  /\ \A n : n \in Pending' <=> n \in Range(tasks') \/ \E v \in Thread : n \in Range(stack'[v])
BY DEF Pending

(* PlacesInv, element by element, is what the next state has to satisfy.    *)
LEMMA PlacesNext ==
  ASSUME IsInjective(tasks'), \A v \in Thread : IsInjective(stack'[v]),
         \A v \in Thread : \A n \in Range(stack'[v]) : n \notin Range(tasks'),
         \A u, v \in Thread : u # v => \A n \in Range(stack'[u]) : n \notin Range(stack'[v])
  PROVE  PlacesInv'
<1>1. \A v \in Thread : Range(stack'[v]) \cap Range(tasks') = {}
  OBVIOUS
<1>2. \A u, v \in Thread : u # v => Range(stack'[u]) \cap Range(stack'[v]) = {}
  OBVIOUS
<1>. QED
  BY <1>1, <1>2 DEF PlacesInv

(* PlacesInv, element by element.                                           *)
LEMMA PlacesNow ==
  ASSUME PlacesInv
  PROVE  /\ IsInjective(tasks)
         /\ \A v \in Thread : IsInjective(stack[v])
         /\ \A v \in Thread : \A n \in Range(stack[v]) : n \notin Range(tasks)
         /\ \A u, v \in Thread : u # v => \A n \in Range(stack[u]) : n \notin Range(stack[v])
<1>1. \A v \in Thread : \A n \in Range(stack[v]) : n \notin Range(tasks)
  BY DEF PlacesInv
<1>2. \A u, v \in Thread : u # v => \A n \in Range(stack[u]) : n \notin Range(stack[v])
  BY DEF PlacesInv
<1>. QED
  BY <1>1, <1>2 DEF PlacesInv

(* A task is taken: its call moves from the queue to the stack of the thread.*)
LEMMA BeginTree ==
  ASSUME IInv, NEW w \in Thread, BeginTask(w)
  PROVE  TreeInv'
<1>. DEFINE c == Head(tasks)
<1>0. PlacesInv /\ TreeInv
  BY DEF IInv, TreeInv
<1>1. /\ tasks \in Seq(Nat) /\ tasks # <<>> /\ tasks' = Tail(tasks)
      /\ stack' = [stack EXCEPT ![w] = <<c>>] /\ visited' = visited /\ client' = client
      /\ stack \in [Thread -> Seq(Nat)]
  BY TaskIsNode DEF BeginTask, TakeTask, IInv, TypeOK, PoolTypeOK
<1>2. stack[w] = <<>>
  BY DEF BeginTask, TakeTask, IInv, ThreadInv
<1>3. Range(tasks) = Range(tasks') \cup {c} /\ IsInjective(tasks') /\ c \notin Range(tasks')
  BY <1>0, <1>1, TailRange DEF PlacesInv
<1>4. Range(stack[w]) = {} /\ Range(stack'[w]) = {c} /\ IsInjective(stack'[w])
  BY <1>1, <1>2 DEF Range, IsInjective
<1>5. \A v \in Thread : v # w => stack'[v] = stack[v]
  BY <1>1
<1>. HIDE DEF c
<1>6. Pending' = Pending
  <2>1. \A n : n \in Pending' <=> n \in Pending
    BY <1>3, <1>4, <1>5, InPending
  <2>. QED
    BY <2>1
<1>7. \A v \in Thread : v # w => Range(stack'[v]) = Range(stack[v]) /\ c \notin Range(stack[v])
  BY <1>0, <1>3, <1>5, PlacesNow
<1>8. PlacesInv'
  <2>1. \A v \in Thread : IsInjective(stack'[v])
    BY <1>0, <1>4, <1>5, PlacesNow
  <2>2. \A v \in Thread : \A n \in Range(stack'[v]) : n \notin Range(tasks')
    BY <1>0, <1>3, <1>4, <1>7, PlacesNow
  <2>3. \A u, v \in Thread : u # v => \A n \in Range(stack'[u]) : n \notin Range(stack'[v])
    BY <1>0, <1>4, <1>7, PlacesNow
  <2>. QED
    BY <1>3, <2>1, <2>2, <2>3, PlacesNext
<1>. QED
  BY <1>0, <1>1, <1>6, <1>8, MoveStep

(* A child is spawned: its call moves from the stack to the queue.          *)
LEMMA ChildTree ==
  ASSUME IInv, NEW w \in Thread, EnqueueChild(w)
  PROVE  TreeInv'
<1>. DEFINE c == Head(stack[w])
<1>0. PlacesInv /\ TreeInv
  BY DEF IInv, TreeInv
<1>1. ~stop_pool
  BY DEF EnqueueChild, Busy, IInv, StopInv
<1>2. /\ tasks \in Seq(Nat) /\ tasks' = Append(tasks, c)
      /\ stack[w] \in Seq(Nat) /\ stack[w] # <<>>
      /\ stack' = [stack EXCEPT ![w] = Tail(stack[w])] /\ visited' = visited /\ client' = client
      /\ stack \in [Thread -> Seq(Nat)]
  BY <1>1, TaskIsNode DEF EnqueueChild, Enqueue, IInv, ThreadInv, TypeOK, PoolTypeOK
<1>3. /\ c \in Nat /\ c \in Range(stack[w])
      /\ Range(stack[w]) = Range(Tail(stack[w])) \cup {c}
      /\ IsInjective(Tail(stack[w])) /\ c \notin Range(Tail(stack[w]))
  BY <1>0, <1>2, TailRange DEF PlacesInv
<1>4. c \notin Range(tasks) /\ \A v \in Thread : v # w => c \notin Range(stack[v])
  BY <1>0, <1>3, PlacesNow
<1>5. Range(tasks') = Range(tasks) \cup {c} /\ IsInjective(tasks')
  BY <1>0, <1>2, <1>3, <1>4, AppendRange, PlacesNow
<1>6. stack'[w] = Tail(stack[w]) /\ \A v \in Thread : v # w => stack'[v] = stack[v]
  BY <1>2
<1>. HIDE DEF c
<1>7. Range(stack[w]) = Range(stack'[w]) \cup {c} /\ IsInjective(stack'[w]) /\ c \notin Range(stack'[w])
  BY <1>3, <1>6
<1>8. \A v \in Thread : v # w => Range(stack'[v]) = Range(stack[v])
  BY <1>6
<1>9. Pending' = Pending
  <2>1. \A n : n \in Pending' <=> n \in Pending
    BY <1>5, <1>7, <1>8, InPending
  <2>. QED
    BY <2>1
<1>10. PlacesInv'
  <2>1. \A v \in Thread : IsInjective(stack'[v])
    BY <1>0, <1>6, <1>7, PlacesNow
  <2>2. \A v \in Thread : \A n \in Range(stack'[v]) : n \notin Range(tasks')
    BY <1>0, <1>4, <1>5, <1>7, <1>8, PlacesNow
  <2>3. \A u, v \in Thread : u # v => \A n \in Range(stack'[u]) : n \notin Range(stack'[v])
    BY <1>0, <1>7, <1>8, PlacesNow
  <2>. QED
    BY <1>5, <2>1, <2>2, <2>3, PlacesNext
<1>. QED
  BY <1>0, <1>2, <1>9, <1>10, MoveStep

(* A call outside the tree returns.                                         *)
LEMMA LeafTree ==
  ASSUME IInv, NEW w \in Thread, traverse(w), ~(Head(stack[w]) < NumNodes)
  PROVE  TreeInv'
<1>. DEFINE c == Head(stack[w])
<1>0. PlacesInv /\ ReachedInv
  BY DEF IInv
<1>1. /\ stack[w] \in Seq(Nat) /\ stack[w] # <<>>
      /\ stack' = [stack EXCEPT ![w] = Tail(stack[w])]
      /\ visited' = visited /\ client' = client /\ tasks' = tasks
      /\ stack \in [Thread -> Seq(Nat)]
  BY DEF traverse, pool, IInv, TypeOK
<1>2. /\ Range(stack[w]) = Range(Tail(stack[w])) \cup {c}
      /\ IsInjective(Tail(stack[w]))
  BY <1>0, <1>1, TailRange DEF PlacesInv
<1>3. stack'[w] = Tail(stack[w]) /\ \A v \in Thread : v # w => stack'[v] = stack[v]
  BY <1>1
<1>4. c \notin Node
  BY NumNodesAssumption DEF Node
<1>. HIDE DEF c
<1>5. Range(stack[w]) = Range(stack'[w]) \cup {c} /\ IsInjective(stack'[w])
  BY <1>2, <1>3
<1>6. \A v \in Thread : v # w => Range(stack'[v]) = Range(stack[v])
  BY <1>3
<1>7. \A n : /\ n \in Pending' => n \in Pending
             /\ n \in Pending => n \in Pending' \/ n = c
  BY <1>1, <1>5, <1>6, InPending
<1>8. \A n : Reached(n)' <=> Reached(n)
  BY <1>1 DEF Reached
<1>9. PlacesInv'
  <2>1. \A v \in Thread : IsInjective(stack'[v])
    BY <1>0, <1>3, <1>5, PlacesNow
  <2>2. \A v \in Thread : \A n \in Range(stack'[v]) : n \notin Range(tasks')
    BY <1>0, <1>1, <1>5, <1>6, PlacesNow
  <2>3. \A u, v \in Thread : u # v => \A n \in Range(stack'[u]) : n \notin Range(stack'[v])
    BY <1>0, <1>5, <1>6, PlacesNow
  <2>. QED
    BY <1>0, <1>1, <2>1, <2>2, <2>3, PlacesNow, PlacesNext
<1>10. ReachedInv'
  BY <1>0, <1>1, <1>4, <1>7, <1>8 DEF ReachedInv
<1>. QED
  BY <1>9, <1>10 DEF TreeInv

(* A call on a node visits it, and its children are called next.            *)
LEMMA NodeTree ==
  ASSUME IInv, NEW w \in Thread, traverse(w), Head(stack[w]) < NumNodes
  PROVE  TreeInv'
<1>. DEFINE c == Head(stack[w])
            a == 2 * c + 1
            b == 2 * c + 2
            rest == Tail(stack[w])
<1>0. PlacesInv /\ ReachedInv /\ visited \in [Node -> Nat]
  BY DEF IInv, TypeOK
<1>1. /\ stack[w] \in Seq(Nat) /\ stack[w] # <<>>
      /\ stack' = [stack EXCEPT ![w] = <<a, b>> \o rest]
      /\ visited' = [visited EXCEPT ![c] = visited[c] + 1]
      /\ client' = client /\ tasks' = tasks
      /\ stack \in [Thread -> Seq(Nat)]
  BY DEF traverse, pool, IInv, TypeOK
<1>2. /\ c \in Nat /\ c \in Range(stack[w]) /\ rest \in Seq(Nat)
      /\ Range(stack[w]) = Range(rest) \cup {c}
      /\ IsInjective(rest) /\ c \notin Range(rest)
  BY <1>0, <1>1, TailRange DEF PlacesInv
<1>3. c \in Node
  BY <1>2, NumNodesAssumption DEF Node
<1>4. c \in Pending /\ Reached(c) /\ visited[c] = 0
  <2>1. c \in Pending
    BY <1>2, InPending
  <2>. QED
    BY <1>0, <1>3, <2>1 DEF ReachedInv
<1>5. visited'[c] = 1 /\ \A n \in Node : n # c => visited'[n] = visited[n]
  BY <1>0, <1>1, <1>3, <1>4
<1>6. a \in Nat /\ b \in Nat /\ a # b /\ a # 0 /\ b # 0 /\ a # c /\ b # c
  BY <1>2
<1>7. \A n \in Nat : n # 0 => (Parent(n) = c <=> n = a \/ n = b)
  BY <1>2, Children
<1>8. stack'[w] = <<a, b>> \o rest /\ \A v \in Thread : v # w => stack'[v] = stack[v]
  BY <1>1
<1>. HIDE DEF c, a, b, rest
<1>9. a \notin Pending /\ b \notin Pending
  BY <1>0, <1>4, <1>6, <1>7 DEF ReachedInv, Reached
<1>10. a \in Node => visited[a] = 0
  BY <1>0, <1>4, <1>6, <1>7 DEF ReachedInv, Reached
<1>11. b \in Node => visited[b] = 0
  BY <1>0, <1>4, <1>6, <1>7 DEF ReachedInv, Reached
<1>12. \A n \in Nat : Reached(n)' <=> Reached(n) \/ n = a \/ n = b
  <2>. SUFFICES ASSUME NEW n \in Nat
                PROVE  Reached(n)' <=> Reached(n) \/ n = a \/ n = b
    OBVIOUS
  <2>1. CASE n = 0
    BY <1>1, <1>6, <2>1 DEF Reached
  <2>2. CASE n # 0 /\ Parent(n) = c
    BY <1>3, <1>5, <1>7, <2>2 DEF Reached
  <2>3. CASE n # 0 /\ Parent(n) # c
    BY <1>5, <1>7, <2>3 DEF Reached
  <2>. QED
    BY <2>1, <2>2, <2>3
<1>13. /\ \A v \in Thread : a \notin Range(stack[v]) /\ b \notin Range(stack[v])
       /\ a \notin Range(tasks) /\ b \notin Range(tasks)
  BY <1>9, InPending
<1>14. Range(stack'[w]) = Range(rest) \cup {a, b} /\ IsInjective(stack'[w])
  <2>1. a \notin Range(rest) /\ b \notin Range(rest)
    BY <1>2, <1>13
  <2>2. Range(<<a, b>> \o rest) = Range(rest) \cup {a, b} /\ IsInjective(<<a, b>> \o rest)
    BY <1>2, <1>6, <2>1, PushRange
  <2>. QED
    BY <1>8, <2>2
<1>15. \A v \in Thread : v # w => Range(stack'[v]) = Range(stack[v])
  BY <1>8
<1>16. PlacesInv'
  <2>1. \A v \in Thread : IsInjective(stack'[v])
    BY <1>0, <1>8, <1>14, PlacesNow
  <2>2. \A v \in Thread : \A n \in Range(stack'[v]) : n \notin Range(tasks')
    BY <1>0, <1>1, <1>2, <1>13, <1>14, <1>15, PlacesNow
  <2>3. \A u, v \in Thread : u # v => \A n \in Range(stack'[u]) : n \notin Range(stack'[v])
    BY <1>0, <1>2, <1>13, <1>14, <1>15, PlacesNow
  <2>. QED
    BY <1>0, <1>1, <2>1, <2>2, <2>3, PlacesNow, PlacesNext
<1>17. \A n : n \in Pending' <=> (n \in Pending /\ n # c) \/ n = a \/ n = b
  <2>1. c \notin Range(tasks) /\ \A v \in Thread : v # w => c \notin Range(stack[v])
    BY <1>0, <1>2, PlacesNow
  <2>2. \A n : n \in Range(stack'[w]) <=> (n \in Range(stack[w]) /\ n # c) \/ n = a \/ n = b
    BY <1>2, <1>14
  <2>. QED
    BY <1>1, <1>15, <2>1, <2>2, InPending
<1>18. Node \subseteq Nat /\ \A n \in Pending' : n \in Nat
  <2>1. \A n \in Range(tasks) : n \in Nat
    BY TaskIsNode DEF Range, IInv, TypeOK, PoolTypeOK
  <2>2. \A v \in Thread : \A n \in Range(stack[v]) : n \in Nat
    BY DEF Range, IInv, TypeOK
  <2>3. \A n \in Pending : n \in Nat
    BY <2>1, <2>2, InPending
  <2>. QED
    BY <1>6, <1>17, <2>3, NumNodesAssumption DEF Node
<1>19. ReachedInv'
  <2>1. \A n \in Node : visited'[n] \in {0, 1} /\ (visited'[n] = 1 => Reached(n)')
    BY <1>0, <1>4, <1>5, <1>12, <1>18 DEF ReachedInv
  <2>2. \A n \in Pending' : Reached(n)' /\ (n \in Node => visited'[n] = 0)
    BY <1>0, <1>5, <1>6, <1>10, <1>11, <1>12, <1>17, <1>18 DEF ReachedInv
  <2>3. \A n \in Node : Reached(n)' => visited'[n] = 1 \/ n \in Pending'
    BY <1>0, <1>5, <1>6, <1>12, <1>17, <1>18 DEF ReachedInv
  <2>. QED
    BY <2>1, <2>2, <2>3 DEF ReachedInv
<1>. QED
  BY <1>16, <1>19 DEF TreeInv

(* The calls and the nodes, step by step.                                   *)
LEMMA TreeStep ==
  ASSUME IInv, [Next]_vars
  PROVE  TreeInv'
<1>1. TreeInv
  BY DEF IInv, TreeInv
<1>2. ASSUME UNCHANGED <<tasks, stack, visited>>, client' = "enqueue" <=> client = "enqueue"
      PROVE  TreeInv'
  BY <1>1, <1>2, QuietStep
<1>. USE DEF traversal
<1>3. CASE NotifyRoot
  BY <1>2, <1>3 DEF NotifyRoot
<1>4. CASE (wait_and_stop \/ Destroy \/ WakeAll \/ SpuriousReturn) /\ UNCHANGED traversal
  BY <1>2, <1>4 DEF wait_and_stop, Destroy, WakeAll, SpuriousReturn
<1>5. CASE Join("returned") /\ UNCHANGED traversal
  <2>1. tasks = <<>>
    BY <1>5 DEF Join, IInv, StopInv
  <2>. QED
    BY <1>2, <1>5, <2>1 DEF Join, Construct
<1>6. ASSUME NEW w \in Thread, Sleep(w) \/ Exit(w) \/ SpuriousWakeup(w), UNCHANGED traversal
      PROVE  TreeInv'
  BY <1>2, <1>6 DEF Sleep, Exit, SpuriousWakeup
<1>7. ASSUME NEW w \in Thread, spawn(w) \/ NotifyChild(w) \/ EndTask(w)
      PROVE  TreeInv'
  BY <1>2, <1>7 DEF spawn, NotifyChild, EndTask, pool
<1>8. ASSUME NEW w \in Thread, FinishTask(w, TRUE), UNCHANGED traversal
      PROVE  TreeInv'
  <2>1. client' = "enqueue" <=> client = "enqueue"
    BY <1>8 DEF FinishTask, after_task_hook
  <2>. QED
    BY <1>2, <1>8, <2>1 DEF FinishTask
<1>9. CASE UNCHANGED vars
  BY <1>2, <1>9 DEF vars
<1>. QED
  BY <1>3, <1>4, <1>5, <1>6, <1>7, <1>8, <1>9, RootTree, BeginTree, ChildTree, LeafTree, NodeTree
     DEF Next, Main, Worker, Spurious, Ended

(* The invariant is inductive.                                              *)
LEMMA Invariance == Spec => []IInv
<1>1. IInv /\ [Next]_vars => IInv'
  BY TypeStep, ThreadStep, ActiveStep, StopStep, ServeStep, TreeStep DEF IInv, TreeInv
<1>. QED
  BY <1>1, InitIInv, PTL DEF Spec

-----------------------------------------------------------------------------
(* When nothing is pending, the first node that was not visited would be    *)
(* the root or have a parent that was.                                      *)
LEMMA NothingPending ==
  ASSUME ReachedInv, Pending = {}, client # "enqueue"
  PROVE  \A n \in Node : visited[n] = 1
<1>. DEFINE C == {n \in Node : visited[n] # 1}
<1>. SUFFICES ASSUME C # {} PROVE FALSE
  OBVIOUS
<1>1. C \subseteq Nat
  BY NumNodesAssumption DEF Node
<1>2. PICK n \in C : \A k \in C : n <= k
  <2>. HIDE DEF C
  <2>. QED BY <1>1, LeastNatural
<1>3. n # 0 /\ ~Reached(n)
  BY <1>2 DEF ReachedInv, Reached
<1>4. Parent(n) \in Node /\ Parent(n) < n
  <2>1. Parent(n) \in Nat /\ Parent(n) < n
    BY <1>1, <1>3, Children
  <2>. QED
    BY <1>1, <2>1, NumNodesAssumption DEF Node
<1>5. visited[Parent(n)] = 1
  BY <1>1, <1>2, <1>4, NumNodesAssumption DEF Node
<1>. QED
  BY <1>3, <1>4, <1>5 DEF Reached

(* Every variable keeps its type; the counter of active threads, which the  *)
(* hooks decrease, never becomes negative.                                  *)
THEOREM TypeCorrect == Spec => []TypeOK
<1>1. IInv => TypeOK
  BY DEF IInv
<1>. QED
  BY <1>1, Invariance, PTL

(* tree-traversal.cpp: when the pool stops itself every node has been       *)
(* visited once, for every tree and every number of threads, although spawn *)
(* looks at active_threads without the mutex.                               *)
THEOREM StopIsSafe == Spec => []StopMeansVisited
<1>1. IInv => StopMeansVisited
  <2>. SUFFICES ASSUME IInv, stop_pool PROVE \A n \in Node : visited[n] = 1
    BY DEF StopMeansVisited
  <2>. USE DEF IInv
  <2>1. tasks = <<>> /\ Busy = {} /\ client # "enqueue"
    BY DEF StopInv
  <2>2. \A w \in Thread : stack[w] = <<>>
    BY <2>1 DEF ThreadInv, Busy
  <2>3. Pending = {}
    BY <2>1, <2>2 DEF Pending, Range
  <2>. QED
    BY <2>1, <2>3, NothingPending
<1>. QED
  BY <1>1, Invariance, PTL

(* threadPool.hpp of example4: while a thread sleeps, every queued subtree  *)
(* has a thread of its own that is about to look, or a notification on its  *)
(* way, although notify_one follows the unlock and the spawner works on.    *)
THEOREM QueueIsServed == Spec => []QueueServed
<1>1. IInv => QueueServed
  BY DEF IInv
<1>. QED
  BY <1>1, Invariance, PTL
=============================================================================
