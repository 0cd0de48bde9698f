----------------------------- MODULE TreeTraversal -----------------------------
(***************************************************************************)
(* tree-traversal.cpp on the pool of example4: main spawns the traversal   *)
(* of the root and waits for the pool to stop itself.  A traversal spawns  *)
(* the left subtree, into the queue when a thread seems idle and otherwise *)
(* as a plain call, and goes on with the right subtree.  The pool differs  *)
(* from ThreadPool's in having no start_pool: it stops when it is idle.    *)
(***************************************************************************)
EXTENDS ThreadPool

CONSTANT NumNodes      \* num_nodes

ASSUME NumNodesAssumption == NumNodes \in Nat \ {0}
ASSUME SomeThread == Thread # {}     \* numthreads is 8 by default
ASSUME TaskIsNode == Task = Nat

VARIABLES
  at,       \* where in traverse each thread is
  stack,    \* the calls of traverse a thread still has to make, next one first
  visited   \* how often each node has been visited

vars == <<tasks, stop_pool, active_threads, pc, task, client, at, stack, visited>>
traversal == <<at, stack, visited>>

Node == 0 .. NumNodes - 1
capacity == Cardinality(Thread)

Init ==
  /\ tasks = <<>>
  /\ stop_pool = FALSE
  /\ active_threads = 0
  /\ pc = [w \in Thread |-> "ready"]
  /\ task = [w \in Thread |-> NoTask]
  /\ client = "enqueue"      \* spawn found active_threads = 0 < capacity
  /\ at = [w \in Thread |-> "call"]
  /\ stack = [w \in Thread |-> <<>>]
  /\ visited = [n \in Node |-> 0]

-----------------------------------------------------------------------------
(* main                                                                     *)

EnqueueRoot ==
  /\ client = "enqueue"
  /\ Enqueue(0)
  /\ client' = "notify"
  /\ UNCHANGED <<stop_pool, active_threads, pc, task, traversal>>

NotifyRoot ==
  /\ client = "notify"
  /\ pc' \in NotifyOne(pc)
  /\ client' = "wait"
  /\ UNCHANGED <<tasks, stop_pool, active_threads, task, traversal>>

Main ==
  \/ EnqueueRoot
  \/ NotifyRoot
  \/ (wait_and_stop \/ Destroy \/ WakeAll \/ Join("returned")) /\ UNCHANGED traversal

-----------------------------------------------------------------------------
(* A worker inside its task.                                                *)

BeginTask(w) ==
  /\ TakeTask(w)
  /\ stack' = [stack EXCEPT ![w] = <<Head(tasks)>>]
  /\ at' = [at EXCEPT ![w] = "call"]
  /\ UNCHANGED visited

(* The next call of traverse: it returns at once outside the tree; else it  *)
(* works on the node and comes to the spawn of the left child.              *)
traverse(w) ==
  /\ pc[w] = "run" /\ at[w] = "call" /\ stack[w] # <<>>
  /\ LET node == Head(stack[w])
     IN  IF node < NumNodes
         THEN /\ visited' = [visited EXCEPT ![node] = @ + 1]
              /\ stack' = [stack EXCEPT ![w] = <<2 * node + 1, 2 * node + 2>> \o Tail(@)]
              /\ at' = [at EXCEPT ![w] = "spawn"]
         ELSE /\ stack' = [stack EXCEPT ![w] = Tail(@)]
              /\ UNCHANGED <<at, visited>>
  /\ UNCHANGED pool

(* spawn reads active_threads without the mutex.                            *)
spawn(w) ==
  /\ pc[w] = "run" /\ at[w] = "spawn"
  /\ at' = [at EXCEPT ![w] = IF active_threads < capacity THEN "enqueue" ELSE "call"]
  /\ UNCHANGED <<pool, stack, visited>>

(* The exception of enqueue ends the task: the packaged_task stores it in a *)
(* future that nobody reads.                                                *)
EnqueueChild(w) ==
  /\ pc[w] = "run" /\ at[w] = "enqueue"
  /\ Enqueue(Head(stack[w]))
  /\ stack' = [stack EXCEPT ![w] = IF stop_pool THEN <<>> ELSE Tail(@)]
  /\ at' = [at EXCEPT ![w] = IF stop_pool THEN "call" ELSE "notify"]
  /\ UNCHANGED <<stop_pool, active_threads, pc, task, client, visited>>

NotifyChild(w) ==
  /\ pc[w] = "run" /\ at[w] = "notify"
  /\ pc' \in NotifyOne(pc)
  /\ at' = [at EXCEPT ![w] = "call"]
  /\ UNCHANGED <<tasks, stop_pool, active_threads, task, client, stack, visited>>

EndTask(w) ==
  /\ pc[w] = "run" /\ at[w] = "call" /\ stack[w] = <<>>
  /\ pc' = [pc EXCEPT ![w] = "ran"]
  /\ UNCHANGED <<tasks, stop_pool, active_threads, task, client, traversal>>

Worker(w) ==
  \/ (Sleep(w) \/ Exit(w)) /\ UNCHANGED traversal
  \/ BeginTask(w)
  \/ traverse(w)
  \/ spawn(w)
  \/ EnqueueChild(w)
  \/ NotifyChild(w)
  \/ EndTask(w)
  \/ FinishTask(w, TRUE) /\ UNCHANGED traversal

Spurious ==
  /\ SpuriousReturn \/ \E w \in Thread : SpuriousWakeup(w)
  /\ UNCHANGED traversal

Ended ==
  /\ client = "returned"
  /\ UNCHANGED vars

Next == Main \/ (\E w \in Thread : Worker(w)) \/ Spurious \/ Ended

Spec == Init /\ [][Next]_vars

(* A thread that can take a step is scheduled again and again.              *)
FairSpec == Spec /\ WF_vars(Main) /\ \A w \in Thread : WF_vars(Worker(w))

-----------------------------------------------------------------------------
TypeOK ==
  /\ PoolTypeOK
  /\ client \in {"enqueue", "notify", "wait", "asleep", "destroy", "notify_all",
                 "join", "returned"}
  /\ at \in [Thread -> {"call", "spawn", "enqueue", "notify"}]
  /\ stack \in [Thread -> Seq(Nat)]
  /\ visited \in [Node -> Nat]

(* The pool stops itself only when the whole tree has been visited: the     *)
(* moment between taking a task and spawning its subtree must never look    *)
(* idle.                                                                    *)
StopMeansVisited == stop_pool => \A n \in Node : visited[n] = 1

(* main returns: the pool stops, the workers leave wait_loop and are joined *)
(* although every wake-up is by notify_one or by one notify_all.            *)
MainReturns == <>(client = "returned")

(* While a thread sleeps, every queued task has somebody of its own coming  *)
(* for it: a thread about to look at the queue, or a notification that is   *)
(* still to be sent.  A spawned subtree so never waits for its spawner,     *)
(* which goes on working, with a thread asleep that could take it.          *)
Looking == {w \in Thread : pc[w] = "ready"}
Notifying == {w \in Thread : at[w] = "notify"}
QueueServed ==
  Asleep(pc) # {} =>
    Len(tasks) <= Cardinality(Looking) + Cardinality(Notifying)
                    + (IF client = "notify" THEN 1 ELSE 0)
=============================================================================
