------------------------------ MODULE ThreadPool ------------------------------
(***************************************************************************)
(* The thread pool of the wavefront and of the tree traversal: worker      *)
(* threads that sleep on the condition variable cv, one client thread that *)
(* may sleep on cv_wait, and the fields they share under one mutex.        *)
(*                                                                         *)
(* A critical section is one action: every field is read and written with  *)
(* the mutex held, so no other thread sees the states inside a section.    *)
(* The notifications that the code issues after releasing the mutex are    *)
(* steps of their own.  A condition variable is the set of threads asleep  *)
(* on it; a thread that is notified, or wakes spuriously, re-evaluates its *)
(* predicate in its next critical section.                                 *)
(***************************************************************************)
EXTENDS Naturals, Sequences, FiniteSets

CONSTANTS
  Thread,   \* the threads a pool may ever create
  Task,     \* what can be put in the task queue
  NoTask    \* the empty std::function of a worker with no task

ASSUME ThreadAssumption == IsFiniteSet(Thread)
ASSUME NoTaskAssumption == NoTask \notin Task

VARIABLES
  tasks,           \* the queue of tasks
  stop_pool,
  active_threads,
  pc,              \* where each thread of the pool is in wait_loop
  task,            \* the local variable task of each worker
  client           \* where the thread that owns the pool is

pool == <<tasks, stop_pool, active_threads, pc, task, client>>

WorkerPC == {"none", "ready", "asleep", "run", "ran", "exited"}

Busy == {w \in Thread : pc[w] \in {"run", "ran"}}

-----------------------------------------------------------------------------
(* cv.notify_one() and cv.notify_all(): the values of pc they can lead to.  *)

Asleep(p) == {w \in Thread : p[w] = "asleep"}

(* Mutant: the notification is forgotten.                                   *)
MutNotifyOne(p) == {p}

NotifyOne(p) ==
  IF Asleep(p) = {} THEN {p}
                    ELSE {[p EXCEPT ![w] = "ready"] : w \in Asleep(p)}

(* Mutant: the notification of the destructor is forgotten.                 *)
MutNotifyAll(p) == p

NotifyAll(p) == [w \in Thread |-> IF p[w] = "asleep" THEN "ready" ELSE p[w]]

-----------------------------------------------------------------------------
(* The constructor: no task, nobody active, the threads ws in wait_loop.    *)

NoPool ==
  /\ tasks = <<>>
  /\ stop_pool = FALSE
  /\ active_threads = 0
  /\ pc = [w \in Thread |-> "none"]
  /\ task = [w \in Thread |-> NoTask]

Construct(ws) ==
  /\ tasks' = <<>>
  /\ stop_pool' = FALSE
  /\ active_threads' = 0
  /\ pc' = [w \in Thread |-> IF w \in ws THEN "ready" ELSE "none"]
  /\ task' = [w \in Thread |-> NoTask]

(* The critical section of enqueue: it throws when the pool is stopped.     *)
Enqueue(t) == tasks' = IF stop_pool THEN tasks ELSE Append(tasks, t)

-----------------------------------------------------------------------------
(* wait_loop.  The first critical section ends in one of three ways.        *)

Sleep(w) ==
  /\ pc[w] = "ready"
  /\ ~stop_pool
  /\ tasks = <<>>
  /\ pc' = [pc EXCEPT ![w] = "asleep"]
  /\ UNCHANGED <<tasks, stop_pool, active_threads, task, client>>

Exit(w) ==
  /\ pc[w] = "ready"
  /\ stop_pool
  /\ tasks = <<>>
  /\ pc' = [pc EXCEPT ![w] = "exited"]
  /\ UNCHANGED <<tasks, stop_pool, active_threads, task, client>>

(* Mutant: the hook does not count the thread.                              *)
mut_before_task_hook == UNCHANGED active_threads

before_task_hook == active_threads' = active_threads + 1

TakeTask(w) ==
  /\ pc[w] = "ready"
  /\ tasks # <<>>
  /\ task' = [task EXCEPT ![w] = Head(tasks)]
  /\ tasks' = Tail(tasks)
  /\ before_task_hook
  /\ pc' = [pc EXCEPT ![w] = "run"]
  /\ UNCHANGED <<stop_pool, client>>

SpuriousWakeup(w) ==
  /\ pc[w] = "asleep"
  /\ pc' = [pc EXCEPT ![w] = "ready"]
  /\ UNCHANGED <<tasks, stop_pool, active_threads, task, client>>

(* Mutant: a pool that stops itself as soon as it is idle.                  *)
mut_idle_after_task_hook(armed) ==
  /\ active_threads' = active_threads - 1
  /\ IF active_threads' = 0 /\ tasks = <<>>
     THEN /\ stop_pool' = TRUE
          /\ client' = IF client = "asleep" THEN "wait" ELSE client
     ELSE UNCHANGED <<stop_pool, client>>

(* Mutant: a pool that stops when its queue is empty.                       *)
mut_eager_after_task_hook(armed) ==
  /\ active_threads' = active_threads - 1
  /\ IF tasks = <<>> /\ armed
     THEN /\ stop_pool' = TRUE
          /\ client' = IF client = "asleep" THEN "wait" ELSE client
     ELSE UNCHANGED <<stop_pool, client>>

(* Mutant: the client is not notified.                                      *)
mut_silent_after_task_hook(armed) ==
  /\ active_threads' = active_threads - 1
  /\ stop_pool' = (stop_pool \/ (active_threads' = 0 /\ tasks = <<>> /\ armed))
  /\ UNCHANGED client

(* The second critical section, entered when the task has returned.  armed  *)
(* stands for the pool's extra condition for stopping itself.               *)
after_task_hook(armed) ==
  /\ active_threads' = active_threads - 1
  /\ IF active_threads' = 0 /\ tasks = <<>> /\ armed
     THEN /\ stop_pool' = TRUE
          /\ client' = IF client = "asleep" THEN "wait" ELSE client
     ELSE UNCHANGED <<stop_pool, client>>

FinishTask(w, armed) ==
  /\ pc[w] = "ran"
  /\ after_task_hook(armed)
  /\ pc' = [pc EXCEPT ![w] = "ready"]
  /\ task' = [task EXCEPT ![w] = NoTask]
  /\ UNCHANGED tasks

Loop(w) == Sleep(w) \/ Exit(w) \/ TakeTask(w)

-----------------------------------------------------------------------------
(* The client.  wait_and_stop sleeps on cv_wait until stop_pool is set.     *)

wait_and_stop ==
  /\ client = "wait"
  /\ client' = IF stop_pool THEN "destroy" ELSE "asleep"
  /\ UNCHANGED <<tasks, stop_pool, active_threads, pc, task>>

SpuriousReturn ==
  /\ client = "asleep"
  /\ client' = "wait"
  /\ UNCHANGED <<tasks, stop_pool, active_threads, pc, task>>

(* ~ThreadPool: stop under the lock, notify everybody, join.                *)
Destroy ==
  /\ client = "destroy"
  /\ stop_pool' = TRUE
  /\ client' = "notify_all"
  /\ UNCHANGED <<tasks, active_threads, pc, task>>

WakeAll ==
  /\ client = "notify_all"
  /\ pc' = NotifyAll(pc)
  /\ client' = "join"
  /\ UNCHANGED <<tasks, stop_pool, active_threads, task>>

Join(next) ==
  /\ client = "join"
  /\ \A w \in Thread : pc[w] \in {"none", "exited"}
  /\ Construct({})      \* the object is gone
  /\ client' = next

PoolTypeOK ==
  /\ tasks \in Seq(Task)
  /\ stop_pool \in BOOLEAN
  /\ active_threads \in Nat
  /\ pc \in [Thread -> WorkerPC]
  /\ task \in [Thread -> Task \cup {NoTask}]

(* The counter the hooks keep is the number of workers inside a task: the  *)
(* pool decides that it is idle from the counter alone.                     *)
ActiveCounted == active_threads = Cardinality(Busy)
=============================================================================
