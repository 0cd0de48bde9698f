------------------------------- MODULE FuturesPool -------------------------------
(***************************************************************************)
(* threadPool.hpp of example3 and its two users: main enqueues squares and *)
(* keeps a future of each, in order (squareTP.cpp) or in preorder of a     *)
(* tree (preorder-tree.cpp), reads the futures, and destroys the pool.     *)
(* What a section locks and reads is one step; notify_one and notify_all   *)
(* are outside it, and steps of their own.                                 *)
(***************************************************************************)
EXTENDS Naturals, SequencesExt

CONSTANTS capacity, num_nodes      \* the tasks of squareTP.cpp as well

Worker == 1 .. capacity

VARIABLES
  preorder,         \* preorder-tree.cpp, not squareTP.cpp
  traverse,         \* the nodes main has still to submit, first one first
  tasks,            \* the queue: positions in futures
  stop_pool, active_threads,
  futures,          \* futures[k]: its argument, and how often its value was set
  at,               \* at[w]: "lock", "asleep", "run", "after" or "ended"
  task,             \* task[w]: the position in futures w is at
  submitter,        \* main: "enqueue", "notify", "get", "stop", "notify_all", "join", "end"
  printed           \* the results main has read

vars == <<preorder, traverse, tasks, stop_pool, active_threads, futures, at, task,
          submitter, printed>>

main == <<traverse, submitter, printed>>
workers == <<at, task, active_threads>>

Init ==
  /\ preorder \in BOOLEAN
  /\ traverse = IF preorder THEN <<0>> ELSE [x \in 1 .. num_nodes |-> x - 1]
  /\ tasks = <<>> /\ stop_pool = FALSE /\ active_threads = 0
  /\ futures = <<>> /\ printed = <<>>
  /\ at = [w \in Worker |-> "lock"] /\ task = [w \in Worker |-> 0]
  /\ submitter = "enqueue"

Go(w, from, to) == at[w] = from /\ at' = [at EXCEPT ![w] = to]

-----------------------------------------------------------------------------
(* cv.wait with its predicate: sleep unless there is something to do.       *)
Sleep(w) ==
  /\ ~stop_pool /\ tasks = <<>>
  /\ Go(w, "lock", "asleep")
  /\ UNCHANGED <<preorder, main, tasks, stop_pool, active_threads, futures, task>>

Return(w) ==
  /\ stop_pool /\ tasks = <<>>
  /\ Go(w, "lock", "ended")
  /\ UNCHANGED <<preorder, main, tasks, stop_pool, active_threads, futures, task>>

PopTask(w) ==
  /\ tasks # <<>>
  /\ Go(w, "lock", "run")
  /\ task' = [task EXCEPT ![w] = Head(tasks)]
  /\ tasks' = Tail(tasks)
  /\ active_threads' = active_threads + 1
  /\ UNCHANGED <<preorder, main, stop_pool, futures>>

Execute(w) ==
  /\ Go(w, "run", "after")
  /\ futures' = [futures EXCEPT ![task[w]].set = @ + 1]
  /\ UNCHANGED <<preorder, main, tasks, stop_pool, active_threads, task>>

after_task_hook(w) ==
  /\ Go(w, "after", "lock")
  /\ active_threads' = active_threads - 1
  /\ UNCHANGED <<preorder, main, tasks, stop_pool, futures, task>>

SpuriousWakeup(w) ==
  /\ Go(w, "asleep", "lock")
  /\ UNCHANGED <<preorder, main, tasks, stop_pool, active_threads, futures, task>>

-----------------------------------------------------------------------------
Children(node) ==
  LET child == 2 * node + 1
  IN  IF child + 1 < num_nodes THEN <<child, child + 1>>
      ELSE IF child < num_nodes THEN <<child>>
      ELSE <<>>

enqueue ==
  /\ submitter = "enqueue" /\ traverse # <<>> /\ ~stop_pool
  /\ futures' = Append(futures, [x |-> Head(traverse), set |-> 0])
  /\ tasks' = Append(tasks, Len(futures'))
  /\ traverse' = (IF preorder THEN Children(Head(traverse)) ELSE <<>>) \o Tail(traverse)
  /\ submitter' = "notify"
  /\ UNCHANGED <<preorder, stop_pool, workers, printed>>

notify_one ==
  /\ submitter = "notify" /\ submitter' = "enqueue"
  /\ IF \E w \in Worker : at[w] = "asleep"
     THEN \E w \in Worker : Go(w, "asleep", "lock")
     ELSE UNCHANGED at
  /\ UNCHANGED <<preorder, traverse, printed, tasks, stop_pool, active_threads, futures, task>>

Submitted ==
  /\ submitter = "enqueue" /\ traverse = <<>> /\ submitter' = "get"
  /\ UNCHANGED <<preorder, traverse, printed, tasks, stop_pool, workers, futures>>

get ==
  /\ submitter = "get"
  /\ LET k == Len(printed) + 1
     IN  IF k > Len(futures)
         THEN submitter' = "stop" /\ UNCHANGED printed
         ELSE /\ futures[k].set > 0
              /\ printed' = Append(printed, futures[k].x * futures[k].x)
              /\ UNCHANGED submitter
  /\ UNCHANGED <<preorder, traverse, tasks, stop_pool, workers, futures>>

(* ~ThreadPool                                                              *)
Stop ==
  /\ submitter = "stop" /\ submitter' = "notify_all"
  /\ stop_pool' = TRUE
  /\ UNCHANGED <<preorder, traverse, printed, tasks, workers, futures>>

notify_all ==
  /\ submitter = "notify_all" /\ submitter' = "join"
  /\ at' = [w \in Worker |-> IF at[w] = "asleep" THEN "lock" ELSE at[w]]
  /\ UNCHANGED <<preorder, traverse, printed, tasks, stop_pool, active_threads, futures, task>>

join ==
  /\ submitter = "join" /\ \A w \in Worker : at[w] = "ended"
  /\ submitter' = "end"
  /\ UNCHANGED <<preorder, traverse, printed, tasks, stop_pool, workers, futures>>

-----------------------------------------------------------------------------
wait_loop(w) == Sleep(w) \/ Return(w) \/ PopTask(w) \/ Execute(w) \/ after_task_hook(w)

Main == enqueue \/ notify_one \/ Submitted \/ get \/ Stop \/ notify_all \/ join

Done == submitter = "end"

Next ==
  \/ \E w \in Worker : wait_loop(w) \/ SpuriousWakeup(w)
  \/ Main
  \/ Done /\ UNCHANGED vars

-----------------------------------------------------------------------------
(* Every task runs once and its future is set once, main prints the squares *)
(* in the order it submitted them, and every node is submitted once.        *)
EveryTaskOnce ==
  /\ \A k \in DOMAIN futures : futures[k].set <= 1
  /\ printed = [k \in DOMAIN printed |-> futures[k].x * futures[k].x]
  /\ active_threads = Cardinality({w \in Worker : at[w] \in {"run", "after"}})
  /\ Done => {futures[k].x : k \in DOMAIN futures} = 0 .. num_nodes - 1
             /\ Len(printed) = num_nodes

(* While a worker sleeps, every queued task has a worker, or a notification *)
(* main is about to send, of its own: a push is never signalled to nobody.  *)
EveryTaskIsServed ==
  (\E w \in Worker : at[w] = "asleep") =>
    Len(tasks) <= Cardinality({w \in Worker : at[w] = "lock"})
                  + (IF submitter = "notify" THEN 1 ELSE 0)

(* The pool is stopped only when no task is left, queued or running.        *)
StopsEmpty == stop_pool => tasks = <<>> /\ \A k \in DOMAIN futures : futures[k].set = 1
=============================================================================
