------------------------------ MODULE WordCountFF ------------------------------
(***************************************************************************)
(* Word-Count-ff-line.cpp and Word-Count-ff-file.cpp: a FastFlow farm with *)
(* feedback.  The emitter deals a task per line that is not empty, or per  *)
(* file, to the workers in turn, broadcasts EOS, and stays alive to add up *)
(* the maps the workers send back.                                         *)
(***************************************************************************)
EXTENDS WordCount

CONSTANT nw       \* number of workers, one less than the argument

Worker == 0 .. nw - 1
EOS == <<>>       \* no task

VARIABLES
  grain,         \* "line" or "file": which of the two programs
  sent,          \* the tasks that are out
  closed,        \* the emitter has broadcast EOS
  emitter,       \* "running" or "ended"
  queue,         \* queue[w]: from the emitter to w
  back,          \* back[w]: from w to the emitter, records [id, local_UM, local_words]
  local,         \* local[w]: local_UM and local_words of w's task
  worker,        \* "idle", "busy" or "ended"
  UM, total_words,
  reduced        \* reduced[i]: how often task i was added to UM

emitterVars == <<sent, closed, emitter, UM, total_words, reduced>>
vars == <<grain, emitterVars, queue, back, local, worker>>

(* The loops of the emitter's first call.                                   *)
Task == Units(grain)
TokensOf(U) == Tokens(grain, U)

NoTask == [id |-> EOS, local_UM |-> Zero, local_words |-> 0]

Init ==
  /\ grain \in {"line", "file"}
  /\ sent = {} /\ closed = FALSE /\ emitter = "running"
  /\ queue = [w \in Worker |-> <<>>]
  /\ back = [w \in Worker |-> <<>>]
  /\ local = [w \in Worker |-> NoTask]
  /\ worker = [w \in Worker |-> "idle"]
  /\ UM = Zero /\ total_words = 0
  /\ reduced = [i \in Task |-> 0]

(* Emitter::svc, the first call: one task at a time, dealt round-robin.     *)
SendTask ==
  /\ \E u \in Task :
       /\ First(u, Task \ sent)
       /\ queue' = [queue EXCEPT ![Cardinality(sent) % nw] = Append(@, u)]
       /\ sent' = sent \cup {u}
  /\ UNCHANGED <<grain, closed, emitter, UM, total_words, reduced, back, local, worker>>

(* Mutant: EOS is broadcast before the last task.                           *)
MutAllSent == Cardinality(Task \ sent) <= 1

AllSent == sent = Task

Close ==
  /\ ~closed /\ AllSent
  /\ queue' = [w \in Worker |-> Append(queue[w], EOS)]
  /\ closed' = TRUE
  /\ UNCHANGED <<grain, sent, emitter, UM, total_words, reduced, back, local, worker>>

(* Mutant: the counts replace the ones of the other tasks.                  *)
MutReduction(task) == UM' = task.local_UM /\ total_words' = total_words + task.local_words

Reduction(task) ==
  /\ UM' = Add(UM, task.local_UM)
  /\ total_words' = total_words + task.local_words

(* Emitter::svc, a task comes back.                                         *)
Reduce(w) ==
  /\ emitter = "running" /\ closed
  /\ back[w] # <<>> /\ Head(back[w]).id # EOS
  /\ Reduction(Head(back[w]))
  /\ reduced' = [reduced EXCEPT ![Head(back[w]).id] = @ + 1]
  /\ back' = [back EXCEPT ![w] = Tail(@)]
  /\ UNCHANGED <<grain, sent, closed, emitter, queue, local, worker>>

(* The emitter ends when every worker has.                                  *)
EmitterEnds ==
  /\ emitter = "running" /\ closed
  /\ \A w \in Worker : back[w] = <<NoTask>>
  /\ emitter' = "ended"
  /\ back' = [w \in Worker |-> <<>>]
  /\ UNCHANGED <<grain, sent, closed, UM, total_words, reduced, queue, local, worker>>

(* Worker::svc: the task is counted, then sent back.                        *)
Counted(u) == [id |-> u,
               local_UM |-> tokenize_line(TokensOf({u})),
               local_words |-> Cardinality(TokensOf({u}))]

CountUnit(w) ==
  /\ worker[w] = "idle"
  /\ queue[w] # <<>> /\ Head(queue[w]) # EOS
  /\ local' = [local EXCEPT ![w] = Counted(Head(queue[w]))]
  /\ worker' = [worker EXCEPT ![w] = "busy"]
  /\ queue' = [queue EXCEPT ![w] = Tail(@)]
  /\ UNCHANGED <<grain, emitterVars, back>>

ReturnTask(w) ==
  /\ worker[w] = "busy"
  /\ back' = [back EXCEPT ![w] = Append(@, local[w])]
  /\ local' = [local EXCEPT ![w] = NoTask]
  /\ worker' = [worker EXCEPT ![w] = "idle"]
  /\ UNCHANGED <<grain, emitterVars, queue>>

WorkerEnds(w) ==
  /\ worker[w] = "idle"
  /\ queue[w] # <<>> /\ Head(queue[w]) = EOS
  /\ back' = [back EXCEPT ![w] = Append(@, NoTask)]
  /\ worker' = [worker EXCEPT ![w] = "ended"]
  /\ queue' = [queue EXCEPT ![w] = Tail(@)]
  /\ UNCHANGED <<grain, emitterVars, local>>

Emitter == SendTask \/ Close \/ (\E w \in Worker : Reduce(w)) \/ EmitterEnds
WorkerStep(w) == CountUnit(w) \/ ReturnTask(w) \/ WorkerEnds(w)
Ended == emitter = "ended" /\ UNCHANGED vars

Next == Emitter \/ (\E w \in Worker : WorkerStep(w)) \/ Ended

(* Every FastFlow node is a thread of its own.                              *)
Spec ==
  /\ Init /\ [][Next]_vars
  /\ WF_vars(Emitter) /\ \A w \in Worker : WF_vars(WorkerStep(w))

-----------------------------------------------------------------------------
TypeOK ==
  /\ grain \in {"line", "file"}
  /\ sent \subseteq Task /\ closed \in BOOLEAN
  /\ emitter \in {"running", "ended"}
  /\ \A w \in Worker : /\ queue[w] \in Seq(Task \cup {EOS})
                       /\ \A k \in DOMAIN back[w] : back[w][k].id \in Task \cup {EOS}
  /\ worker \in [Worker -> {"idle", "busy", "ended"}]
  /\ UM \in [Word -> Nat] /\ total_words \in Nat
  /\ reduced \in [Task -> 0 .. 1]

(* While the farm runs, UM and total_words hold exactly the tasks reduced   *)
(* so far, whatever the order in which they come back.                      *)
ReducedSoFar ==
  LET done == TokensOf({u \in Task : reduced[u] = 1})
  IN  UM = tokenize_line(done) /\ total_words = Cardinality(done)

(* The emitter does not end with a task still out, nor with a wrong sum.    *)
EndedExact == emitter = "ended" => UM = SequentialUM /\ total_words = SequentialTotal

(* The farm stops with the sequential result.                               *)
EndsExact == <>(emitter = "ended" /\ UM = SequentialUM /\ total_words = SequentialTotal)
=============================================================================
