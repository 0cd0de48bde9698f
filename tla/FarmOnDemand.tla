----------------------------- MODULE FarmOnDemand ------------------------------
(***************************************************************************)
(* example-farm-ondemand.cpp: a source, a farm whose emitter gives a       *)
(* worker a new task only after the worker's ready flag, and a sink.  The  *)
(* emitter buffers the tasks nobody is ready for and decides when the farm *)
(* ends.  The nodes are threads; the channels are FastFlow's queues.       *)
(***************************************************************************)
EXTENDS Naturals, FiniteSets, SequencesExt

CONSTANTS
  length,      \* length of the stream
  nworkers     \* number of workers

Worker == 0 .. nworkers - 1
Task == 1 .. length
EOS == 0              \* FastFlow's end-of-stream, no task's number
Flag == 1             \* what a worker sends back: only the channel matters

VARIABLES
  sent,          \* the source has sent the tasks 1 .. sent
  input,         \* queue from the source to the emitter
  ready,         \* the workers whose ready flag is up
  nready,        \* how many flags the emitter believes are up
  last,          \* last worker selected
  data,          \* the emitter's buffer
  eos_received,
  emitter,       \* "running" or "ended"
  task,          \* task[w]: queue from the emitter to w
  back,          \* back[w]: queue from w to the emitter
  result,        \* result[w]: queue from w to the sink
  worker,        \* "idle", "busy", "notified" or "ended"
  sum,           \* sum[t]: how often the result of t was added to sum
  sinkEOS,       \* the workers the sink has EOS from
  sink           \* "running" or "ended"

emitterVars == <<ready, nready, last, data, eos_received>>
sinkVars == <<sum, sinkEOS, sink>>
vars == <<sent, input, emitterVars, emitter, task, back, result, worker, sinkVars>>

Init ==
  /\ sent = 0
  /\ input = <<>>
  /\ ready = Worker /\ nready = nworkers /\ last = nworkers
  /\ data = <<>>
  /\ eos_received = FALSE
  /\ emitter = "running"
  /\ task = [w \in Worker |-> <<>>]
  /\ back = [w \in Worker |-> <<>>]
  /\ result = [w \in Worker |-> <<>>]
  /\ worker = [w \in Worker |-> "idle"]
  /\ sum = [t \in Task |-> 0]
  /\ sinkEOS = {} /\ sink = "running"

Put(queue, w, m) == [queue EXCEPT ![w] = Append(@, m)]
Get(queue, w) == [queue EXCEPT ![w] = Tail(@)]
Broadcast(queue) == [w \in Worker |-> Append(queue[w], EOS)]

SourceSend ==
  /\ sent <= length
  /\ sent' = sent + 1
  /\ input' = Append(input, IF sent < length THEN sent + 1 ELSE EOS)
  /\ UNCHANGED <<emitterVars, emitter, task, back, result, worker, sinkVars>>

(* The first worker that is ready after the last one selected, cyclically.  *)
selectReadyWorker ==
  LET rank(w) == IF w > last THEN w ELSE w + nworkers + 1
  IN  CHOOSE w \in ready : \A v \in ready : rank(w) <= rank(v)

(* Mutant: the last ready worker is kept back.                              *)
MutSomeoneReady == nready > 1

SomeoneReady == nready > 0

(* Emitter::svc, a task of the source.                                      *)
EmitterTask ==
  /\ emitter = "running"
  /\ input # <<>> /\ Head(input) # EOS
  /\ IF SomeoneReady
     THEN LET victim == selectReadyWorker IN
          /\ task' = Put(task, victim, Head(input))
          /\ ready' = ready \ {victim}
          /\ last' = victim
          /\ nready' = nready - 1
          /\ UNCHANGED data
     ELSE data' = Append(data, Head(input)) /\ UNCHANGED <<task, ready, last, nready>>
  /\ input' = Tail(input)
  /\ UNCHANGED <<sent, eos_received, emitter, back, result, worker, sinkVars>>

(* Mutants: the last ready flag is not waited for; it is not enough.        *)
MutAllBack(n) == n + 1 >= nworkers
MutNeverAllBack(n) == n > nworkers

AllBack(n) == n = nworkers

(* Mutant: a buffered task is sent, and stays in the buffer.                *)
MutPopBack(q) == q

PopBack(q) == Front(q)

(* Emitter::svc, the ready flag of worker w: the newest buffered task, or   *)
(* the flag goes up and the farm may end.                                   *)
EmitterReady(w) ==
  /\ emitter = "running"
  /\ back[w] # <<>> /\ Head(back[w]) = Flag
  /\ back' = Get(back, w)
  /\ IF data # <<>>
     THEN /\ task' = Put(task, w, Last(data))
          /\ data' = PopBack(data)
          /\ UNCHANGED <<ready, nready, emitter>>
     ELSE /\ ready' = ready \cup {w}
          /\ nready' = nready + 1
          /\ IF eos_received /\ AllBack(nready')
             THEN emitter' = "ended" /\ task' = Broadcast(task)
             ELSE UNCHANGED <<emitter, task>>
          /\ UNCHANGED data
  /\ UNCHANGED <<sent, input, last, eos_received, result, worker, sinkVars>>

(* Emitter::eosnotify, the end of the source.                               *)
EmitterEOS ==
  /\ emitter = "running"
  /\ input # <<>> /\ Head(input) = EOS
  /\ input' = Tail(input)
  /\ eos_received' = TRUE
  /\ task' = IF AllBack(nready) /\ data = <<>> THEN Broadcast(task) ELSE task
  /\ UNCHANGED <<sent, ready, nready, last, data, emitter, back, result, worker, sinkVars>>

(* The emitter ends on its own when every input channel has ended.          *)
EmitterEnds ==
  /\ emitter = "running" /\ eos_received
  /\ \A w \in Worker : back[w] = <<EOS>>
  /\ emitter' = "ended"
  /\ back' = [w \in Worker |-> <<>>]
  /\ UNCHANGED <<sent, input, emitterVars, task, result, worker, sinkVars>>

(* dotProd::svc: the product, then the ready flag, then the result.         *)
Compute(w) ==
  /\ worker[w] = "idle"
  /\ task[w] # <<>> /\ Head(task[w]) # EOS
  /\ worker' = [worker EXCEPT ![w] = "busy"]
  /\ UNCHANGED <<sent, input, emitterVars, emitter, task, back, result, sinkVars>>

SendFlag(w) ==
  /\ worker[w] = "busy"
  /\ back' = Put(back, w, Flag)
  /\ worker' = [worker EXCEPT ![w] = "notified"]
  /\ UNCHANGED <<sent, input, emitterVars, emitter, task, result, sinkVars>>

SendResult(w) ==
  /\ worker[w] = "notified"
  /\ result' = Put(result, w, Head(task[w]))
  /\ task' = Get(task, w)
  /\ worker' = [worker EXCEPT ![w] = "idle"]
  /\ UNCHANGED <<sent, input, emitterVars, emitter, back, sinkVars>>

WorkerEnds(w) ==
  /\ worker[w] = "idle"
  /\ task[w] # <<>> /\ Head(task[w]) = EOS
  /\ task' = Get(task, w)
  /\ back' = Put(back, w, EOS)
  /\ result' = Put(result, w, EOS)
  /\ worker' = [worker EXCEPT ![w] = "ended"]
  /\ UNCHANGED <<sent, input, emitterVars, emitter, sinkVars>>

(* Sink::svc and svc_end.                                                   *)
SinkReceive(w) ==
  /\ sink = "running"
  /\ result[w] # <<>>
  /\ result' = Get(result, w)
  /\ IF Head(result[w]) = EOS
     THEN sinkEOS' = sinkEOS \cup {w} /\ UNCHANGED sum
     ELSE sum' = [sum EXCEPT ![Head(result[w])] = @ + 1] /\ UNCHANGED sinkEOS
  /\ sink' = IF sinkEOS' = Worker THEN "ended" ELSE sink
  /\ UNCHANGED <<sent, input, emitterVars, emitter, task, back, worker>>

Emitter == EmitterTask \/ (\E w \in Worker : EmitterReady(w)) \/ EmitterEOS \/ EmitterEnds
dotProd(w) == Compute(w) \/ SendFlag(w) \/ SendResult(w) \/ WorkerEnds(w)
Sink == \E w \in Worker : SinkReceive(w)
Ended == sink = "ended" /\ emitter = "ended" /\ UNCHANGED vars

Next == SourceSend \/ Emitter \/ (\E w \in Worker : dotProd(w)) \/ Sink \/ Ended

-----------------------------------------------------------------------------
Elements(q) == {q[k] : k \in DOMAIN q}

Unfinished(w) == Cardinality({k \in DOMAIN task[w] : task[w][k] # EOS})
Flags(w) == Cardinality({k \in DOMAIN back[w] : back[w][k] # EOS})

(* The real on-demand policy: a worker's flag is up exactly when it has no  *)
(* task to do and no flag on its way, so no task ever waits behind another  *)
(* in a worker's queue, but for the one whose result is being sent.         *)
OnDemand ==
  /\ nready = Cardinality(ready)
  /\ \A w \in Worker :
       LET out == Unfinished(w) + Flags(w) - (IF worker[w] = "notified" THEN 1 ELSE 0)
       IN  out = IF w \in ready THEN 0 ELSE 1

(* No task is buffered while a worker could take it.                        *)
BufferOnlyWhenBusy == data # <<>> => nready = 0

(* Workers are told to end, by the emitter's svc or by its eosnotify, only  *)
(* when no task is left anywhere before them.                               *)
EOSBehindLastTask ==
  (\E w \in Worker : EOS \in Elements(task[w]) \/ worker[w] = "ended")
    => /\ sent > length /\ input = <<>> /\ data = <<>>
       /\ ready = Worker
=============================================================================
