------------------------------ MODULE WavefrontFF ------------------------------
(***************************************************************************)
(* Wf_ff.cpp: a FastFlow farm with feedback.  The emitter splits the       *)
(* current diagonal into at most one task per worker, counts the tasks     *)
(* sent and the tasks that came back, and goes on to the next diagonal     *)
(* when the counts meet.  The channels are FastFlow's: one queue to each   *)
(* worker and one back.                                                    *)
(***************************************************************************)
EXTENDS Wavefront, Sequences

CONSTANT Nw     \* number of workers

Worker == 0 .. Nw - 1
EOS == [eos |-> TRUE]

VARIABLES
  send, done, diag,   \* the emitter's counters
  emitter,            \* "start", "running" or "ended"
  input,              \* input[w]: the queue from the emitter to w
  feedback,           \* feedback[w]: the queue from w to the emitter
  elem,               \* elem[w]: the element w is about to compute
  worker              \* "idle", "busy" or "ended"

vars == <<M, send, done, diag, emitter, input, feedback, elem, worker>>

(* The schedule loop: task i of a diagonal of d elements.                   *)
Min2(a, b) == IF a < b THEN a ELSE b
From(i, d) == i * (d \div Nw) + Min2(i, d % Nw)
To(i, d) == From(i, d) + (d \div Nw) + (IF i < d % Nw THEN 1 ELSE 0)
Scheduled(d) == {i \in Worker : From(i, d) # To(i, d)}

FFInit ==
  /\ Init
  /\ send = 0 /\ done = 0 /\ diag = 0
  /\ emitter = "start"
  /\ input = [w \in Worker |-> <<>>]
  /\ feedback = [w \in Worker |-> <<>>]
  /\ elem = [w \in Worker |-> 0]
  /\ worker = [w \in Worker |-> "idle"]

(* Mutant: the diagonal ends one task early.                                *)
MutEarlyDone(d) == d + 1 >= send

(* Every task of the diagonal has come back.                                *)
DiagonalDone(d) == send = d

(* The second half of Emitter::svc, d being the tasks done.                 *)
Schedule(d) ==
  IF ~DiagonalDone(d)
  THEN done' = d /\ UNCHANGED <<send, diag, input>>
  ELSE /\ diag' = diag + 1
       /\ done' = 0
       /\ IF diag' < N
          THEN LET size == N - diag' IN
               /\ send' = Cardinality(Scheduled(size))
               /\ input' = [w \in Worker |->
                    IF w \in Scheduled(size)
                    THEN Append(input[w], [diagonal |-> diag',
                                           from_elem |-> From(w, size),
                                           to_elem |-> To(w, size)])
                    ELSE input[w]]
          ELSE /\ send' = 0
               /\ input' = [w \in Worker |-> Append(input[w], EOS)]

(* The call FastFlow makes with nullptr before any feedback.                *)
FirstCall ==
  /\ emitter = "start"
  /\ Schedule(done)
  /\ emitter' = "running"
  /\ UNCHANGED <<M, feedback, elem, worker>>

(* A task comes back; workers always return it completed.                   *)
TaskDone(w) ==
  /\ emitter = "running"
  /\ feedback[w] # <<>> /\ Head(feedback[w]) # EOS
  /\ Schedule(done + 1)
  /\ feedback' = [feedback EXCEPT ![w] = Tail(@)]
  /\ UNCHANGED <<M, emitter, elem, worker>>

(* The emitter ends when every worker has sent EOS back.                    *)
EmitterEnds ==
  /\ emitter = "running"
  /\ \A w \in Worker : feedback[w] = <<EOS>>
  /\ emitter' = "ended"
  /\ feedback' = [w \in Worker |-> <<>>]
  /\ UNCHANGED <<M, send, done, diag, input, elem, worker>>

(* Worker::svc begins, computes one element at a time, and returns the task *)
BeginTask(w) ==
  /\ worker[w] = "idle"
  /\ input[w] # <<>> /\ Head(input[w]) # EOS
  /\ elem' = [elem EXCEPT ![w] = Head(input[w]).from_elem]
  /\ worker' = [worker EXCEPT ![w] = "busy"]
  /\ UNCHANGED <<M, send, done, diag, emitter, input, feedback>>

ComputeElem(w) ==
  /\ worker[w] = "busy"
  /\ elem[w] < Head(input[w]).to_elem
  /\ LET c == <<Head(input[w]).diagonal, elem[w]>>
     IN  M' = [M EXCEPT ![c] = DotProduct(M, c)]
  /\ elem' = [elem EXCEPT ![w] = @ + 1]
  /\ UNCHANGED <<send, done, diag, emitter, input, feedback, worker>>

ReturnTask(w) ==
  /\ worker[w] = "busy"
  /\ elem[w] >= Head(input[w]).to_elem
  /\ feedback' = [feedback EXCEPT ![w] = Append(@, Head(input[w]))]
  /\ input' = [input EXCEPT ![w] = Tail(@)]
  /\ worker' = [worker EXCEPT ![w] = "idle"]
  /\ UNCHANGED <<M, send, done, diag, emitter, elem>>

WorkerEnds(w) ==
  /\ worker[w] = "idle"
  /\ input[w] # <<>> /\ Head(input[w]) = EOS
  /\ feedback' = [feedback EXCEPT ![w] = Append(@, EOS)]
  /\ input' = [input EXCEPT ![w] = Tail(@)]
  /\ worker' = [worker EXCEPT ![w] = "ended"]
  /\ UNCHANGED <<M, send, done, diag, emitter, elem>>

Emitter == FirstCall \/ (\E w \in Worker : TaskDone(w)) \/ EmitterEnds
WorkerStep(w) == BeginTask(w) \/ ComputeElem(w) \/ ReturnTask(w) \/ WorkerEnds(w)
Over == emitter = "ended" /\ \A w \in Worker : worker[w] = "ended"
Ended == emitter = "ended" /\ UNCHANGED vars

FFNext == Emitter \/ (\E w \in Worker : WorkerStep(w)) \/ Ended

-----------------------------------------------------------------------------
Tasks(q) == {i \in DOMAIN q : q[i] # EOS}

(* The emitter's counters say exactly how many tasks are out, and all of    *)
(* them belong to the current diagonal.                                     *)
CountsInFlight ==
  LET out(w) == Cardinality(Tasks(input[w])) + Cardinality(Tasks(feedback[w]))
      Sum[S \in SUBSET Worker] ==
        IF S = {} THEN 0 ELSE LET w == CHOOSE x \in S : TRUE IN out(w) + Sum[S \ {w}]
  IN  /\ send - done = Sum[Worker]
      /\ \A w \in Worker : \A i \in Tasks(input[w]) : input[w][i].diagonal = diag

(* EOS is sent only behind the last task: nothing is left to compute when a *)
(* worker sees it.                                                          *)
EOSMeansComplete ==
  (\E w \in Worker : EOS \in {input[w][i] : i \in DOMAIN input[w]} \/ worker[w] = "ended")
    => \A c \in Cell : M[c] = "ok"

=============================================================================
