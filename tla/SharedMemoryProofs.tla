--------------------------- MODULE SharedMemoryProofs ---------------------------
(***************************************************************************)
(* The programs of SharedMemory: what the threads share out is shared out  *)
(* exactly once, nobody sleeps on work, the stop leaves nothing behind, and *)
(* the asserts about memory orders hold in every execution allowed.         *)
(* Each program has an invariant of its own; a step of one leaves the      *)
(* variables of the others alone.                                          *)
(***************************************************************************)
EXTENDS SharedMemory, FiniteLemmas

(* prod-cons.cpp: the types of what the threads share.                      *)
QueueType ==
  /\ stop \in BOOLEAN
  /\ pushed \in Nat /\ popped \in Nat /\ pushedAtStop \in Nat
  /\ producer \in [Producer -> {"test", "push", "notify", "exits"}]
  /\ consumer \in [Consumer -> {"test", "empty", "lock", "asleep", "holding", "exits"}]
  /\ seen \in [Consumer -> [end : {"none", "front", "back"}, value : Nat]]

(* The deque and the stop: what a consumer has read of the deque after the  *)
(* stop is a bound on what has been consumed, or is not less than what was  *)
(* pushed before the stop.                                                  *)
StopInv ==
  /\ popped <= pushed
  /\ stop => pushedAtStop <= pushed
  /\ \A c \in Consumer :
       /\ consumer[c] = "empty" => stop
       /\ consumer[c] = "exits" => stop /\ pushedAtStop <= popped
       /\ seen[c].end # "none" => consumer[c] = "empty"
       /\ seen[c].end = "front" => seen[c].value <= popped
       /\ seen[c].end = "back" => pushedAtStop <= seen[c].value
       /\ seen[c].end = "none" => seen[c].value = 0

QueueInv == QueueType /\ StopInv /\ Queue!NobodySleepsOnWork

-----------------------------------------------------------------------------
(* notify_one finds a sleeper, or nobody sleeps.                            *)
LEMMA QueueNotified ==
  ASSUME QueueType, consumer' \in Queue!Notified
  PROVE  \/ Queue!Asleep = {} /\ consumer' = consumer
         \/ \E c \in Consumer : /\ consumer[c] = "asleep"
                                /\ consumer' = [consumer EXCEPT ![c] = "lock"]
BY DEF Queue!Notified, Queue!Asleep

(* Every action of prod-cons.cpp keeps the types.                           *)
LEMMA QueueTypeStep ==
  ASSUME QueueType, Queue!Next
  PROVE  QueueType'
<1>. USE DEF QueueType, Queue!mainVars, Queue!queueVars
<1>1. ASSUME NEW p \in Producer, Queue!Produce(p)
      PROVE  QueueType'
  <2>1. CASE Queue!TestProducer(p)
    BY <2>1 DEF Queue!TestProducer
  <2>2. CASE Queue!Push(p)
    BY <2>2 DEF Queue!Push
  <2>3. CASE Queue!notify_one(p)
    <3>1. consumer' \in [Consumer -> {"test", "empty", "lock", "asleep", "holding", "exits"}]
      BY <2>3, QueueNotified DEF Queue!notify_one
    <3>. QED
      BY <2>3, <3>1 DEF Queue!notify_one
  <2>. QED
    BY <1>1, <2>1, <2>2, <2>3 DEF Queue!Produce
<1>2. ASSUME NEW c \in Consumer, Queue!Consume(c) \/ Queue!SpuriousWakeup(c)
      PROVE  QueueType'
  <2>1. CASE Queue!TestConsumer(c)
    BY <2>1 DEF Queue!TestConsumer, Queue!AfterStop
  <2>2. CASE Queue!ReadFirstEnd(c)
    BY <2>2 DEF Queue!ReadFirstEnd
  <2>3. CASE Queue!ReadOtherEnd(c)
    BY <2>3 DEF Queue!ReadOtherEnd, Queue!Nothing
  <2>4. CASE Queue!Pop(c) \/ Queue!Wait(c) \/ Queue!SpuriousWakeup(c)
    BY <2>4 DEF Queue!Pop, Queue!Wait, Queue!SpuriousWakeup
  <2>5. CASE Queue!Hold(c) \/ Queue!Release(c)
    BY <2>5 DEF Queue!Hold, Queue!Release
  <2>. QED
    BY <1>2, <2>1, <2>2, <2>3, <2>4, <2>5 DEF Queue!Consume
<1>3. CASE Queue!Main
  BY <1>3 DEF Queue!Main, Queue!request_stop, Queue!NotifyAll
<1>4. CASE UNCHANGED Queue!vars
  BY <1>4 DEF Queue!vars
<1>. QED
  BY <1>1, <1>2, <1>3, <1>4 DEF Queue!Next

(* Every action keeps the bounds: in particular a consumer that leaves has  *)
(* read one end of the deque before and the other end after everything it   *)
(* compares has been consumed.                                              *)
LEMMA QueueStopStep ==
  ASSUME QueueType, StopInv, Queue!Next
  PROVE  StopInv'
<1>. USE DEF QueueType, StopInv, Queue!mainVars, Queue!queueVars
<1>1. ASSUME NEW p \in Producer, Queue!Produce(p)
      PROVE  StopInv'
  <2>1. CASE Queue!TestProducer(p)
    BY <2>1 DEF Queue!TestProducer
  <2>2. CASE Queue!Push(p)
    BY <2>2 DEF Queue!Push
  <2>3. CASE Queue!notify_one(p)
    <3>1. \A c \in Consumer : /\ consumer'[c] = "empty" <=> consumer[c] = "empty"
                              /\ consumer'[c] = "exits" <=> consumer[c] = "exits"
      BY <2>3, QueueNotified DEF Queue!notify_one
    <3>. QED
      BY <2>3, <3>1 DEF Queue!notify_one
  <2>. QED
    BY <1>1, <2>1, <2>2, <2>3 DEF Queue!Produce
<1>2. ASSUME NEW c \in Consumer, Queue!Consume(c) \/ Queue!SpuriousWakeup(c)
      PROVE  StopInv'
  <2>1. CASE Queue!TestConsumer(c)
    BY <2>1 DEF Queue!TestConsumer, Queue!AfterStop
  <2>2. CASE Queue!ReadFirstEnd(c)
    BY <2>2 DEF Queue!ReadFirstEnd
  <2>3. CASE Queue!ReadOtherEnd(c)
    <3>1. seen[c].end # "none"
      BY <2>3 DEF Queue!ReadOtherEnd, Queue!Nothing
    <3>2. stop /\ (consumer'[c] = "exits" => pushedAtStop <= popped)
      BY <2>3, <3>1 DEF Queue!ReadOtherEnd
    <3>3. /\ seen'[c] = [end |-> "none", value |-> 0] /\ consumer'[c] \in {"exits", "lock"}
          /\ \A d \in Consumer : d # c => seen'[d] = seen[d] /\ consumer'[d] = consumer[d]
          /\ UNCHANGED <<stop, pushed, popped, pushedAtStop>>
      BY <2>3 DEF Queue!ReadOtherEnd, Queue!Nothing
    <3>. QED
      BY <3>2, <3>3
  <2>4. CASE Queue!Pop(c) \/ Queue!Wait(c) \/ Queue!SpuriousWakeup(c)
    BY <2>4 DEF Queue!Pop, Queue!Wait, Queue!SpuriousWakeup
  <2>5. CASE Queue!Hold(c) \/ Queue!Release(c)
    BY <2>5 DEF Queue!Hold, Queue!Release
  <2>. QED
    BY <1>2, <2>1, <2>2, <2>3, <2>4, <2>5 DEF Queue!Consume
<1>3. CASE Queue!Main
  <2>1. CASE Queue!request_stop
    BY <2>1 DEF Queue!request_stop
  <2>2. CASE Queue!NotifyAll
    <3>1. \A c \in Consumer : /\ consumer'[c] = "empty" <=> consumer[c] = "empty"
                              /\ consumer'[c] = "exits" <=> consumer[c] = "exits"
      BY <2>2 DEF Queue!NotifyAll, Queue!Asleep
    <3>. QED
      BY <2>2, <3>1 DEF Queue!NotifyAll
  <2>. QED
    BY <1>3, <2>1, <2>2 DEF Queue!Main
<1>4. CASE UNCHANGED Queue!vars
  BY <1>4 DEF Queue!vars
<1>. QED
  BY <1>1, <1>2, <1>3, <1>4 DEF Queue!Next

(* The instances count as this module does.                                 *)
LEMMA QueueCardinality == \A S : Queue!Cardinality(S) = Cardinality(S)
BY DEF Queue!Cardinality, Cardinality

(* The producers about to notify, and the consumers awake.                  *)
Notifying == {p \in Producer : producer[p] = "notify"}
Awake == Consumer \ Queue!Asleep

(* Both sets can be counted.                                                *)
LEMMA QueueCounts ==
  /\ IsFiniteSet(Notifying) /\ IsFiniteSet(Awake)
  /\ Cardinality(Notifying) \in Nat /\ Cardinality(Awake) \in Nat
<1>1. IsFiniteSet(Notifying) /\ IsFiniteSet(Awake)
  BY FS_Subset, FiniteAssumption DEF Notifying, Awake
<1>. QED
  BY <1>1, FS_CardinalityType

(* Every action keeps as many notifications to come and consumers awake as  *)
(* there are items: a push adds a notification, a notification wakes a      *)
(* sleeper, and a consumer falls asleep on an empty deque only.             *)
LEMMA QueueWakeStep ==
  ASSUME QueueType, Queue!NobodySleepsOnWork, Queue!Next
  PROVE  Queue!NobodySleepsOnWork'
<1>. DEFINE served == pushed - popped <= Cardinality(Notifying) + Cardinality(Awake)
<1>1. Queue!NobodySleepsOnWork <=> (~stop /\ Queue!Asleep # {} => served)
  BY QueueCardinality DEF Queue!NobodySleepsOnWork, Notifying, Awake
<1>2. Queue!NobodySleepsOnWork' <=> (~stop' /\ Queue!Asleep' # {} => served')
  BY QueueCardinality DEF Queue!NobodySleepsOnWork, Notifying, Awake
<1>3. /\ IsFiniteSet(Notifying) /\ IsFiniteSet(Awake)
      /\ Cardinality(Notifying) \in Nat /\ Cardinality(Awake) \in Nat
  BY QueueCounts
<1>4. pushed \in Nat /\ popped \in Nat
  BY DEF QueueType
<1>. HIDE DEF served
<1>5. ASSUME ~stop', Queue!Asleep' # {},
             Queue!Asleep' = Queue!Asleep, Notifying' = Notifying,
             stop' = stop, pushed' = pushed, popped' = popped
      PROVE  served'
  BY <1>1, <1>5 DEF served, Awake
<1>. SUFFICES ASSUME ~stop', Queue!Asleep' # {} PROVE served'
  BY <1>2
<1>. USE DEF QueueType, Queue!mainVars, Queue!queueVars
<1>6. ASSUME NEW p \in Producer, Queue!Produce(p)
      PROVE  served'
  <2>1. CASE Queue!TestProducer(p)
    <3>1. Notifying' = Notifying /\ Queue!Asleep' = Queue!Asleep
      BY <2>1 DEF Queue!TestProducer, Notifying, Queue!Asleep
    <3>. QED
      BY <1>5, <2>1, <3>1 DEF Queue!TestProducer
  <2>2. CASE Queue!Push(p)
    <3>1. Notifying' = Notifying \cup {p} /\ p \notin Notifying /\ Queue!Asleep' = Queue!Asleep
      BY <2>2 DEF Queue!Push, Notifying, Queue!Asleep
    <3>2. Cardinality(Notifying') = Cardinality(Notifying) + 1 /\ Awake' = Awake
      BY <1>3, <3>1, FS_AddElement DEF Awake
    <3>3. stop' = stop /\ pushed' = pushed + 1 /\ popped' = popped
      BY <2>2 DEF Queue!Push
    <3>4. served
      BY <1>1, <3>1, <3>3
    <3>. QED
      BY <1>3, <1>4, <3>2, <3>3, <3>4 DEF served
  <2>3. CASE Queue!notify_one(p)
    <3>1. Notifying' = Notifying \ {p} /\ p \in Notifying
      BY <2>3 DEF Queue!notify_one, Notifying
    <3>2. stop' = stop /\ pushed' = pushed /\ popped' = popped
      BY <2>3 DEF Queue!notify_one
    <3>3. PICK c \in Consumer :
            consumer[c] = "asleep" /\ consumer' = [consumer EXCEPT ![c] = "lock"]
      <4>1. Queue!Asleep = {} /\ consumer' = consumer => Queue!Asleep' = {}
        BY DEF Queue!Asleep
      <4>. QED
        BY <2>3, <4>1, QueueNotified DEF Queue!notify_one
    <3>4. Awake' = Awake \cup {c} /\ c \notin Awake /\ Queue!Asleep # {}
      BY <3>3 DEF Awake, Queue!Asleep
    <3>5. /\ Cardinality(Notifying') = Cardinality(Notifying) - 1
          /\ Cardinality(Awake') = Cardinality(Awake) + 1
      BY <1>3, <3>1, <3>4, FS_AddElement, FS_RemoveElement
    <3>. QED
      BY <1>1, <1>3, <1>4, <3>2, <3>4, <3>5 DEF served
  <2>. QED
    BY <1>6, <2>1, <2>2, <2>3 DEF Queue!Produce
<1>7. ASSUME NEW c \in Consumer, Queue!Consume(c)
      PROVE  served'
  <2>1. CASE \/ Queue!TestConsumer(c) \/ Queue!ReadFirstEnd(c) \/ Queue!ReadOtherEnd(c)
             \/ Queue!Hold(c) \/ Queue!Release(c)
    <3>1. Notifying' = Notifying /\ stop' = stop /\ pushed' = pushed /\ popped' = popped
      BY <2>1 DEF Queue!TestConsumer, Queue!ReadFirstEnd, Queue!ReadOtherEnd, Queue!Hold,
                  Queue!Release, Notifying
    <3>2. \A d \in Consumer : consumer'[d] = "asleep" <=> consumer[d] = "asleep"
      BY <2>1 DEF Queue!TestConsumer, Queue!AfterStop, Queue!ReadFirstEnd, Queue!ReadOtherEnd,
                  Queue!Hold, Queue!Release
    <3>3. Queue!Asleep' = Queue!Asleep
      BY <3>2 DEF Queue!Asleep
    <3>. QED
      BY <1>5, <3>1, <3>3
  <2>2. CASE Queue!Pop(c)
    <3>1. Notifying' = Notifying /\ Awake' = Awake /\ Queue!Asleep' = Queue!Asleep
      BY <2>2 DEF Queue!Pop, Notifying, Awake, Queue!Asleep
    <3>2. stop' = stop /\ pushed' = pushed /\ popped' = popped + 1
      BY <2>2 DEF Queue!Pop
    <3>. QED
      BY <1>1, <1>3, <1>4, <3>1, <3>2 DEF served
  <2>3. CASE Queue!Wait(c)
    <3>1. pushed' = popped' /\ popped' \in Nat
      BY <2>3 DEF Queue!Wait
    <3>2. Cardinality(Notifying') \in Nat /\ Cardinality(Awake') \in Nat
      <4>1. IsFiniteSet(Notifying') /\ IsFiniteSet(Awake')
        BY FS_Subset, FiniteAssumption DEF Notifying, Awake
      <4>. QED
        BY <4>1, FS_CardinalityType
    <3>. QED
      BY <3>1, <3>2 DEF served
  <2>. QED
    BY <1>7, <2>1, <2>2, <2>3 DEF Queue!Consume
<1>8. ASSUME NEW c \in Consumer, Queue!SpuriousWakeup(c)
      PROVE  served'
  <2>1. Awake' = Awake \cup {c} /\ c \notin Awake /\ Queue!Asleep # {} /\ Notifying' = Notifying
    BY <1>8 DEF Queue!SpuriousWakeup, Awake, Queue!Asleep, Notifying
  <2>2. Cardinality(Awake') = Cardinality(Awake) + 1
    BY <1>3, <2>1, FS_AddElement
  <2>3. stop' = stop /\ pushed' = pushed /\ popped' = popped
    BY <1>8 DEF Queue!SpuriousWakeup
  <2>. QED
    BY <1>1, <1>3, <1>4, <2>1, <2>2, <2>3 DEF served
<1>9. CASE Queue!Main
  BY <1>9 DEF Queue!Main, Queue!request_stop, Queue!NotifyAll
<1>10. CASE UNCHANGED Queue!vars
  <2>1. Notifying' = Notifying /\ Queue!Asleep' = Queue!Asleep
    BY <1>10 DEF Queue!vars, Notifying, Queue!Asleep
  <2>. QED
    BY <1>5, <1>10, <2>1 DEF Queue!vars
<1>. QED
  BY <1>6, <1>7, <1>8, <1>9, <1>10 DEF Queue!Next

-----------------------------------------------------------------------------
(* threadPool.hpp and its users.                                            *)
Submitter == {"enqueue", "notify", "get", "stop", "notify_all", "join", "end"}

Future == [x : Nat, set : Nat]

PoolType ==
  /\ preorder \in BOOLEAN /\ stop_pool \in BOOLEAN
  /\ traverse \in Seq(Nat) /\ tasks \in Seq(Nat) /\ printed \in Seq(Nat)
  /\ futures \in Seq(Future)
  /\ worker \in [Pool!Worker -> {"lock", "asleep", "run", "after", "ended"}]
  /\ task \in [Pool!Worker -> Nat]
  /\ submitter \in Submitter

(* A task is in the queue, or run by one worker, or its future is set.      *)
TaskInv ==
  /\ IsInjective(tasks)
  /\ \A k \in Range(tasks) : k \in DOMAIN futures /\ futures[k].set = 0
  /\ \A w \in Pool!Worker : worker[w] = "run" =>
       task[w] \in DOMAIN futures /\ futures[task[w]].set = 0 /\ task[w] \notin Range(tasks)
  /\ \A v, w \in Pool!Worker :
       v # w /\ worker[v] = "run" /\ worker[w] = "run" => task[v] # task[w]
  /\ \A k \in DOMAIN futures : futures[k].set \in {0, 1}

(* main reads the futures in order, and stops the pool after the last one.  *)
PrintInv ==
  /\ Len(printed) <= Len(futures)
  /\ \A k \in 1 .. Len(printed) : futures[k].set = 1 /\ printed[k] = futures[k].x * futures[k].x
  /\ submitter \notin {"enqueue", "notify"} => traverse = <<>>
  /\ submitter \in {"stop", "notify_all", "join", "end"} => Len(printed) = Len(futures)
  /\ stop_pool <=> submitter \in {"notify_all", "join", "end"}

(* The workers between the two hooks.                                       *)
Inside == {w \in Pool!Worker : worker[w] \in {"run", "after"}}
ActiveInv == active_threads = Cardinality(Inside)

(* The pool counts as this module does.                                     *)
LEMMA PoolCardinality == \A S : Pool!Cardinality(S) = Cardinality(S)
BY DEF Pool!Cardinality, Cardinality

(* The pool has workers, and finitely many.                                 *)
LEMMA WorkerFinite == IsFiniteSet(Pool!Worker) /\ Pool!Worker # {}
<1>1. Pool!Worker = 1 .. capacity /\ capacity \in Nat \ {0}
  BY PoolAssumption DEF Pool!Worker
<1>2. IsFiniteSet(1 .. capacity)
  BY <1>1, FS_Interval
<1>. QED
  BY <1>1, <1>2

(* The nodes below a node are nodes.                                        *)
LEMMA ChildrenType ==
  ASSUME NEW node \in Nat
  PROVE  Pool!Children(node) \in Seq(Nat)
<1>1. 2 * node + 1 \in Nat /\ 2 * node + 1 + 1 \in Nat
  OBVIOUS
<1>2. <<>> \in Seq(Nat) /\ <<2 * node + 1>> \in Seq(Nat) /\ <<2 * node + 1, 2 * node + 1 + 1>> \in Seq(Nat)
  BY <1>1
<1>. QED
  BY <1>2 DEF Pool!Children

(* The worker sets the future of its task.                                  *)
LEMMA SetFuture ==
  ASSUME PoolType, TaskInv, NEW w \in Pool!Worker, Pool!Execute(w)
  PROVE  /\ worker[w] = "run" /\ task[w] \in DOMAIN futures
         /\ futures[task[w]].set = 0 /\ futures'[task[w]].set = 1
         /\ futures' \in Seq(Future)
         /\ Len(futures') = Len(futures) /\ DOMAIN futures' = DOMAIN futures
         /\ \A k \in DOMAIN futures : futures'[k].x = futures[k].x
         /\ \A k \in DOMAIN futures : k # task[w] => futures'[k] = futures[k]
<1>. DEFINE k == task[w]
<1>1. /\ worker[w] = "run" /\ k \in DOMAIN futures /\ futures[k].set = 0
      /\ futures \in Seq(Future)
      /\ futures' = [futures EXCEPT ![k].set = @ + 1]
  BY DEF Pool!Execute, Pool!Go, TaskInv, PoolType
<1>. HIDE DEF k
<1>2. futures[k] \in Future
  BY <1>1, SeqElement
<1>. DEFINE e == [x |-> futures[k].x, set |-> 1]
<1>3. e \in Future /\ e.set = 1 /\ e.x = futures[k].x
  BY <1>2 DEF Future
<1>4. futures' = [futures EXCEPT ![k] = e]
  <2>1. futures' = [futures EXCEPT ![k] = [futures[k] EXCEPT !.set = futures[k].set + 1]]
    BY <1>1
  <2>2. [futures[k] EXCEPT !.set = futures[k].set + 1] = e
    BY <1>1, <1>2 DEF Future
  <2>. QED
    BY <2>1, <2>2
<1>. HIDE DEF e
<1>5. /\ futures' \in Seq(Future) /\ Len(futures') = Len(futures) /\ DOMAIN futures' = DOMAIN futures
      /\ \A j \in DOMAIN futures : futures'[j] = (IF j = k THEN e ELSE futures[j])
  BY <1>1, <1>3, <1>4, SeqUpdate
<1>. QED
  BY <1>1, <1>3, <1>5 DEF k

(* Every action of the pool keeps the types.                                *)
LEMMA PoolTypeStep ==
  ASSUME PoolType, TaskInv, Pool!Next
  PROVE  PoolType'
<1>. USE DEF PoolType, Submitter, Pool!main, Pool!workers, Pool!Go
<1>1. ASSUME NEW w \in Pool!Worker, Pool!wait_loop(w) \/ Pool!SpuriousWakeup(w)
      PROVE  PoolType'
  <2>1. CASE Pool!Sleep(w) \/ Pool!Return(w) \/ Pool!after_task_hook(w) \/ Pool!SpuriousWakeup(w)
    BY <2>1 DEF Pool!Sleep, Pool!Return, Pool!after_task_hook, Pool!SpuriousWakeup
  <2>2. CASE Pool!PopTask(w)
    <3>1. Head(tasks) \in Nat /\ Tail(tasks) \in Seq(Nat)
      BY <2>2 DEF Pool!PopTask
    <3>. QED
      BY <2>2, <3>1 DEF Pool!PopTask
  <2>3. CASE Pool!Execute(w)
    <3>1. futures' \in Seq(Future)
      BY <2>3, SetFuture
    <3>. QED
      BY <2>3, <3>1 DEF Pool!Execute
  <2>. QED
    BY <1>1, <2>1, <2>2, <2>3 DEF Pool!wait_loop
<1>2. CASE Pool!enqueue
  <2>1. Head(traverse) \in Nat /\ Tail(traverse) \in Seq(Nat)
    BY <1>2 DEF Pool!enqueue
  <2>2. traverse' \in Seq(Nat)
    <3>1. Pool!Children(Head(traverse)) \in Seq(Nat) /\ <<>> \in Seq(Nat)
      <4>1. <<>> \in Seq(Nat)
        OBVIOUS
      <4>. QED
        BY <2>1, <4>1, ChildrenType
    <3>2. traverse' = Pool!Children(Head(traverse)) \o Tail(traverse) \/ traverse' = <<>> \o Tail(traverse)
      BY <1>2 DEF Pool!enqueue
    <3>. QED
      BY <2>1, <3>1, <3>2, ConcatType
  <2>3. futures' \in Seq(Future)
    <3>1. [x |-> Head(traverse), set |-> 0] \in Future
      BY <2>1 DEF Future
    <3>. QED
      BY <1>2, <3>1 DEF Pool!enqueue
  <2>4. tasks' \in Seq(Nat)
    BY <1>2, <2>3 DEF Pool!enqueue
  <2>. QED
    BY <1>2, <2>2, <2>3, <2>4 DEF Pool!enqueue
<1>3. CASE Pool!get
  <2>1. CASE Len(printed) + 1 > Len(futures)
    BY <1>3, <2>1 DEF Pool!get
  <2>2. CASE ~(Len(printed) + 1 > Len(futures))
    <3>. DEFINE k == Len(printed) + 1
    <3>1. /\ futures \in Seq(Future) /\ printed \in Seq(Nat)
          /\ k \in Nat /\ 1 <= k /\ k <= Len(futures)
          /\ printed' = Append(printed, futures[k].x * futures[k].x)
      BY <1>3, <2>2 DEF Pool!get
    <3>. HIDE DEF k
    <3>2. futures[k] \in Future
      BY <3>1, SeqElement
    <3>3. futures[k].x * futures[k].x \in Nat
      BY <3>2 DEF Future
    <3>4. printed' \in Seq(Nat)
      BY <3>1, <3>3
    <3>. QED
      BY <1>3, <2>2, <3>4 DEF Pool!get, k
  <2>. QED
    BY <2>1, <2>2
<1>4. CASE Pool!notify_one
  BY <1>4 DEF Pool!notify_one
<1>5. CASE Pool!Submitted \/ Pool!Stop \/ Pool!notify_all \/ Pool!join
  BY <1>5 DEF Pool!Submitted, Pool!Stop, Pool!notify_all, Pool!join
<1>6. CASE UNCHANGED Pool!vars
  BY <1>6 DEF Pool!vars
<1>. QED
  BY <1>1, <1>2, <1>3, <1>4, <1>5, <1>6 DEF Pool!Next, Pool!Main

(* What enqueue does to the two sequences.                                  *)
LEMMA Enqueued ==
  ASSUME PoolType, TaskInv, Pool!enqueue
  PROVE  /\ DOMAIN futures = 1 .. Len(futures) /\ Len(futures) \in Nat
         /\ Len(futures') = Len(futures) + 1 /\ DOMAIN futures' = 1 .. Len(futures) + 1
         /\ \A k \in DOMAIN futures : futures'[k] = futures[k]
         /\ futures'[Len(futures) + 1] = [x |-> Head(traverse), set |-> 0]
         /\ Range(tasks') = Range(tasks) \cup {Len(futures) + 1}
         /\ IsInjective(tasks') /\ Len(futures) + 1 \notin Range(tasks)
         /\ Len(tasks') = Len(tasks) + 1
<1>1. /\ futures \in Seq(Future) /\ tasks \in Seq(Nat)
      /\ futures' = Append(futures, [x |-> Head(traverse), set |-> 0])
      /\ tasks' = Append(tasks, Len(futures'))
  BY DEF PoolType, Pool!enqueue
<1>2. /\ DOMAIN futures = 1 .. Len(futures) /\ Len(futures) \in Nat
      /\ Len(futures') = Len(futures) + 1 /\ DOMAIN futures' = 1 .. Len(futures) + 1
  BY <1>1
<1>3. /\ \A k \in DOMAIN futures : futures'[k] = futures[k]
      /\ futures'[Len(futures) + 1] = [x |-> Head(traverse), set |-> 0]
  BY <1>1, <1>2
<1>4. Len(futures) + 1 \notin Range(tasks)
  BY <1>2 DEF TaskInv
<1>. QED
  BY <1>1, <1>2, <1>3, <1>4, AppendRange DEF TaskInv

(* Every action keeps each task in its one place: enqueue makes the future  *)
(* with the task, pop moves the task to the worker, and only the worker     *)
(* that holds it sets the future.                                           *)
LEMMA TaskStep ==
  ASSUME PoolType, TaskInv, Pool!Next
  PROVE  TaskInv'
<1>1. ASSUME UNCHANGED <<tasks, futures, task>>,
             \A w \in Pool!Worker : worker'[w] = "run" => worker[w] = "run"
      PROVE  TaskInv'
  BY <1>1 DEF TaskInv
<1>2. ASSUME NEW w \in Pool!Worker, Pool!PopTask(w)
      PROVE  TaskInv'
  <2>. DEFINE k == Head(tasks)
  <2>1. /\ tasks \in Seq(Nat) /\ tasks # <<>> /\ tasks' = Tail(tasks) /\ futures' = futures
        /\ worker' = [worker EXCEPT ![w] = "run"] /\ task' = [task EXCEPT ![w] = k]
        /\ worker[w] = "lock"
    BY <1>2 DEF Pool!PopTask, Pool!Go, PoolType
  <2>2. /\ k \in Range(tasks) /\ Range(tasks) = Range(tasks') \cup {k}
        /\ IsInjective(tasks') /\ k \notin Range(tasks')
    BY <2>1, TailRange DEF TaskInv
  <2>. HIDE DEF k
  <2>3. /\ worker'[w] = "run" /\ task'[w] = k
        /\ \A v \in Pool!Worker : v # w => worker'[v] = worker[v] /\ task'[v] = task[v]
    BY <2>1 DEF PoolType
  <2>4. k \in DOMAIN futures /\ futures[k].set = 0
        /\ \A v \in Pool!Worker : worker[v] = "run" => task[v] # k
    BY <2>2 DEF TaskInv
  <2>5. \A v \in Pool!Worker : worker'[v] = "run" =>
          task'[v] \in DOMAIN futures /\ futures[task'[v]].set = 0 /\ task'[v] \notin Range(tasks')
    BY <2>2, <2>3, <2>4 DEF TaskInv
  <2>6. \A u, v \in Pool!Worker :
          u # v /\ worker'[u] = "run" /\ worker'[v] = "run" => task'[u] # task'[v]
    BY <2>3, <2>4 DEF TaskInv
  <2>. QED
    BY <2>1, <2>2, <2>5, <2>6 DEF TaskInv
<1>3. ASSUME NEW w \in Pool!Worker, Pool!Execute(w)
      PROVE  TaskInv'
  <2>1. /\ worker[w] = "run" /\ task[w] \in DOMAIN futures
        /\ futures'[task[w]].set = 1 /\ DOMAIN futures' = DOMAIN futures
        /\ \A k \in DOMAIN futures : k # task[w] => futures'[k] = futures[k]
    BY <1>3, SetFuture
  <2>2. /\ worker'[w] = "after" /\ UNCHANGED <<tasks, task>>
        /\ \A v \in Pool!Worker : v # w => worker'[v] = worker[v]
    BY <1>3 DEF Pool!Execute, Pool!Go, PoolType
  <2>3. \A k \in Range(tasks) : k \in DOMAIN futures' /\ futures'[k].set = 0
    BY <2>1, <2>2 DEF TaskInv
  <2>4. \A v \in Pool!Worker : worker'[v] = "run" =>
          task'[v] \in DOMAIN futures' /\ futures'[task'[v]].set = 0 /\ task'[v] \notin Range(tasks)
    BY <2>1, <2>2 DEF TaskInv
  <2>5. \A k \in DOMAIN futures' : futures'[k].set \in {0, 1}
    BY <2>1 DEF TaskInv
  <2>6. \A u, v \in Pool!Worker :
          u # v /\ worker'[u] = "run" /\ worker'[v] = "run" => task'[u] # task'[v]
    BY <2>2 DEF TaskInv
  <2>. QED
    BY <2>2, <2>3, <2>4, <2>5, <2>6 DEF TaskInv
<1>4. CASE Pool!enqueue
  <2>1. UNCHANGED <<worker, task>>
    BY <1>4 DEF Pool!enqueue, Pool!workers
  <2>2. /\ DOMAIN futures = 1 .. Len(futures) /\ Len(futures) \in Nat
        /\ DOMAIN futures' = 1 .. Len(futures) + 1
        /\ \A k \in DOMAIN futures : futures'[k] = futures[k]
        /\ futures'[Len(futures) + 1].set = 0
        /\ Range(tasks') = Range(tasks) \cup {Len(futures) + 1} /\ IsInjective(tasks')
    BY <1>4, Enqueued
  <2>3. \A k \in Range(tasks') : k \in DOMAIN futures' /\ futures'[k].set = 0
    BY <2>2 DEF TaskInv
  <2>4. \A v \in Pool!Worker : worker[v] = "run" =>
          task[v] \in DOMAIN futures' /\ futures'[task[v]].set = 0 /\ task[v] \notin Range(tasks')
    BY <2>2 DEF TaskInv
  <2>5. \A k \in DOMAIN futures' : futures'[k].set \in {0, 1}
    BY <2>2 DEF TaskInv
  <2>6. \A u, v \in Pool!Worker :
          u # v /\ worker[u] = "run" /\ worker[v] = "run" => task[u] # task[v]
    BY DEF TaskInv
  <2>. QED
    BY <2>1, <2>2, <2>3, <2>4, <2>5, <2>6 DEF TaskInv
<1>5. ASSUME NEW w \in Pool!Worker,
             Pool!Sleep(w) \/ Pool!Return(w) \/ Pool!after_task_hook(w) \/ Pool!SpuriousWakeup(w)
      PROVE  TaskInv'
  BY <1>1, <1>5 DEF Pool!Sleep, Pool!Return, Pool!after_task_hook, Pool!SpuriousWakeup, Pool!Go,
                    PoolType
<1>6. CASE Pool!notify_one
  BY <1>1, <1>6 DEF Pool!notify_one, Pool!Go, PoolType
<1>7. CASE Pool!Submitted \/ Pool!get \/ Pool!Stop \/ Pool!join
  BY <1>1, <1>7 DEF Pool!Submitted, Pool!get, Pool!Stop, Pool!join, Pool!workers
<1>8. CASE Pool!notify_all
  BY <1>1, <1>8 DEF Pool!notify_all
<1>9. CASE UNCHANGED Pool!vars
  BY <1>1, <1>9 DEF Pool!vars
<1>. QED
  BY <1>2, <1>3, <1>4, <1>5, <1>6, <1>7, <1>8, <1>9
     DEF Pool!Next, Pool!Main, Pool!wait_loop

(* Every action keeps the order of main: it gets a future when it is set,   *)
(* and stops the pool when it has got the last.                             *)
LEMMA PrintStep ==
  ASSUME PoolType, TaskInv, PrintInv, Pool!Next
  PROVE  PrintInv'
<1>. USE DEF PrintInv
<1>1. CASE UNCHANGED <<futures, printed, submitter, stop_pool, traverse>>
  BY <1>1
<1>2. ASSUME NEW w \in Pool!Worker, Pool!wait_loop(w) \/ Pool!SpuriousWakeup(w)
      PROVE  PrintInv'
  <2>1. CASE Pool!Execute(w)
    <3>1. /\ Len(futures') = Len(futures) /\ DOMAIN futures = 1 .. Len(futures)
          /\ task[w] \in DOMAIN futures /\ futures[task[w]].set = 0
          /\ \A k \in DOMAIN futures : k # task[w] => futures'[k] = futures[k]
          /\ Len(futures) \in Nat /\ Len(printed) \in Nat
      BY <2>1, SetFuture DEF PoolType
    <3>2. UNCHANGED <<printed, submitter, stop_pool, traverse>>
      BY <2>1 DEF Pool!Execute, Pool!main
    <3>3. \A k \in 1 .. Len(printed) : k # task[w] /\ k \in DOMAIN futures
      BY <3>1
    <3>. QED
      BY <3>1, <3>2, <3>3
  <2>2. CASE ~Pool!Execute(w)
    BY <1>1, <1>2, <2>2 DEF Pool!wait_loop, Pool!Sleep, Pool!Return, Pool!PopTask,
                            Pool!after_task_hook, Pool!SpuriousWakeup, Pool!main
  <2>. QED
    BY <2>1, <2>2
<1>3. CASE Pool!enqueue
  <2>1. /\ Len(futures') = Len(futures) + 1 /\ DOMAIN futures = 1 .. Len(futures)
        /\ \A k \in DOMAIN futures : futures'[k] = futures[k]
        /\ Len(futures) \in Nat /\ Len(printed) \in Nat
    BY <1>3, Enqueued DEF PoolType
  <2>2. UNCHANGED <<printed, stop_pool>> /\ submitter = "enqueue" /\ submitter' = "notify"
    BY <1>3 DEF Pool!enqueue
  <2>3. \A k \in 1 .. Len(printed) : k \in DOMAIN futures
    BY <2>1
  <2>. QED
    BY <2>1, <2>2, <2>3
<1>4. CASE Pool!get
  <2>. DEFINE k == Len(printed) + 1
  <2>1. /\ printed \in Seq(Nat) /\ futures \in Seq(Future) /\ k \in Nat /\ Len(futures) \in Nat
        /\ submitter = "get" /\ UNCHANGED <<futures, stop_pool, traverse>>
    BY <1>4 DEF Pool!get, PoolType
  <2>2. CASE k > Len(futures)
    <3>1. submitter' = "stop" /\ printed' = printed
      BY <1>4, <2>2 DEF Pool!get
    <3>. QED
      BY <2>1, <2>2, <3>1
  <2>3. CASE ~(k > Len(futures))
    <3>1. /\ futures[k].set > 0 /\ printed' = Append(printed, futures[k].x * futures[k].x)
          /\ submitter' = submitter
      BY <1>4, <2>3 DEF Pool!get
    <3>2. k \in DOMAIN futures /\ futures[k].x \in Nat
      <4>1. k \in DOMAIN futures
        BY <2>1, <2>3
      <4>2. futures[k] \in Future
        BY <2>1, <4>1, SeqElement
      <4>. QED
        BY <4>1, <4>2 DEF Future
    <3>3. futures[k].set = 1
      BY <3>1, <3>2 DEF TaskInv
    <3>4. /\ Len(printed') = k /\ printed'[k] = futures[k].x * futures[k].x
          /\ \A j \in 1 .. Len(printed) : printed'[j] = printed[j]
      BY <2>1, <3>1, AppendElements
    <3>5. \A j \in 1 .. k : j = k \/ j \in 1 .. Len(printed)
      BY <2>1
    <3>. QED
      BY <2>1, <2>3, <3>1, <3>3, <3>4, <3>5
  <2>. QED
    BY <2>2, <2>3
<1>5. CASE Pool!notify_one \/ Pool!Submitted \/ Pool!Stop \/ Pool!notify_all \/ Pool!join
  BY <1>5 DEF Pool!notify_one, Pool!Submitted, Pool!Stop, Pool!notify_all, Pool!join
<1>6. CASE UNCHANGED Pool!vars
  BY <1>1, <1>6 DEF Pool!vars
<1>. QED
  BY <1>2, <1>3, <1>4, <1>5, <1>6 DEF Pool!Next, Pool!Main

(* The number of workers inside a task.                                     *)
LEMMA InsideCounted ==
  /\ IsFiniteSet(Inside) /\ IsFiniteSet(Inside')
  /\ Cardinality(Inside) \in Nat /\ Cardinality(Inside') \in Nat
<1>1. IsFiniteSet(Inside) /\ IsFiniteSet(Inside')
  BY FS_Subset, WorkerFinite DEF Inside
<1>. QED
  BY <1>1, FS_CardinalityType

(* Every action keeps active_threads the number of workers between the      *)
(* hooks.                                                                   *)
LEMMA ActiveStep ==
  ASSUME PoolType, ActiveInv, Pool!Next
  PROVE  ActiveInv'
<1>. USE DEF Pool!Go, PoolType
<1>1. ASSUME active_threads' = active_threads,
             \A w \in Pool!Worker : worker'[w] \in {"run", "after"} <=> worker[w] \in {"run", "after"}
      PROVE  ActiveInv'
  <2>1. Inside' = Inside
    BY <1>1 DEF Inside
  <2>. QED
    BY <1>1, <2>1 DEF ActiveInv
<1>2. ASSUME NEW w \in Pool!Worker, Pool!PopTask(w)
      PROVE  ActiveInv'
  <2>1. Inside' = Inside \cup {w} /\ w \notin Inside /\ active_threads' = active_threads + 1
    BY <1>2 DEF Pool!PopTask, Inside
  <2>2. Cardinality(Inside \cup {w}) = Cardinality(Inside) + 1
    BY <2>1, InsideCounted, FS_AddElement
  <2>. QED
    BY <2>1, <2>2 DEF ActiveInv
<1>3. ASSUME NEW w \in Pool!Worker, Pool!after_task_hook(w)
      PROVE  ActiveInv'
  <2>1. Inside' = Inside \ {w} /\ w \in Inside /\ active_threads' = active_threads - 1
    BY <1>3 DEF Pool!after_task_hook, Inside
  <2>2. Cardinality(Inside \ {w}) = Cardinality(Inside) - 1
    BY <2>1, InsideCounted, FS_RemoveElement
  <2>. QED
    BY <2>1, <2>2 DEF ActiveInv
<1>4. ASSUME NEW w \in Pool!Worker,
             Pool!Sleep(w) \/ Pool!Return(w) \/ Pool!Execute(w) \/ Pool!SpuriousWakeup(w)
      PROVE  ActiveInv'
  BY <1>1, <1>4 DEF Pool!Sleep, Pool!Return, Pool!Execute, Pool!SpuriousWakeup
<1>5. CASE Pool!notify_one
  BY <1>1, <1>5 DEF Pool!notify_one
<1>6. CASE Pool!enqueue \/ Pool!Submitted \/ Pool!get \/ Pool!Stop \/ Pool!join
  <2>1. UNCHANGED <<worker, active_threads>>
    BY <1>6 DEF Pool!enqueue, Pool!Submitted, Pool!get, Pool!Stop, Pool!join, Pool!workers
  <2>. QED
    BY <1>1, <2>1
<1>7. CASE Pool!notify_all
  BY <1>1, <1>7 DEF Pool!notify_all
<1>8. CASE UNCHANGED Pool!vars
  BY <1>1, <1>8 DEF Pool!vars
<1>. QED
  BY <1>2, <1>3, <1>4, <1>5, <1>6, <1>7, <1>8 DEF Pool!Next, Pool!Main, Pool!wait_loop

(* The workers about to look at the queue.                                  *)
Looking == {w \in Pool!Worker : worker[w] = "lock"}
ToNotify == IF submitter = "notify" THEN 1 ELSE 0

LEMMA ServeStep ==
  ASSUME PoolType, TaskInv, Pool!EveryTaskIsServed, Pool!Next
  PROVE  Pool!EveryTaskIsServed'
<1>. DEFINE asleep == \E w \in Pool!Worker : worker[w] = "asleep"
            served == Len(tasks) <= Cardinality(Looking) + ToNotify
<1>1. Pool!EveryTaskIsServed <=> (asleep => served)
  BY PoolCardinality DEF Pool!EveryTaskIsServed, Looking, ToNotify
<1>2. Pool!EveryTaskIsServed' <=> (asleep' => served')
  BY PoolCardinality DEF Pool!EveryTaskIsServed, Looking, ToNotify
<1>3. /\ IsFiniteSet(Looking) /\ Cardinality(Looking) \in Nat
      /\ Cardinality(Looking') \in Nat
      /\ ToNotify \in Nat /\ ToNotify' \in Nat
  <2>1. IsFiniteSet(Looking) /\ IsFiniteSet(Looking')
    BY FS_Subset, WorkerFinite DEF Looking
  <2>. QED
    BY <2>1, FS_CardinalityType DEF ToNotify
<1>4. Len(tasks) \in Nat
  BY DEF PoolType
<1>5. ASSUME asleep' => asleep, Looking' = Looking, ToNotify' = ToNotify, tasks' = tasks
      PROVE  asleep' => served'
  BY <1>1, <1>5
<1>6. ASSUME asleep, NEW w, w \notin Looking, Looking' = Looking \cup {w},
             ToNotify <= ToNotify' + 1, tasks' = tasks
      PROVE  served'
  <2>1. Cardinality(Looking') = Cardinality(Looking) + 1
    BY <1>3, <1>6, FS_AddElement
  <2>2. served /\ (served' <=> Len(tasks) <= Cardinality(Looking') + ToNotify')
    BY <1>1, <1>6
  <2>3. Len(tasks) <= Cardinality(Looking) + ToNotify
    BY <2>2
  <2>4. Len(tasks) <= Cardinality(Looking') + ToNotify'
    <3>1. ToNotify <= ToNotify' + 1
      BY <1>6
    <3>2. \A n, c, d, t, u \in Nat : n <= c + t /\ d = c + 1 /\ t <= u + 1 => n <= d + u
      OBVIOUS
    <3>3. /\ Len(tasks) \in Nat /\ Cardinality(Looking) \in Nat /\ Cardinality(Looking') \in Nat
          /\ ToNotify \in Nat /\ ToNotify' \in Nat
      BY <1>3, <1>4
    <3>. QED
      BY <2>1, <2>3, <3>1, <3>2, <3>3
  <2>. QED
    BY <2>2, <2>4
<1>. SUFFICES ASSUME asleep' PROVE served'
  BY <1>2
<1>. HIDE DEF served
<1>. USE DEF Pool!Go, PoolType, Pool!main, Pool!workers
<1>7. ASSUME NEW w \in Pool!Worker, Pool!Sleep(w) \/ Pool!Return(w)
      PROVE  served'
  <2>1. tasks' = <<>>
    BY <1>7 DEF Pool!Sleep, Pool!Return
  <2>. QED
    BY <1>3, <2>1 DEF served
<1>8. ASSUME NEW w \in Pool!Worker, Pool!PopTask(w)
      PROVE  served'
  <2>1. Looking' = Looking \ {w} /\ w \in Looking /\ asleep
    BY <1>8 DEF Pool!PopTask, Looking
  <2>2. tasks # <<>> /\ tasks' = Tail(tasks) /\ ToNotify' = ToNotify
    BY <1>8 DEF Pool!PopTask, ToNotify
  <2>3. Len(tasks') = Len(tasks) - 1
    BY <2>2
  <2>4. Cardinality(Looking') = Cardinality(Looking) - 1
    BY <1>3, <2>1, FS_RemoveElement
  <2>. QED
    BY <1>1, <1>3, <1>4, <2>1, <2>2, <2>3, <2>4 DEF served
<1>9. ASSUME NEW w \in Pool!Worker, Pool!Execute(w)
      PROVE  served'
  <2>1. Looking' = Looking /\ asleep /\ ToNotify' = ToNotify /\ tasks' = tasks
    BY <1>9 DEF Pool!Execute, Looking, ToNotify
  <2>. QED
    BY <1>5, <2>1
<1>10. ASSUME NEW w \in Pool!Worker, Pool!after_task_hook(w) \/ Pool!SpuriousWakeup(w)
       PROVE  served'
  <2>1. Looking' = Looking \cup {w} /\ w \notin Looking /\ asleep
    BY <1>10 DEF Pool!after_task_hook, Pool!SpuriousWakeup, Looking
  <2>2. ToNotify' = ToNotify /\ tasks' = tasks
    BY <1>10 DEF Pool!after_task_hook, Pool!SpuriousWakeup, ToNotify
  <2>. QED
    BY <1>3, <1>6, <2>1, <2>2
<1>11. CASE Pool!enqueue
  <2>1. Len(tasks') = Len(tasks) + 1
    BY <1>11, Enqueued
  <2>2. Looking' = Looking /\ asleep /\ ToNotify = 0 /\ ToNotify' = 1
    BY <1>11 DEF Pool!enqueue, Looking, ToNotify
  <2>. QED
    BY <1>1, <1>3, <1>4, <2>1, <2>2 DEF served
<1>12. CASE Pool!notify_one
  <2>1. PICK w \in Pool!Worker : worker[w] = "asleep" /\ worker' = [worker EXCEPT ![w] = "lock"]
    BY <1>12 DEF Pool!notify_one
  <2>2. Looking' = Looking \cup {w} /\ w \notin Looking /\ asleep
    BY <2>1 DEF Looking
  <2>3. ToNotify = 1 /\ ToNotify' = 0 /\ tasks' = tasks
    BY <1>12 DEF Pool!notify_one, ToNotify
  <2>. QED
    BY <1>6, <2>2, <2>3
<1>13. CASE Pool!Submitted \/ Pool!get \/ Pool!Stop \/ Pool!join
  <2>1. Looking' = Looking /\ asleep /\ tasks' = tasks
    BY <1>13 DEF Pool!Submitted, Pool!get, Pool!Stop, Pool!join, Looking
  <2>2. ToNotify = 0 /\ ToNotify' = 0
    BY <1>13 DEF Pool!Submitted, Pool!get, Pool!Stop, Pool!join, ToNotify
  <2>. QED
    BY <1>5, <2>1, <2>2
<1>14. CASE Pool!notify_all
  BY <1>14 DEF Pool!notify_all
<1>15. CASE UNCHANGED Pool!vars
  <2>1. Looking' = Looking /\ asleep /\ ToNotify' = ToNotify /\ tasks' = tasks
    BY <1>15 DEF Pool!vars, Looking, ToNotify
  <2>. QED
    BY <1>5, <2>1
<1>. QED
  BY <1>7, <1>8, <1>9, <1>10, <1>11, <1>12, <1>13, <1>14, <1>15
     DEF Pool!Next, Pool!Main, Pool!wait_loop

(* What is true of the pool.                                                *)
PoolInv == PoolType /\ TaskInv /\ PrintInv /\ ActiveInv /\ Pool!EveryTaskIsServed

-----------------------------------------------------------------------------
(* Two sequences in a row have the elements of both.                         *)
LEMMA ConcatRange ==
  ASSUME NEW R, NEW p \in Seq(R), NEW q \in Seq(R)
  PROVE  /\ Range(p \o q) = Range(p) \cup Range(q)
         /\ IsInjective(p) /\ IsInjective(q) /\ Range(p) \cap Range(q) = {} => IsInjective(p \o q)
<1>. DEFINE m == Len(p)
            n == Len(q)
            c == p \o q
<1>1. /\ m \in Nat /\ n \in Nat /\ DOMAIN c = 1 .. m + n
      /\ DOMAIN p = 1 .. m /\ DOMAIN q = 1 .. n
      /\ \A k \in 1 .. m : c[k] = p[k]
      /\ \A k \in m + 1 .. m + n : c[k] = q[k - m]
  OBVIOUS
<1>. HIDE DEF m, n, c
<1>2. \A k \in 1 .. m + n : k \in 1 .. m \/ (k \in m + 1 .. m + n /\ k - m \in 1 .. n)
  BY <1>1
<1>3. \A k \in 1 .. n : k + m \in m + 1 .. m + n /\ c[k + m] = q[k]
  BY <1>1
<1>4. Range(c) = Range(p) \cup Range(q)
  <2>1. \A k \in DOMAIN c : c[k] \in Range(p) \cup Range(q)
    BY <1>1, <1>2 DEF Range
  <2>2. \A k \in DOMAIN p : k \in DOMAIN c /\ p[k] = c[k]
    BY <1>1
  <2>3. \A k \in DOMAIN q : k + m \in DOMAIN c /\ q[k] = c[k + m]
    BY <1>1, <1>3
  <2>. QED
    BY <2>1, <2>2, <2>3 DEF Range
<1>5. ASSUME IsInjective(p), IsInjective(q), Range(p) \cap Range(q) = {}
      PROVE  IsInjective(c)
  <2>. SUFFICES ASSUME NEW k \in DOMAIN c, NEW l \in DOMAIN c, c[k] = c[l]
                PROVE  k = l
    BY DEF IsInjective
  <2>1. \A x \in 1 .. m, y \in 1 .. n : p[x] # q[y]
    BY <1>1, <1>5 DEF Range
  <2>2. (k \in 1 .. m) = (l \in 1 .. m)
    BY <1>1, <1>2, <2>1
  <2>3. CASE k \in 1 .. m
    BY <1>1, <1>5, <2>2, <2>3 DEF IsInjective
  <2>4. CASE k \notin 1 .. m
    <3>1. /\ k - m \in 1 .. n /\ l - m \in 1 .. n /\ c[k] = q[k - m] /\ c[l] = q[l - m]
      BY <1>1, <1>2, <2>2, <2>4
    <3>2. k - m = l - m
      BY <1>1, <1>5, <3>1 DEF IsInjective
    <3>. QED
      BY <1>1, <3>2
  <2>. QED
    BY <2>3, <2>4
<1>. QED
  BY <1>4, <1>5 DEF c

-----------------------------------------------------------------------------
(* threadPool.hpp: every node is submitted once.  In preorder a node is      *)
(* submitted or to submit when it is the root or its parent is submitted.    *)
PoolNode == 0 .. num_nodes - 1
ParentOf(n) == (n - 1) \div 2
Args == {futures[k].x : k \in DOMAIN futures}

NodeInv ==
  /\ Args \subseteq PoolNode /\ Range(traverse) \subseteq PoolNode
  /\ Args \cap Range(traverse) = {} /\ IsInjective(traverse)
  /\ \A k, l \in DOMAIN futures : futures[k].x = futures[l].x => k = l
  /\ \A n \in PoolNode : n \in Args \cup Range(traverse) <=>
       (preorder => n = 0 \/ ParentOf(n) \in Args)

(* The children of a node, as main lists them.                               *)
LEMMA ChildrenList ==
  ASSUME NEW h \in PoolNode
  PROVE  /\ Pool!Children(h) \in Seq(Nat) /\ IsInjective(Pool!Children(h))
         /\ Range(Pool!Children(h)) = {n \in PoolNode : n # 0 /\ ParentOf(n) = h}
<1>1. h \in Nat /\ num_nodes \in Nat
  BY PoolAssumption DEF PoolNode
<1>2. \A n \in PoolNode : n # 0 => (ParentOf(n) = h <=> n = 2 * h + 1 \/ n = 2 * h + 2)
  BY <1>1 DEF PoolNode, ParentOf
<1>. DEFINE c == 2 * h + 1
            K == {n \in PoolNode : n # 0 /\ ParentOf(n) = h}
<1>3. c \in Nat /\ c + 1 = 2 * h + 2 /\ c # 0
  BY <1>1
<1>4. K = {n \in PoolNode : n = c \/ n = c + 1}
  BY <1>1, <1>2, <1>3 DEF PoolNode
<1>. HIDE DEF c, K
<1>5. CASE c + 1 < num_nodes
  <2>1. Pool!Children(h) = <<c, c + 1>>
    BY <1>5 DEF Pool!Children, c
  <2>2. K = {c, c + 1}
    BY <1>1, <1>3, <1>4, <1>5 DEF PoolNode
  <2>3. /\ <<c, c + 1>> \in Seq(Nat) /\ DOMAIN <<c, c + 1>> = {1, 2}
        /\ <<c, c + 1>>[1] = c /\ <<c, c + 1>>[2] = c + 1 /\ c # c + 1
    BY <1>3
  <2>4. IsInjective(<<c, c + 1>>) /\ Range(<<c, c + 1>>) = {c, c + 1}
    BY <2>3 DEF IsInjective, Range
  <2>. QED
    BY <2>1, <2>2, <2>3, <2>4 DEF K
<1>6. CASE c < num_nodes /\ ~(c + 1 < num_nodes)
  <2>1. Pool!Children(h) = << c >>
    BY <1>6 DEF Pool!Children, c
  <2>2. K = {c}
    BY <1>1, <1>3, <1>4, <1>6 DEF PoolNode
  <2>3. << c >> \in Seq(Nat) /\ DOMAIN << c >> = {1} /\ << c >>[1] = c
    BY <1>3
  <2>4. IsInjective(<< c >>) /\ Range(<< c >>) = {c}
    BY <2>3 DEF IsInjective, Range
  <2>. QED
    BY <2>1, <2>2, <2>3, <2>4 DEF K
<1>7. CASE ~(c < num_nodes)
  <2>1. Pool!Children(h) = <<>>
    BY <1>1, <1>3, <1>7 DEF Pool!Children, c
  <2>2. K = {}
    BY <1>1, <1>3, <1>4, <1>7 DEF PoolNode
  <2>3. <<>> \in Seq(Nat) /\ DOMAIN <<>> = {}
    OBVIOUS
  <2>4. IsInjective(<<>>) /\ Range(<<>>) = {}
    BY <2>3 DEF IsInjective, Range
  <2>. QED
    BY <2>1, <2>2, <2>3, <2>4 DEF K
<1>. QED
  BY <1>5, <1>6, <1>7

(* enqueue submits the first node of the list, and lists its children.       *)
LEMMA NodeStep ==
  ASSUME PoolType, TaskInv, NodeInv, Pool!Next \/ UNCHANGED Pool!vars
  PROVE  NodeInv'
<1>1. ASSUME Args' = Args, DOMAIN futures' = DOMAIN futures,
             \A k \in DOMAIN futures : futures'[k].x = futures[k].x,
             UNCHANGED <<traverse, preorder>>
      PROVE  NodeInv'
  BY <1>1 DEF NodeInv, PoolNode
<1>2. CASE UNCHANGED <<futures, traverse, preorder>>
  <2>1. Args' = Args
    BY <1>2 DEF Args
  <2>. QED
    BY <1>1, <1>2, <2>1
<1>3. CASE Pool!enqueue
  <2>. DEFINE h == Head(traverse)
              kids == IF preorder THEN Pool!Children(h) ELSE <<>>
              rest == Tail(traverse)
  <2>1. traverse \in Seq(Nat) /\ traverse # <<>> /\ preorder \in BOOLEAN
    BY <1>3 DEF Pool!enqueue, PoolType
  <2>2. traverse' = kids \o rest /\ preorder' = preorder
    BY <1>3 DEF Pool!enqueue
  <2>3. /\ h \in Range(traverse) /\ rest \in Seq(Nat)
        /\ Range(traverse) = Range(rest) \cup {h}
        /\ IsInjective(rest) /\ h \notin Range(rest)
    BY <2>1, TailRange DEF NodeInv
  <2>4. h \in PoolNode
    BY <2>3 DEF NodeInv
  <2>. DEFINE K == IF preorder THEN {n \in PoolNode : n # 0 /\ ParentOf(n) = h} ELSE {}
  <2>5. kids \in Seq(Nat) /\ IsInjective(kids) /\ Range(kids) = K
    <3>1. <<>> \in Seq(Nat) /\ IsInjective(<<>>) /\ Range(<<>>) = {}
      BY DEF IsInjective, Range
    <3>. QED
      BY <2>4, <3>1, ChildrenList
  <2>6. /\ DOMAIN futures' = 1 .. Len(futures) + 1 /\ DOMAIN futures = 1 .. Len(futures)
        /\ Len(futures) \in Nat
        /\ \A k \in DOMAIN futures : futures'[k] = futures[k]
        /\ futures'[Len(futures) + 1].x = h
    BY <1>3, Enqueued
  <2>. HIDE DEF h, kids, rest
  <2>7. Args' = Args \cup {h}
    <3>1. \A k \in DOMAIN futures' : futures'[k].x \in Args \cup {h}
      BY <2>6 DEF Args
    <3>2. \A k \in DOMAIN futures : k \in DOMAIN futures' /\ futures'[k].x = futures[k].x
      BY <2>6
    <3>3. Len(futures) + 1 \in DOMAIN futures'
      BY <2>6
    <3>. QED
      BY <2>6, <3>1, <3>2, <3>3 DEF Args
  <2>8. h \notin Args /\ h \notin Range(rest)
    BY <2>3 DEF NodeInv
  <2>9. \A n \in K : n \notin Args \cup Range(traverse)
    BY <2>8 DEF NodeInv
  <2>10. K \cap Range(rest) = {} /\ K \cap (Args \cup {h}) = {} /\ K \subseteq PoolNode
    BY <2>3, <2>9
  <2>11. Range(traverse') = K \cup Range(rest) /\ IsInjective(traverse')
    BY <2>2, <2>3, <2>5, <2>10, ConcatRange
  <2>12. \A k, l \in DOMAIN futures' : futures'[k].x = futures'[l].x => k = l
    <3>1. \A k \in DOMAIN futures : futures[k].x # h
      BY <2>8 DEF Args
    <3>2. \A k, l \in DOMAIN futures : futures[k].x = futures[l].x => k = l
      BY DEF NodeInv
    <3>3. \A k \in DOMAIN futures' : k \in DOMAIN futures \/ k = Len(futures) + 1
      BY <2>6
    <3>. QED
      BY <2>6, <3>1, <3>2, <3>3
  <2>13. ASSUME NEW n \in PoolNode
         PROVE  n \in Args' \cup Range(traverse') <=>
                  (preorder => n = 0 \/ ParentOf(n) \in Args \cup {h})
    <3>1. n \in Args' \cup Range(traverse') <=> n \in Args \cup Range(traverse) \cup K
      BY <2>3, <2>7, <2>11
    <3>2. n \in Args \cup Range(traverse) <=> (preorder => n = 0 \/ ParentOf(n) \in Args)
      BY DEF NodeInv
    <3>. QED
      BY <3>1, <3>2
  <2>. HIDE DEF K
  <2>14. Args' \subseteq PoolNode /\ Range(traverse') \subseteq PoolNode
         /\ Args' \cap Range(traverse') = {}
    BY <2>3, <2>4, <2>7, <2>8, <2>10, <2>11 DEF NodeInv
  <2>15. PoolNode' = PoolNode
    BY DEF PoolNode
  <2>. QED
    BY <2>2, <2>7, <2>11, <2>12, <2>13, <2>14, <2>15 DEF NodeInv, ParentOf
<1>4. ASSUME NEW w \in Pool!Worker, Pool!Execute(w)
      PROVE  NodeInv'
  <2>1. /\ DOMAIN futures' = DOMAIN futures /\ UNCHANGED <<traverse, preorder>>
        /\ futures' = [futures EXCEPT ![task[w]].set = @ + 1] /\ futures \in Seq(Future)
        /\ task[w] \in DOMAIN futures
    BY <1>4, SetFuture DEF Pool!Execute, Pool!main, PoolType
  <2>2. \A k \in DOMAIN futures : futures'[k].x = futures[k].x
    <3>. SUFFICES ASSUME NEW k \in DOMAIN futures
                  PROVE  futures'[k].x = futures[k].x
      OBVIOUS
    <3>1. futures[k] \in Future
      BY <2>1, SeqElement
    <3>2. futures'[k] = IF k = task[w] THEN [futures[k] EXCEPT !.set = @ + 1] ELSE futures[k]
      BY <2>1
    <3>. QED
      BY <3>1, <3>2 DEF Future
  <2>3. Args' = Args
    BY <2>1, <2>2 DEF Args
  <2>. QED
    BY <1>1, <2>1, <2>2, <2>3
<1>5. ASSUME NEW w \in Pool!Worker,
             Pool!Sleep(w) \/ Pool!Return(w) \/ Pool!PopTask(w) \/ Pool!after_task_hook(w)
               \/ Pool!SpuriousWakeup(w)
      PROVE  NodeInv'
  BY <1>2, <1>5 DEF Pool!Sleep, Pool!Return, Pool!PopTask, Pool!after_task_hook,
                    Pool!SpuriousWakeup, Pool!main
<1>6. CASE Pool!notify_one \/ Pool!Submitted \/ Pool!get \/ Pool!Stop \/ Pool!notify_all \/ Pool!join
  BY <1>2, <1>6 DEF Pool!notify_one, Pool!Submitted, Pool!get, Pool!Stop, Pool!notify_all, Pool!join
<1>7. CASE UNCHANGED Pool!vars
  BY <1>2, <1>7 DEF Pool!vars
<1>. QED
  BY <1>3, <1>4, <1>5, <1>6, <1>7 DEF Pool!Next, Pool!Main, Pool!wait_loop

(* main starts with the root, or with all the nodes.                         *)
LEMMA NodeInit ==
  ASSUME Pool!Init
  PROVE  NodeInv
<1>1. Args = {} /\ preorder \in BOOLEAN /\ DOMAIN futures = {}
  BY DEF Pool!Init, Args
<1>2. num_nodes \in Nat \ {0}
  BY PoolAssumption
<1>3. CASE preorder
  <2>1. traverse = <<0>>
    BY <1>3 DEF Pool!Init
  <2>2. Range(traverse) = {0} /\ IsInjective(traverse)
    BY <2>1 DEF Range, IsInjective
  <2>3. 0 \in PoolNode
    BY <1>2 DEF PoolNode
  <2>. QED
    BY <1>1, <1>3, <2>2, <2>3 DEF NodeInv
<1>4. CASE ~preorder
  <2>1. traverse = [k \in 1 .. num_nodes |-> k - 1]
    BY <1>4 DEF Pool!Init
  <2>2. IsInjective(traverse) /\ \A n \in Range(traverse) : n \in PoolNode
    BY <1>2, <2>1 DEF IsInjective, Range, PoolNode
  <2>3. ASSUME NEW n \in PoolNode
        PROVE  n \in Range(traverse)
    <3>1. n + 1 \in DOMAIN traverse /\ traverse[n + 1] = n
      BY <1>2, <2>1 DEF PoolNode
    <3>. QED
      BY <3>1 DEF Range
  <2>. QED
    BY <1>1, <1>4, <2>2, <2>3 DEF NodeInv
<1>. QED
  BY <1>1, <1>3, <1>4

(* When nothing is left to submit, all the nodes are.                        *)
LEMMA AllSubmitted ==
  ASSUME PoolType, NodeInv, traverse = <<>>
  PROVE  Args = PoolNode /\ Len(futures) = num_nodes
<1>1. Range(traverse) = {}
  BY DEF Range
<1>2. Args = PoolNode
  <2>. SUFFICES ASSUME Args # PoolNode
                PROVE  FALSE
    OBVIOUS
  <2>0. Args \subseteq PoolNode /\ PoolNode \subseteq Nat
    BY DEF NodeInv, PoolNode
  <2>1. PoolNode \ Args # {} /\ PoolNode \ Args \in SUBSET Nat
    BY <2>0
  <2>2. PICK n \in PoolNode \ Args : \A k \in PoolNode \ Args : n <= k
    BY <2>1, LeastNatural
  <2>3. preorder /\ n # 0 /\ ParentOf(n) \notin Args
    BY <1>1, <2>2 DEF NodeInv
  <2>4. ParentOf(n) \in PoolNode /\ ParentOf(n) < n /\ n \in Nat
    BY <2>3, PoolAssumption DEF PoolNode, ParentOf
  <2>. QED
    BY <2>2, <2>3, <2>4 DEF PoolNode
<1>3. Len(futures) = num_nodes
  <2>. DEFINE f == [k \in 1 .. Len(futures) |-> futures[k].x]
  <2>1. Len(futures) \in Nat /\ DOMAIN futures = 1 .. Len(futures)
    BY DEF PoolType
  <2>2. f \in Bijection(1 .. Len(futures), PoolNode)
    <3>1. f \in [1 .. Len(futures) -> PoolNode]
      BY <1>2, <2>1 DEF Args
    <3>2. IsInjective(f)
      BY <2>1 DEF NodeInv, IsInjective
    <3>3. \A n \in PoolNode : \E k \in 1 .. Len(futures) : f[k] = n
      BY <1>2, <2>1 DEF Args
    <3>. QED
      BY <3>1, <3>2, <3>3 DEF Bijection, Injection, Surjection, IsInjective
  <2>3. /\ IsFiniteSet(1 .. Len(futures)) /\ Cardinality(1 .. Len(futures)) = Len(futures)
        /\ IsFiniteSet(PoolNode) /\ Cardinality(PoolNode) = num_nodes
    <3>1. num_nodes \in Nat
      BY PoolAssumption
    <3>2. /\ 1 \in Int /\ Len(futures) \in Int /\ 0 \in Int /\ num_nodes - 1 \in Int
      BY <2>1, <3>1
    <3>3. /\ IsFiniteSet(1 .. Len(futures)) /\ IsFiniteSet(0 .. num_nodes - 1)
          /\ Cardinality(1 .. Len(futures)) = (IF 1 > Len(futures) THEN 0 ELSE Len(futures) - 1 + 1)
          /\ Cardinality(0 .. num_nodes - 1)
               = (IF 0 > num_nodes - 1 THEN 0 ELSE num_nodes - 1 - 0 + 1)
      BY <3>2, FS_Interval
    <3>. QED
      BY <2>1, <3>1, <3>3 DEF PoolNode
  <2>4. Cardinality(1 .. Len(futures)) = Cardinality(PoolNode)
    BY <2>2, <2>3, FS_Bijection DEF ExistsBijection
  <2>. QED
    BY <2>3, <2>4
<1>. QED
  BY <1>2, <1>3

(* That is what EveryTaskOnce says.                                          *)
LEMMA PoolOnce ==
  ASSUME PoolInv, NodeInv
  PROVE  Pool!EveryTaskOnce
<1>1. \A k \in DOMAIN futures : futures[k].set <= 1
  BY DEF PoolInv, TaskInv
<1>2. printed = [k \in DOMAIN printed |-> futures[k].x * futures[k].x]
  <2>1. printed \in Seq(Nat) /\ DOMAIN printed = 1 .. Len(printed)
    BY DEF PoolInv, PoolType
  <2>2. printed = [k \in DOMAIN printed |-> printed[k]]
    BY <2>1
  <2>3. \A k \in DOMAIN printed : printed[k] = futures[k].x * futures[k].x
    BY <2>1 DEF PoolInv, PrintInv
  <2>. QED
    BY <2>2, <2>3
<1>3. active_threads = Pool!Cardinality({w \in Pool!Worker : worker[w] \in {"run", "after"}})
  BY PoolCardinality DEF PoolInv, ActiveInv, Inside
<1>4. ASSUME submitter = "end"
      PROVE  {futures[k].x : k \in DOMAIN futures} = 0 .. num_nodes - 1 /\ Len(printed) = num_nodes
  <2>1. traverse = <<>> /\ Len(printed) = Len(futures)
    BY <1>4 DEF PoolInv, PrintInv
  <2>. QED
    BY <2>1, AllSubmitted DEF PoolInv, Args, PoolNode
<1>. QED
  BY <1>1, <1>2, <1>3, <1>4 DEF Pool!EveryTaskOnce, Pool!Done

-----------------------------------------------------------------------------
(* spin-lock.cpp: whoever is past the exchange of the flag is alone there,   *)
(* and what was taken is counted.                                            *)
Spinner == 1 .. num_threads
Locked == {"locked", "take", "unlock", "leave"}

SpinInv ==
  /\ flag \in BOOLEAN /\ counter \in Int
  /\ pc \in [Spinner -> {"test_and_set", "spin", "done"} \cup Locked]
  /\ success \in [Spinner -> Nat]
  /\ \A t \in Spinner : pc[t] \in Locked =>
       flag /\ \A u \in Spinner : pc[u] \in Locked => t = u
  /\ counter + SumOver(success, Spinner) = Supply

(* A unit is taken inside the lock, one at a time.                           *)
LEMMA SpinStep ==
  ASSUME SpinInv, Spin!Next \/ UNCHANGED Spin!vars
  PROVE  SpinInv'
<1>. USE DEF SpinInv, Spin!Go, Locked
<1>1. ASSUME NEW t \in Spinner, Spin!F(t)
      PROVE  SpinInv'
  <2>1. CASE Spin!test_and_set(t)
    BY <2>1 DEF Spin!test_and_set, Spin!Taken
  <2>2. CASE Spin!Spin(t) \/ Spin!Load(t)
    BY <2>2 DEF Spin!Spin, Spin!Load
  <2>3. CASE Spin!Take(t)
    <3>1. /\ success' = [success EXCEPT ![t] = @ + 1] /\ counter' = counter - 1
          /\ flag' = flag /\ pc[t] = "take" /\ pc' = [pc EXCEPT ![t] = "unlock"]
      BY <2>3 DEF Spin!Take
    <3>2. IsFiniteSet(Spinner)
      BY ThreadsAssumption, FS_Interval DEF Spinner
    <3>3. /\ success' \in [Spinner -> Nat] /\ success'[t] = success[t] + 1
          /\ \A u \in Spinner : success[u] \in Int /\ success'[u] \in Int
          /\ \A u \in Spinner \ {t} : success[u] = success'[u]
      BY <3>1
    <3>4. /\ SumOver(success, Spinner) \in Int
          /\ SumOver(success', Spinner) = SumOver(success, Spinner) + (success'[t] - success[t])
      BY <3>2, <3>3, SumChange
    <3>5. counter' + SumOver(success', Spinner) = Supply
      <4>1. PICK a, c, d \in Int : a = SumOver(success, Spinner) /\ c = counter /\ d = success[t]
        BY <3>3, <3>4
      <4>2. SumOver(success', Spinner) = a + 1 /\ counter' = c - 1 /\ c + a = Supply
        BY <3>1, <3>3, <3>4, <4>1
      <4>. QED
        BY <4>2
    <3>6. \A u \in Spinner : pc'[u] \in Locked <=> pc[u] \in Locked
      BY <3>1
    <3>. QED
      BY <3>1, <3>3, <3>5, <3>6
  <2>4. CASE Spin!unlock(t)
    BY <2>4 DEF Spin!unlock
  <2>. QED
    BY <1>1, <2>1, <2>2, <2>3, <2>4 DEF Spin!F
<1>2. CASE UNCHANGED Spin!vars
  BY <1>2 DEF Spin!vars
<1>. QED
  BY <1>1, <1>2 DEF Spin!Next, Spinner

(* The threads start outside, with everything to take.                       *)
LEMMA SpinInit ==
  ASSUME Spin!Init
  PROVE  SpinInv
<1>1. SumOver(success, Spinner) = 0
  <2>1. IsFiniteSet(Spinner)
    BY ThreadsAssumption, FS_Interval DEF Spinner
  <2>2. \A t \in Spinner : success[t] = 0
    BY DEF Spin!Init, Spinner
  <2>. QED
    BY <2>1, <2>2, SumZero
<1>2. /\ pc = [t \in Spinner |-> "test_and_set"] /\ success = [t \in Spinner |-> 0]
      /\ flag = FALSE /\ counter = Supply
  BY DEF Spin!Init, Spinner
<1>3. counter + SumOver(success, Spinner) = Supply
  BY <1>1, <1>2, CountsAssumption
<1>4. /\ pc \in [Spinner -> {"test_and_set", "spin", "done"} \cup Locked]
      /\ \A t \in Spinner : pc[t] \notin Locked
  BY <1>2 DEF Locked
<1>5. success \in [Spinner -> Nat]
  BY <1>2
<1>6. flag \in BOOLEAN
  BY <1>2
<1>7. counter \in Int
  BY <1>2, CountsAssumption
<1>. QED
  BY <1>3, <1>4, <1>5, <1>6, <1>7 DEF SpinInv

(* That is what TakenOnce says.                                              *)
LEMMA SpinTaken ==
  ASSUME SpinInv
  PROVE  Spin!TakenOnce
<1>1. Spin!MapThenSumSet(LAMBDA t : success[t], 1 .. num_threads) = SumOver(success, Spinner)
  BY DEF SumOver, MapThenSumSet, MapThenFoldSet, Spin!MapThenSumSet, Spin!MapThenFoldSet, Spinner
<1>2. Cardinality(Spin!Inside) <= 1
  <2>1. \A t, u \in Spin!Inside : t = u
    BY DEF SpinInv, Spin!Inside, Locked, Spinner
  <2>2. CASE Spin!Inside = {}
    BY <2>2, FS_EmptySet
  <2>3. ASSUME NEW t \in Spin!Inside
        PROVE  Cardinality(Spin!Inside) <= 1
    <3>1. Spin!Inside = {t}
      BY <2>1
    <3>2. Cardinality({t}) = 1
      BY FS_Singleton
    <3>. QED
      BY <3>1, <3>2
  <2>. QED
    BY <2>2, <2>3
<1>3. Spin!Cardinality(Spin!Inside) = Cardinality(Spin!Inside)
  BY DEF Spin!Cardinality, Cardinality, Spin!IsFiniteSet, IsFiniteSet
<1>4. Spin!Inside # {} => flag
  BY DEF SpinInv, Spin!Inside, Locked, Spinner
<1>5. counter + SumOver(success, Spinner) = Supply
  BY DEF SpinInv
<1>. QED
  BY <1>1, <1>2, <1>3, <1>4, <1>5 DEF Spin!TakenOnce

-----------------------------------------------------------------------------
(* atomic_max.cpp: the atomic never becomes less, so that what a thread has  *)
(* loaded is not above it.                                                   *)
MaxInv ==
  /\ maximum \in Nat
  /\ i \in [Maxi!Thread -> Nat] /\ previous \in [Maxi!Thread -> Nat]
  /\ \A t \in Maxi!Thread :
       /\ previous[t] <= maximum
       /\ i[t] >= num_threads => i[t] - num_threads <= maximum

(* A number is left behind when the maximum is not below it.                 *)
LEMMA MaxStep ==
  ASSUME MaxInv, Maxi!Next \/ UNCHANGED Maxi!vars
  PROVE  MaxInv'
<1>. USE ThreadsAssumption DEF MaxInv, Maxi!NextNumber
<1>1. ASSUME NEW t \in Maxi!Thread, Maxi!Load(t) \/ Maxi!Fail(t)
      PROVE  MaxInv'
  BY <1>1 DEF Maxi!Load, Maxi!Fail
<1>2. ASSUME NEW t \in Maxi!Thread, Maxi!Skip(t) \/ Maxi!Exchange(t)
      PROVE  MaxInv'
  <2>1. /\ maximum' \in Nat /\ maximum <= maximum' /\ i[t] <= maximum'
        /\ previous' = previous /\ i' = [i EXCEPT ![t] = @ + num_threads]
    BY <1>2 DEF Maxi!Skip, Maxi!Exchange, Maxi!MayExchange
  <2>2. i' \in [Maxi!Thread -> Nat] /\ i'[t] = i[t] + num_threads
        /\ \A u \in Maxi!Thread \ {t} : i'[u] = i[u]
    BY <2>1
  <2>3. \A u \in Maxi!Thread : previous'[u] <= maximum'
    BY <2>1
  <2>4. \A u \in Maxi!Thread : i'[u] >= num_threads => i'[u] - num_threads <= maximum'
    BY <2>1, <2>2
  <2>. QED
    BY <2>1, <2>2, <2>3, <2>4
<1>3. CASE UNCHANGED Maxi!vars
  BY <1>3 DEF Maxi!vars
<1>. QED
  BY <1>1, <1>2, <1>3 DEF Maxi!Next, Maxi!correct_max

(* No thread has left a number behind.                                       *)
LEMMA MaxInit ==
  ASSUME Maxi!Init
  PROVE  MaxInv
BY ThreadsAssumption DEF MaxInv, Maxi!Init, Maxi!Thread

-----------------------------------------------------------------------------
(* all_pair.cpp: the chunks the threads have are apart from each other and   *)
(* below global_lower; a row in the rest of a chunk is not computed, and a   *)
(* row below global_lower is in one, or computed.                            *)
Holder == 1 .. num_threads
InChunk(t, r) == phase[t] = "compute" /\ row[t] <= r /\ r < lower[t] + chunk_size

PairType ==
  /\ global_lower \in Nat
  /\ lower \in [Holder -> Nat] /\ row \in [Holder -> Nat]
  /\ phase \in [Holder -> {"loop", "read", "add", "compute", "ended"}]
  /\ computed \in [Pairs!Row -> Nat]

ChunkInv ==
  \A t \in Holder :
    /\ phase[t] \in {"read", "add"} => mutex = t
    /\ phase[t] = "add" => lower[t] = global_lower /\ row[t] = global_lower
    /\ phase[t] = "compute" =>
         /\ lower[t] <= row[t] /\ lower[t] + chunk_size <= global_lower
         /\ \A u \in Holder : u # t /\ phase[u] = "compute" =>
              lower[t] + chunk_size <= lower[u] \/ lower[u] + chunk_size <= lower[t]

RowInv ==
  \A r \in Pairs!Row :
    /\ computed[r] <= 1
    /\ r >= global_lower => computed[r] = 0
    /\ \A t \in Holder : InChunk(t, r) => computed[r] = 0
    /\ r < global_lower /\ computed[r] = 0 => \E t \in Holder : InChunk(t, r)

PairInv == PairType /\ ChunkInv /\ RowInv

(* A chunk is taken from global_lower inside the mutex, a row computed by    *)
(* the thread whose chunk it is in.                                          *)
LEMMA PairStep ==
  ASSUME PairInv, Pairs!Next \/ UNCHANGED Pairs!vars
  PROVE  PairInv'
<1>. USE ChunkAssumption DEF PairInv, Pairs!Go, Pairs!Row
<1>1. ASSUME NEW t \in Holder, Pairs!Lock(t)
      PROVE  PairInv'
  <2>1. /\ mutex = free /\ phase[t] = "loop" /\ phase' = [phase EXCEPT ![t] = "read"]
        /\ mutex' = t /\ UNCHANGED <<global_lower, lower, row, computed>>
    BY <1>1 DEF Pairs!Lock, Pairs!Free
  <2>2. PairType'
    BY <2>1 DEF PairType
  <2>3. ChunkInv'
    <3>1. \A u \in Holder : phase[u] \notin {"read", "add"}
      BY <2>1, NobodyAssumption DEF ChunkInv, Holder
    <3>. QED
      BY <2>1, <3>1 DEF ChunkInv, PairType
  <2>4. RowInv'
    BY <2>1 DEF RowInv, InChunk, PairType
  <2>. QED
    BY <2>2, <2>3, <2>4
<1>2. ASSUME NEW t \in Holder, Pairs!ReadLower(t)
      PROVE  PairInv'
  <2>1. /\ phase[t] = "read" /\ phase' = [phase EXCEPT ![t] = "add"]
        /\ lower' = [lower EXCEPT ![t] = global_lower] /\ row' = [row EXCEPT ![t] = global_lower]
        /\ UNCHANGED <<mutex, global_lower, computed>>
    BY <1>2 DEF Pairs!ReadLower
  <2>2. PairType'
    BY <2>1 DEF PairType
  <2>3. /\ phase'[t] = "add" /\ lower'[t] = global_lower /\ row'[t] = global_lower
        /\ \A u \in Holder \ {t} : phase'[u] = phase[u] /\ lower'[u] = lower[u] /\ row'[u] = row[u]
    BY <2>1 DEF PairType
  <2>4. ChunkInv'
    BY <2>1, <2>3 DEF ChunkInv
  <2>5. \A u \in Holder, r \in Pairs!Row : InChunk(u, r)' <=> InChunk(u, r)
    BY <2>1, <2>3 DEF InChunk
  <2>6. RowInv'
    BY <2>1, <2>5 DEF RowInv
  <2>. QED
    BY <2>2, <2>4, <2>6
<1>3. ASSUME NEW t \in Holder, Pairs!AddChunk(t)
      PROVE  PairInv'
  <2>1. /\ phase[t] = "add" /\ phase' = [phase EXCEPT ![t] = "compute"]
        /\ global_lower' = global_lower + chunk_size
        /\ mutex' = free /\ UNCHANGED <<lower, row, computed>>
    BY <1>3 DEF Pairs!AddChunk
  <2>2. PairType'
    BY <2>1 DEF PairType
  <2>3. /\ phase'[t] = "compute" /\ lower[t] = global_lower /\ row[t] = global_lower
        /\ \A u \in Holder \ {t} : phase'[u] = phase[u] /\ phase[u] \notin {"read", "add"}
    BY <2>1 DEF PairType, ChunkInv
  <2>4. ChunkInv'
    BY <2>1, <2>3 DEF ChunkInv, PairType
  <2>5. \A r \in Pairs!Row :
          /\ InChunk(t, r)' <=> global_lower <= r /\ r < global_lower + chunk_size
          /\ ~InChunk(t, r)
          /\ \A u \in Holder \ {t} : InChunk(u, r)' <=> InChunk(u, r)
    BY <2>1, <2>3 DEF InChunk, PairType
  <2>6. RowInv'
    BY <2>1, <2>5 DEF RowInv, PairType
  <2>. QED
    BY <2>2, <2>4, <2>6
<1>4. ASSUME NEW t \in Holder, Pairs!ComputeRow(t)
      PROVE  PairInv'
  <2>. DEFINE r0 == row[t]
  <2>1. /\ phase[t] = "compute" /\ r0 < Pairs!upper(t)
        /\ computed' = [computed EXCEPT ![r0] = @ + 1]
        /\ row' = [row EXCEPT ![t] = r0 + 1]
        /\ UNCHANGED <<mutex, global_lower, lower, phase>>
    BY <1>4 DEF Pairs!ComputeRow
  <2>2. /\ r0 \in Nat /\ r0 < rows /\ r0 < lower[t] + chunk_size /\ InChunk(t, r0)
    BY <2>1 DEF Pairs!upper, PairType, InChunk
  <2>. HIDE DEF r0
  <2>3. r0 \in Pairs!Row /\ computed[r0] = 0 /\ r0 < global_lower /\ lower[t] <= r0
    <3>1. r0 \in Pairs!Row
      BY <2>2
    <3>2. computed[r0] = 0
      BY <2>2, <3>1 DEF RowInv
    <3>3. lower[t] + chunk_size <= global_lower /\ lower[t] <= r0
      BY <2>1 DEF ChunkInv, r0
    <3>. QED
      BY <2>2, <3>1, <3>2, <3>3 DEF PairType
  <2>4. PairType'
    BY <2>1, <2>2, <2>3 DEF PairType
  <2>5. /\ row'[t] = r0 + 1 /\ row[t] = r0
        /\ \A u \in Holder \ {t} : row'[u] = row[u]
        /\ computed'[r0] = 1 /\ \A r \in Pairs!Row \ {r0} : computed'[r] = computed[r]
    BY <2>1, <2>3 DEF PairType, r0
  <2>6. ChunkInv'
    BY <2>1, <2>2, <2>3, <2>5 DEF ChunkInv, PairType
  <2>7. \A r \in Pairs!Row :
          /\ InChunk(t, r)' <=> InChunk(t, r) /\ r # r0
          /\ \A u \in Holder \ {t} : InChunk(u, r)' <=> InChunk(u, r)
    BY <2>1, <2>2, <2>5 DEF InChunk, PairType
  <2>8. ASSUME NEW u \in Holder \ {t}, InChunk(u, r0)
        PROVE  FALSE
    <3>1. /\ phase[u] = "compute" /\ row[u] <= r0 /\ r0 < lower[u] + chunk_size
          /\ lower[u] \in Nat /\ lower[t] \in Nat /\ row[u] \in Nat /\ lower[u] <= row[u]
      BY <2>8 DEF InChunk, PairType, ChunkInv
    <3>2. lower[t] + chunk_size <= lower[u] \/ lower[u] + chunk_size <= lower[t]
      BY <2>1, <3>1 DEF ChunkInv
    <3>. QED
      BY <2>2, <2>3, <3>1, <3>2
  <2>9. ASSUME NEW r \in Pairs!Row
        PROVE  /\ computed'[r] <= 1
               /\ r >= global_lower => computed'[r] = 0
               /\ \A u \in Holder : InChunk(u, r)' => computed'[r] = 0
               /\ r < global_lower /\ computed'[r] = 0 => \E u \in Holder : InChunk(u, r)'
    <3>1. CASE r = r0
      <4>1. computed'[r] = 1 /\ \A u \in Holder : ~InChunk(u, r)'
        BY <2>5, <2>7, <2>8, <3>1
      <4>. QED
        BY <2>3, <3>1, <4>1 DEF PairType
    <3>2. CASE r # r0
      <4>1. computed'[r] = computed[r] /\ \A u \in Holder : InChunk(u, r)' <=> InChunk(u, r)
        BY <2>5, <2>7, <3>2
      <4>. QED
        BY <4>1 DEF RowInv
    <3>. QED
      BY <3>1, <3>2
  <2>10. RowInv'
    BY <2>1, <2>9 DEF RowInv
  <2>. QED
    BY <2>4, <2>6, <2>10
<1>5. ASSUME NEW t \in Holder, Pairs!EndChunk(t) \/ Pairs!End(t)
      PROVE  PairInv'
  <2>1. /\ UNCHANGED <<mutex, global_lower, lower, row, computed>>
        /\ \/ phase[t] = "compute" /\ row[t] >= Pairs!upper(t) /\ phase' = [phase EXCEPT ![t] = "loop"]
           \/ phase[t] = "loop" /\ phase' = [phase EXCEPT ![t] = "ended"]
    BY <1>5 DEF Pairs!EndChunk, Pairs!End
  <2>2. PairType'
    BY <2>1 DEF PairType
  <2>3. /\ phase'[t] \in {"loop", "ended"} /\ phase[t] \in {"loop", "compute"}
        /\ \A u \in Holder \ {t} : phase'[u] = phase[u]
    BY <2>1 DEF PairType
  <2>4. ChunkInv'
    BY <2>1, <2>3 DEF ChunkInv
  <2>5. \A r \in Pairs!Row : ~InChunk(t, r) /\ ~InChunk(t, r)'
    BY <2>1, <2>3 DEF InChunk, Pairs!upper, PairType
  <2>6. \A r \in Pairs!Row, u \in Holder : InChunk(u, r)' <=> InChunk(u, r)
    BY <2>1, <2>3, <2>5 DEF InChunk
  <2>7. RowInv'
    BY <2>1, <2>6 DEF RowInv
  <2>. QED
    BY <2>2, <2>4, <2>7
<1>6. CASE UNCHANGED Pairs!vars
  <2>1. UNCHANGED <<mutex, global_lower, lower, row, phase, computed>>
    BY <1>6 DEF Pairs!vars
  <2>. QED
    BY <2>1 DEF PairType, ChunkInv, RowInv, InChunk
<1>. QED
  BY <1>1, <1>2, <1>3, <1>4, <1>5, <1>6 DEF Pairs!Next, Pairs!dynamic_block_cyclic, Pairs!Thread, Holder

(* Nothing is computed yet, and nobody has a chunk.                          *)
LEMMA PairInit ==
  ASSUME Pairs!Init
  PROVE  PairInv
BY ChunkAssumption DEF PairInv, PairType, ChunkInv, RowInv, InChunk, Pairs!Init, Pairs!Thread, Pairs!Row,
   Holder

(* That is what RowsShared says.                                             *)
LEMMA PairShared ==
  ASSUME PairInv
  PROVE  Pairs!RowsShared
<1>. SUFFICES ASSUME NEW r \in Pairs!Row
              PROVE  /\ computed[r] <= 1
                     /\ r < global_lower /\ computed[r] = 0 =>
                          \E t \in Pairs!Thread :
                            phase[t] \in {"add", "compute"} /\ row[t] <= r /\ r < Pairs!upper(t)
  BY DEF Pairs!RowsShared
<1>1. computed[r] <= 1
  BY DEF PairInv, RowInv
<1>2. ASSUME r < global_lower, computed[r] = 0
      PROVE  \E t \in Pairs!Thread :
                phase[t] \in {"add", "compute"} /\ row[t] <= r /\ r < Pairs!upper(t)
  <2>1. PICK t \in Holder : InChunk(t, r)
    BY <1>2 DEF PairInv, RowInv
  <2>2. r < rows
    BY ChunkAssumption DEF Pairs!Row
  <2>. QED
    BY <2>1, <2>2 DEF InChunk, Pairs!upper, Pairs!Thread, Holder
<1>. QED
  BY <1>1, <1>2

-----------------------------------------------------------------------------
(* The splits of the rows.  A quotient and a remainder are what they are     *)
(* multiplied and added to.                                                  *)
LEMMA Quotient ==
  ASSUME NEW a \in Nat, NEW d \in Nat \ {0}, NEW q \in Nat, NEW e \in 0 .. d - 1, a = d * q + e
  PROVE  a \div d = q /\ a % d = e
<1>1. PICK p, f \in Nat : a \div d = p /\ a % d = f /\ f < d /\ a = d * p + f
  BY Division
<1>2. ASSUME p < q PROVE FALSE
  <2>1. PICK j \in Nat : q = p + 1 + j
    <3>1. q - p - 1 \in Nat /\ q = p + 1 + (q - p - 1)
      BY <1>2
    <3>. QED
      BY <3>1
  <2>2. d * q = d * p + d + d * j /\ d * j \in Nat /\ d * p \in Nat
    BY <2>1
  <2>. QED
    BY <1>1, <2>2
<1>3. ASSUME q < p PROVE FALSE
  <2>1. PICK j \in Nat : p = q + 1 + j
    <3>1. p - q - 1 \in Nat /\ p = q + 1 + (p - q - 1)
      BY <1>3
    <3>. QED
      BY <3>1
  <2>2. d * p = d * q + d + d * j /\ d * j \in Nat /\ d * q \in Nat
    BY <2>1
  <2>. QED
    BY <1>1, <2>2
<1>4. p = q
  BY <1>2, <1>3
<1>5. d * q \in Nat
  OBVIOUS
<1>. QED
  BY <1>1, <1>4, <1>5

(* The lesser of two numbers.                                                *)
LEMMA Lesser ==
  ASSUME NEW x \in Int, NEW y \in Int
  PROVE  Rows!Min({x, y}) = IF x <= y THEN x ELSE y
BY DEF Rows!Min

(* A call, and the rows it is about.                                         *)
Width(s) == 0 .. s.m - 1

(* The numbers of a call.                                                   *)
LEMMA CallType ==
  ASSUME NEW s \in RowCalls
  PROVE  /\ s.m \in Int /\ s.n \in Nat /\ s.chunk_size \in Nat \ {0}
         /\ s.kind \in {"cyclic", "falsesharing", "block", "block_cyclic", "all_pairs", "omp_all_pair"}
         /\ s.kind \in {"cyclic", "falsesharing", "block", "block_cyclic"} => s.m \in Nat /\ s.n \in {2, 4}
BY ChunkAssumption DEF RowCalls

(* The thread a row belongs to.                                              *)
Owns(s, given, own) ==
  /\ \A r \in Width(s) : own[r] \in Rows!Thread
  /\ \A t \in Rows!Thread : given[t] = {r \in Width(s) : own[r] = t}

(* Row r belongs to thread r mod num_threads.                               *)
LEMMA CyclicOwner ==
  ASSUME NEW s \in RowCalls
  PROVE  Owns(s, [t \in Rows!Thread |-> Rows!cyclic(t, s)], [r \in Width(s) |-> r % num_threads])
<1>1. \A r \in Width(s) : r \in Nat
  BY DEF Width
<1>2. \A r \in Width(s) : r % num_threads \in Rows!Thread
  BY <1>1, Division, ThreadsAssumption DEF Rows!Thread
<1>. QED
  BY <1>2 DEF Owns, Rows!cyclic, Width

(* One block for each thread.                                               *)
LEMMA BlockOwner ==
  ASSUME NEW s \in RowCalls, s.kind = "block"
  PROVE  LET chunk == Rows!SDIV(s.m, num_threads)
         IN  Owns(s, [t \in Rows!Thread |-> Rows!block(t, s)], [r \in Width(s) |-> r \div chunk])
<1>. DEFINE chunk == Rows!SDIV(s.m, num_threads)
            T == num_threads
            m == s.m
<1>1. T \in Nat \ {0} /\ m \in Nat /\ m + T - 1 \in Nat
  BY ThreadsAssumption, CallType
<1>2. chunk = (m + T - 1) \div T
  BY DEF Rows!SDIV
<1>3. PICK e \in 0 .. T - 1 : chunk \in Nat /\ m + T - 1 = T * chunk + e
  BY <1>1, <1>2, Division
<1>. HIDE DEF chunk, T, m
<1>4. T * chunk >= m /\ T * chunk \in Nat
  BY <1>1, <1>3
<1>4a. \A r \in Width(s) : r \in Nat /\ r < m
  BY <1>1 DEF Width, m
<1>5. ASSUME NEW r \in Width(s)
      PROVE  chunk \in Nat \ {0} /\ r \div chunk \in Rows!Thread
  <2>1. r \in Nat /\ r < m
    BY <1>4a
  <2>2. chunk # 0
    <3>. SUFFICES ASSUME chunk = 0 PROVE FALSE
      OBVIOUS
    <3>1. T * chunk = 0
      BY <1>1
    <3>. QED
      BY <1>1, <1>4, <2>1, <3>1
  <2>3. r < T * chunk
    BY <1>1, <1>4, <2>1
  <2>4. r \div chunk < T /\ r \div chunk \in Nat
    BY <1>1, <1>3, <2>1, <2>2, <2>3, QuotientBound, Division
  <2>. QED
    BY <1>1, <1>3, <2>2, <2>4 DEF Rows!Thread, T
<1>6. ASSUME NEW t \in Rows!Thread
      PROVE  Rows!block(t, s) = {r \in Width(s) : r \div chunk = t}
  <2>1. t \in Nat /\ t * chunk \in Nat /\ t * chunk = chunk * t
    BY <1>3 DEF Rows!Thread
  <2>2. Rows!block(t, s) = t * chunk .. Rows!Min({t * chunk + chunk, m}) - 1
    BY DEF Rows!block, Rows!Block, chunk, m
  <2>. DEFINE lo == t * chunk
  <2>. HIDE DEF lo
  <2>3. Rows!Min({lo + chunk, m}) = IF lo + chunk <= m THEN lo + chunk ELSE m
    BY <1>1, <1>3, <2>1, Lesser DEF lo
  <2>4. \A r \in Int : r \in Rows!block(t, s) <=> lo <= r /\ r < lo + chunk /\ r < m
    <3>1. lo \in Nat /\ m \in Nat /\ chunk \in Nat
      BY <1>1, <1>3, <2>1 DEF lo
    <3>. QED
      BY <2>2, <2>3, <3>1 DEF lo
  <2>5. Rows!block(t, s) \subseteq Int
    BY <2>2
  <2>6. ASSUME NEW r \in Width(s), lo <= r, r < lo + chunk
        PROVE  r \div chunk = t
    <3>1. r \in Nat /\ r - lo \in 0 .. chunk - 1 /\ r = chunk * t + (r - lo)
      BY <1>3, <2>1, <2>6 DEF Width, lo
    <3>. QED
      BY <1>5, <2>1, <3>1, Quotient
  <2>7. ASSUME NEW r \in Width(s), r \div chunk = t
        PROVE  lo <= r /\ r < lo + chunk
    <3>0. r \in Nat /\ chunk \in Nat \ {0}
      BY <1>4a, <1>5
    <3>1. r \in Nat /\ r = chunk * t + (r % chunk) /\ r % chunk \in 0 .. chunk - 1
      BY <2>7, <3>0, Division
    <3>2. PICK f \in 0 .. chunk - 1 : r = lo + f
      BY <2>1, <3>1 DEF lo
    <3>. QED
      BY <1>3, <2>1, <3>1, <3>2 DEF lo
  <2>8. \A r \in Int : r \in Width(s) <=> 0 <= r /\ r < m
    BY <1>1 DEF Width, m
  <2>9. lo >= 0
    BY <2>1 DEF lo
  <2>10. \A r \in Rows!block(t, s) : r \in Width(s) /\ r \div chunk = t
    <3>1. \A r \in Rows!block(t, s) : r \in Int /\ lo <= r /\ r < lo + chunk /\ r < m
      BY <2>4, <2>5
    <3>2. \A r \in Rows!block(t, s) : r \in Width(s)
      BY <2>1, <2>8, <2>9, <3>1 DEF lo
    <3>. QED
      BY <2>6, <3>1, <3>2
  <2>11. \A r \in Width(s) : r \div chunk = t => r \in Rows!block(t, s)
    <3>1. \A r \in Width(s) : r \in Int /\ r < m
      BY <1>4a
    <3>. QED
      BY <2>4, <2>7, <3>1
  <2>. QED
    BY <2>10, <2>11
<1>. QED
  BY <1>5, <1>6 DEF Owns, chunk

(* The blocks go round the threads.                                         *)
LEMMA BlockCyclicOwner ==
  ASSUME NEW s \in RowCalls
  PROVE  Owns(s, [t \in Rows!Thread |-> Rows!block_cyclic(t, s)],
                 [r \in Width(s) |-> (r \div s.chunk_size) % num_threads])
<1>. DEFINE c == s.chunk_size
            T == num_threads
            m == s.m
<1>1. T \in Nat \ {0} /\ c \in Nat \ {0} /\ m \in Int
  BY ThreadsAssumption, CallType
<1>1a. \A r \in Width(s) : r \in Nat /\ r < m
  BY <1>1 DEF Width
<1>. HIDE DEF c, T, m
<1>2. ASSUME NEW r \in Width(s)
      PROVE  (r \div c) % T \in Rows!Thread
  <2>1. r \div c \in Nat
    BY <1>1, <1>1a, Division
  <2>. QED
    BY <1>1, <2>1, Division DEF Rows!Thread, T
<1>3. ASSUME NEW t \in Rows!Thread
      PROVE  Rows!block_cyclic(t, s) = {r \in Width(s) : (r \div c) % T = t}
  <2>. DEFINE stride == T * c
              offset == t * c
              lowers == {low \in offset .. m - 1 : (low - offset) % stride = 0}
              Of(low) == low .. Rows!Min({low + c, m}) - 1
  <2>1. t \in Nat /\ t < T /\ stride \in Nat \ {0} /\ offset \in Nat /\ offset = c * t
    <3>1. t \in Nat /\ t < T
      BY <1>1 DEF Rows!Thread, T
    <3>2. \A x, y \in Nat : x * y \in Nat /\ x * y = y * x
      OBVIOUS
    <3>3. \A x, y \in Nat \ {0} : x * y # 0
      OBVIOUS
    <3>. QED
      BY <1>1, <3>1, <3>2, <3>3
  <2>2. Rows!block_cyclic(t, s) = UNION {Of(low) : low \in lowers}
    BY DEF Rows!block_cyclic, Rows!Block, c, T, m
  <2>3. \A low \in Nat, r \in Int : r \in Of(low) <=> low <= r /\ r < low + c /\ r < m
    <3>1. \A low \in Nat : Rows!Min({low + c, m}) = IF low + c <= m THEN low + c ELSE m
      BY <1>1, Lesser
    <3>. QED
      BY <1>1, <3>1
  <2>4. lowers \subseteq Nat /\ \A low \in lowers : Of(low) \subseteq Int
    BY <2>1
  <2>5. ASSUME NEW low \in lowers, NEW r \in Of(low)
        PROVE  r \in Width(s) /\ (r \div c) % T = t
    <3>0. r \in Int /\ low \in Nat /\ low <= r /\ r < low + c /\ r < m
      BY <2>3, <2>4, <2>5
    <3>1. r \in Nat /\ r \in Width(s)
      BY <1>1, <3>0 DEF Width, m
    <3>2. PICK j \in Nat : low - offset = stride * j
      <4>1. low - offset \in Nat /\ (low - offset) % stride = 0
        BY <2>1, <3>0
      <4>2. PICK a, k \in Nat : a = low - offset /\ k = a \div stride /\ a = stride * k + (a % stride)
        BY <2>1, <4>1, Division
      <4>3. a % stride = 0
        BY <4>1, <4>2
      <4>4. stride * k \in Nat
        BY <2>1
      <4>. QED
        BY <4>2, <4>3, <4>4
    <3>3. stride * j = c * (T * j) /\ c * (t + T * j) = c * t + c * (T * j) /\ T * j \in Nat
      BY <1>1, <2>1
    <3>4. PICK q \in Nat : q = t + T * j /\ low = c * q
      <4>1. c * t \in Nat /\ c * (T * j) \in Nat
        BY <1>1, <2>1, <3>3
      <4>. QED
        BY <2>1, <3>0, <3>2, <3>3, <4>1
    <3>5. r - low \in 0 .. c - 1 /\ r = c * q + (r - low)
      BY <1>1, <3>0, <3>4
    <3>6. r \div c = q
      BY <1>1, <3>1, <3>5, Quotient
    <3>7. q % T = t
      <4>1. q = T * j + t /\ t \in 0 .. T - 1
        BY <1>1, <2>1, <3>3, <3>4
      <4>. QED
        BY <1>1, <4>1, Quotient
    <3>. QED
      BY <3>1, <3>6, <3>7
  <2>6. ASSUME NEW r \in Width(s), (r \div c) % T = t
        PROVE  \E low \in lowers : r \in Of(low)
    <3>1. r \in Nat /\ r < m
      BY <1>1 DEF Width, m
    <3>2. PICK q \in Nat, e \in 0 .. c - 1 : q = r \div c /\ r = c * q + e
      <4>1. r \div c \in Nat /\ r % c \in 0 .. c - 1 /\ r = c * (r \div c) + (r % c)
        BY <1>1, <3>1, Division
      <4>. QED
        BY <4>1
    <3>3. PICK j \in Nat : q = T * j + t
      BY <1>1, <2>6, <3>2, Division
    <3>4. c * q = stride * j + offset /\ stride * j \in Nat /\ c * q \in Nat
      <4>1. c * (T * j + t) = (T * c) * j + c * t
        BY <1>1, <2>1
      <4>2. (T * c) * j \in Nat /\ c * q \in Nat
        BY <1>1, <2>1
      <4>. QED
        BY <2>1, <3>3, <4>1, <4>2
    <3>. DEFINE low == c * q
                d == low - offset
    <3>5. d = stride * j + 0 /\ d \in Nat /\ 0 \in 0 .. stride - 1 /\ low \in Nat
      BY <2>1, <3>4
    <3>6. d % stride = 0
      <4>. HIDE DEF d, stride
      <4>. QED
        BY <2>1, <3>5, Quotient
    <3>7. low <= r /\ r < low + c
      <4>. HIDE DEF low
      <4>. QED
        BY <1>1, <3>2, <3>5 DEF low
    <3>8. low \in offset .. m - 1
      <4>. HIDE DEF low, offset
      <4>1. low - offset \in Nat
        BY <3>5
      <4>. QED
        BY <1>1, <2>1, <3>1, <3>5, <3>7, <4>1
    <3>9. low \in lowers
      BY <3>6, <3>8
    <3>10. r \in Of(low)
      BY <2>3, <3>1, <3>5, <3>7
    <3>. QED
      BY <3>9, <3>10
  <2>. HIDE DEF Of, lowers
  <2>. QED
    BY <2>2, <2>5, <2>6
<1>. QED
  BY <1>2, <1>3 DEF Owns, c, T

(* Whatever the function called, the rows are shared out.                    *)
LEMMA SplitOwner ==
  ASSUME NEW s \in RowCalls, NEW given \in Rows!Splits(s)
  PROVE  \E own : Owns(s, given, own)
<1>1. CASE s.kind \in {"cyclic", "falsesharing"}
  BY <1>1, CyclicOwner DEF Rows!Splits
<1>2. CASE s.kind = "block"
  BY <1>2, BlockOwner DEF Rows!Splits
<1>3. CASE s.kind \in {"block_cyclic", "all_pairs"}
  BY <1>3, BlockCyclicOwner DEF Rows!Splits
<1>4. CASE s.kind = "omp_all_pair"
  <2>1. given \in Rows!Scheduled(s)
    BY <1>4 DEF Rows!Splits
  <2>2. PICK to \in [Width(s) -> Rows!Thread] :
          given = [t \in Rows!Thread |-> {r \in Width(s) : to[r] = t}]
    BY <2>1 DEF Rows!Scheduled, Width
  <2>3. Owns(s, given, to)
    BY <2>2 DEF Owns
  <2>. QED
    BY <2>3
<1>. QED
  BY <1>1, <1>2, <1>3, <1>4, CallType

-----------------------------------------------------------------------------
(* The terms of the product of row r and the vector.                         *)
Terms(r) == [c \in Int |-> Rows!A(r, c) * Rows!x(c)]
Partly(r, c) == SumOver(Terms(r), 0 .. c - 1)

(* Row r has ones up to the diagonal.                                        *)
LEMMA TermIs ==
  ASSUME NEW r \in Int, NEW c \in Int
  PROVE  Terms(r)[c] = IF r >= c THEN c ELSE 0
BY DEF Terms, Rows!A, Rows!x

(* The sum, column by column.                                                *)
LEMMA NextTerm ==
  ASSUME NEW r \in Int, NEW c \in Nat
  PROVE  /\ Partly(r, 0) = 0 /\ Partly(r, c) \in Int
         /\ Partly(r, c + 1) = Partly(r, c) + Terms(r)[c]
<1>1. 0 .. 0 - 1 = {} /\ 0 .. (c + 1) - 1 = (0 .. c - 1) \cup {c} /\ c \notin 0 .. c - 1
  OBVIOUS
<1>2. IsFiniteSet(0 .. c - 1) /\ IsFiniteSet(0 .. (c + 1) - 1)
  BY FS_Interval
<1>3. \A x \in 0 .. (c + 1) - 1 : Terms(r)[x] \in Int
  BY TermIs
<1>4. SumOver(Terms(r), 0 .. c - 1) \in Int
  BY <1>1, <1>2, <1>3, SumType
<1>5. (0 .. (c + 1) - 1) \ {c} = 0 .. c - 1 /\ c \in 0 .. (c + 1) - 1
  BY <1>1
<1>6. SumOver(Terms(r), 0 .. (c + 1) - 1) = Terms(r)[c] + SumOver(Terms(r), (0 .. (c + 1) - 1) \ {c})
  BY <1>2, <1>3, <1>5, SumRemove
<1>7. Terms(r)[c] \in Int
  BY TermIs
<1>8. Partly(r, c + 1) = Terms(r)[c] + Partly(r, c)
  BY <1>5, <1>6 DEF Partly
<1>. QED
  BY <1>1, <1>4, <1>7, <1>8, SumEmpty DEF Partly

(* Twice the sum of the first numbers.                                       *)
LEMMA Triangle ==
  ASSUME NEW r \in Nat, NEW n \in Nat
  PROVE  2 * Partly(r, n) = IF r < n THEN r * (r + 1) ELSE n * (n - 1)
<1>. DEFINE Holds(c) == 2 * Partly(r, c) = IF r < c THEN r * (r + 1) ELSE c * (c - 1)
            C == {c \in Nat : ~Holds(c)}
<1>. SUFFICES ASSUME C # {} PROVE FALSE
  OBVIOUS
<1>1. PICK c \in C : \A k \in C : c <= k
  BY LeastNatural
<1>2. c \in Nat /\ ~Holds(c)
  OBVIOUS
<1>3. c # 0
  <2>1. Partly(r, 0) = 0
    BY NextTerm
  <2>. QED
    BY <1>2, <2>1
<1>4. PICK d \in Nat : c = d + 1
  <2>1. c - 1 \in Nat /\ c = (c - 1) + 1
    BY <1>2, <1>3
  <2>. QED
    BY <2>1
<1>5. Holds(d)
  <2>1. d \notin C
    BY <1>1, <1>4
  <2>. QED
    BY <2>1
<1>. HIDE DEF C, Holds
<1>6. PICK p, q \in Int : p = Partly(r, d) /\ q = Partly(r, d + 1) /\ q = p + (IF r >= d THEN d ELSE 0)
  <2>1. Partly(r, d) \in Int /\ Terms(r)[d] = (IF r >= d THEN d ELSE 0)
        /\ Partly(r, d + 1) = Partly(r, d) + Terms(r)[d]
    BY NextTerm, TermIs
  <2>. QED
    BY <2>1
<1>7. CASE r < d
  <2>1. 2 * p = r * (r + 1) /\ q = p /\ r < d + 1
    BY <1>5, <1>6, <1>7 DEF Holds
  <2>. QED
    BY <1>2, <1>4, <1>6, <2>1 DEF Holds
<1>8. CASE ~(r < d)
  <2>1. 2 * p = d * (d - 1) /\ q = p + d
    BY <1>5, <1>6, <1>8 DEF Holds
  <2>2. 2 * q = (d + 1) * d
    <3>1. (d + 1) * d = d * (d - 1) + 2 * d
      OBVIOUS
    <3>2. d * (d - 1) \in Int
      OBVIOUS
    <3>. QED
      BY <2>1, <3>1, <3>2
  <2>3. CASE r < d + 1
    <3>1. r = d
      BY <1>8, <2>3
    <3>2. r * (r + 1) = (d + 1) * d
      BY <3>1
    <3>. QED
      BY <1>2, <1>4, <1>6, <2>2, <2>3, <3>2 DEF Holds
  <2>4. CASE ~(r < d + 1)
    <3>1. c * (c - 1) = (d + 1) * d
      BY <1>4
    <3>. QED
      BY <1>2, <1>4, <1>6, <2>2, <2>4, <3>1 DEF Holds
  <2>. QED
    BY <2>3, <2>4
<1>. QED
  BY <1>7, <1>8

(* So the program's check is right, for rows and columns of any number.      *)
LEMMA CheckIsRight ==
  ASSUME NEW r \in Nat, split.n \in Nat
  PROVE  Partly(r, split.n) = Rows!check(r)
<1>. DEFINE n == split.n
            p == IF r < n THEN r * (r + 1) ELSE n * (n - 1)
            sum == Partly(r, n)
<1>1. Rows!check(r) = p \div 2
  BY DEF Rows!check
<1>. HIDE DEF n
<1>2. n \in Nat /\ r \in Int
  BY DEF n
<1>3. sum \in Int
  BY <1>2, NextTerm
<1>4. 2 * sum = p
  BY <1>2, Triangle
<1>. HIDE DEF p, sum
<1>5. \A k \in Int : (2 * k) \div 2 = k
  OBVIOUS
<1>6. p \div 2 = sum
  BY <1>3, <1>4, <1>5
<1>. QED
  BY <1>1, <1>6 DEF n, sum

(* accum adds up the terms.                                                  *)
LEMMA AccumIs ==
  ASSUME NEW r \in Nat, split.n \in Nat
  PROVE  Rows!accum(r) = Rows!check(r)
<1>1. 0 .. split.n - 1 \in SUBSET Int
  OBVIOUS
<1>2. Rows!accum(r) = SumOver(Terms(r), 0 .. split.n - 1)
  BY <1>1 DEF Rows!accum, Rows!MapThenSumSet, Rows!MapThenFoldSet, SumOver, MapThenSumSet, MapThenFoldSet,
         Terms
<1>. QED
  BY <1>2, CheckIsRight DEF Partly

-----------------------------------------------------------------------------
(* matrix_vector.cpp, all_pair.cpp, omp_all_pair.cpp: the rows the threads   *)
(* still have are apart, a row nobody has is in the result, and a row that   *)
(* is summed in the result has the terms so far.                             *)
Value(cell) == IF Rows!OfPairs THEN Rows!dist(cell) ELSE Rows!check(cell[1])

RowsType ==
  /\ split \in RowCalls
  /\ left \in [Rows!Thread -> SUBSET Width(split)]
  /\ col \in [Rows!Thread -> Int]
  /\ DOMAIN b = UNION {Rows!Cells(r) : r \in Width(split)}
  /\ \A t \in Rows!Thread :
       IF split.kind = "falsesharing" THEN col[t] \in -1 .. split.n /\ (col[t] # -1 => left[t] # {})
       ELSE col[t] = -1

ApartInv == \A t, u \in Rows!Thread : t # u => left[t] \cap left[u] = {}

ReadyInv ==
  \A r \in Width(split) : (\A t \in Rows!Thread : r \notin left[t]) =>
    \A cell \in Rows!Cells(r) : b[cell] = Value(cell)

SumInv ==
  \A t \in Rows!Thread : col[t] # -1 => b[<< Rows!Row(t) >>] = Partly(Rows!Row(t), col[t])

RowsInv == RowsType /\ ApartInv /\ ReadyInv /\ SumInv

(* A thread's row is one it has.                                             *)
LEMMA RowOf ==
  ASSUME RowsType, NEW t \in Rows!Thread, left[t] # {}
  PROVE  Rows!Row(t) \in left[t] /\ Rows!Row(t) \in Width(split) /\ Rows!Row(t) \in Nat
<1>1. left[t] \subseteq Width(split) /\ Width(split) \subseteq Nat
  BY DEF RowsType, Width
<1>2. \E r \in left[t] : \A k \in left[t] : r <= k
  BY <1>1, LeastNatural
<1>3. Rows!Row(t) \in left[t]
  BY <1>2 DEF Rows!Row, Rows!Min
<1>. QED
  BY <1>1, <1>3

(* The cells of a matrix-vector product are the rows.                        *)
LEMMA CellOf ==
  ASSUME ~Rows!OfPairs, NEW r
  PROVE  Rows!Cells(r) = {<< r >>} /\ \A q : << q >> = << r >> => q = r
<1>1. \A q : << q >>[1] = q
  OBVIOUS
<1>. QED
  BY <1>1 DEF Rows!Cells

(* The thread has written its whole row.                                     *)
LEMMA RowEnds ==
  ASSUME RowsInv, NEW t \in Rows!Thread, left[t] # {},
         left' = [left EXCEPT ![t] = @ \ {Rows!Row(t)}], split' = split,
         col' \in [Rows!Thread -> Int], col'[t] = -1,
         \A u \in Rows!Thread \ {t} : col'[u] = col[u],
         DOMAIN b' = DOMAIN b,
         \A cell \in Rows!Cells(Rows!Row(t)) : b'[cell] = Value(cell),
         \A cell \in DOMAIN b : b'[cell] = b[cell] \/ b'[cell] = Value(cell),
         \A u \in Rows!Thread \ {t} : col[u] # -1 => b'[<< Rows!Row(u) >>] = b[<< Rows!Row(u) >>]
  PROVE  RowsInv'
<1>. DEFINE r0 == Rows!Row(t)
<1>1. r0 \in left[t] /\ r0 \in Width(split)
  BY RowOf DEF RowsInv
<1>. HIDE DEF r0
<1>2. /\ left' \in [Rows!Thread -> SUBSET Width(split)] /\ left'[t] = left[t] \ {r0}
      /\ \A u \in Rows!Thread \ {t} : left'[u] = left[u]
  BY DEF RowsInv, RowsType, r0
<1>3. RowsType'
  <2>1. ASSUME NEW u \in Rows!Thread
        PROVE  IF split.kind = "falsesharing" THEN col'[u] \in -1 .. split.n /\ (col'[u] # -1 => left'[u] # {})
               ELSE col'[u] = -1
    <3>1. CASE u = t
      <4>1. split.n \in Nat
        BY CallType DEF RowsInv, RowsType
      <4>. QED
        BY <3>1, <4>1
    <3>2. CASE u # t
      BY <1>2, <3>2 DEF RowsInv, RowsType
    <3>. QED
      BY <3>1, <3>2
  <2>2. Width(split)' = Width(split) /\ \A r : Rows!Cells(r)' = Rows!Cells(r)
    BY DEF Width, Rows!Cells, Rows!OfPairs
  <2>3. DOMAIN b' = (UNION {Rows!Cells(r) : r \in Width(split)})'
    BY <2>2 DEF RowsInv, RowsType
  <2>. QED
    BY <1>2, <2>1, <2>2, <2>3 DEF RowsInv, RowsType
<1>4. ApartInv'
  BY <1>2 DEF RowsInv, ApartInv
<1>5. \A cell : Value(cell)' = Value(cell)
  BY DEF Value, Rows!OfPairs, Rows!dist, Rows!check
<1>6. ReadyInv'
  <2>. SUFFICES ASSUME NEW r \in Width(split), \A u \in Rows!Thread : r \notin left'[u],
                       NEW cell \in Rows!Cells(r)
                PROVE  b'[cell] = Value(cell)
    BY <1>5 DEF ReadyInv, Width, Rows!Cells, Rows!OfPairs
  <2>1. CASE r = r0
    BY <2>1 DEF r0
  <2>2. CASE r # r0
    <3>1. \A u \in Rows!Thread : r \notin left[u]
      BY <1>2, <2>2
    <3>2. b[cell] = Value(cell)
      BY <3>1 DEF RowsInv, ReadyInv
    <3>3. cell \in DOMAIN b
      BY DEF RowsInv, RowsType
    <3>. QED
      BY <3>2, <3>3
  <2>. QED
    BY <2>1, <2>2
<1>7. SumInv'
  <2>. SUFFICES ASSUME NEW u \in Rows!Thread, col'[u] # -1
                PROVE  b'[<< Rows!Row(u)' >>] = Partly(Rows!Row(u)', col'[u])
    BY DEF SumInv, Partly, Terms
  <2>1. u # t /\ col[u] # -1 /\ col'[u] = col[u]
    OBVIOUS
  <2>2. Rows!Row(u)' = Rows!Row(u)
    BY <1>2, <2>1 DEF Rows!Row
  <2>. QED
    BY <2>1, <2>2 DEF RowsInv, SumInv
<1>. QED
  BY <1>3, <1>4, <1>6, <1>7 DEF RowsInv

(* Nothing that the invariant speaks of has changed.                         *)
LEMMA RowsQuiet ==
  ASSUME RowsInv, UNCHANGED Rows!vars
  PROVE  RowsInv'
<1>1. split' = split /\ left' = left /\ col' = col /\ b' = b
  BY DEF Rows!vars
<1>2. /\ Width(split)' = Width(split)
      /\ \A r : Rows!Cells(r)' = Rows!Cells(r)
      /\ \A cell : Value(cell)' = Value(cell)
  BY <1>1 DEF Width, Value, Rows!Cells, Rows!OfPairs, Rows!dist, Rows!check
<1>3. RowsType'
  <2>1. DOMAIN b' = (UNION {Rows!Cells(r) : r \in Width(split)})'
    BY <1>1, <1>2 DEF RowsInv, RowsType
  <2>. QED
    BY <1>1, <1>2, <2>1 DEF RowsInv, RowsType
<1>4. ApartInv'
  BY <1>1 DEF RowsInv, ApartInv
<1>5. ReadyInv'
  BY <1>1, <1>2 DEF RowsInv, ReadyInv
<1>6. SumInv'
  <2>1. \A t : Rows!Row(t)' = Rows!Row(t)
    BY <1>1 DEF Rows!Row
  <2>. SUFFICES ASSUME NEW t \in Rows!Thread, col[t] # -1
                PROVE  b[<< Rows!Row(t) >>] = Partly(Rows!Row(t), col[t])
    BY <1>1, <2>1 DEF SumInv, Partly, Terms
  <2>. QED
    BY DEF RowsInv, SumInv
<1>. QED
  BY <1>3, <1>4, <1>5, <1>6 DEF RowsInv

(* Every step of the splits.                                                 *)
LEMMA RowsStep ==
  ASSUME RowsInv, Rows!Next \/ UNCHANGED Rows!vars
  PROVE  RowsInv'
<1>0. /\ split \in RowCalls /\ split.n \in Nat /\ split.m \in Int
      /\ col \in [Rows!Thread -> Int]
      /\ split.kind = "falsesharing" => ~Rows!OfPairs
  <2>1. split \in RowCalls /\ col \in [Rows!Thread -> Int]
    BY DEF RowsInv, RowsType
  <2>. QED
    BY <2>1, CallType DEF Rows!OfPairs
<1>1. ASSUME NEW t \in Rows!Thread, Rows!Write(t)
      PROVE  RowsInv'
  <2>. DEFINE r0 == Rows!Row(t)
  <2>1. /\ split.kind # "falsesharing" /\ left[t] # {} /\ UNCHANGED <<split, col>>
        /\ left' = [left EXCEPT ![t] = @ \ {Rows!Row(t)}]
        /\ b' = [cell \in DOMAIN b |->
                  IF cell \notin Rows!Cells(r0) THEN b[cell]
                  ELSE IF Rows!OfPairs THEN Rows!dist(cell) ELSE Rows!accum(r0)]
    BY <1>1 DEF Rows!Write
  <2>2. r0 \in Width(split) /\ r0 \in Nat
    BY <2>1, RowOf DEF RowsInv
  <2>. HIDE DEF r0
  <2>3. \A cell \in Rows!Cells(r0) :
          (IF Rows!OfPairs THEN Rows!dist(cell) ELSE Rows!accum(r0)) = Value(cell)
    <3>1. CASE Rows!OfPairs
      BY <3>1 DEF Value
    <3>2. CASE ~Rows!OfPairs
      <4>1. Rows!Cells(r0) = {<< r0 >>} /\ << r0 >>[1] = r0
        BY <3>2, CellOf
      <4>2. Rows!accum(r0) = Rows!check(r0)
        BY <1>0, <2>2, AccumIs
      <4>. QED
        BY <3>2, <4>1, <4>2 DEF Value
    <3>. QED
      BY <3>1, <3>2
  <2>4. Rows!Cells(r0) \subseteq DOMAIN b
    BY <2>2 DEF RowsInv, RowsType
  <2>5. /\ DOMAIN b' = DOMAIN b
        /\ \A cell \in Rows!Cells(r0) : b'[cell] = Value(cell)
        /\ \A cell \in DOMAIN b : b'[cell] = b[cell] \/ b'[cell] = Value(cell)
    BY <2>1, <2>3, <2>4
  <2>6. \A u \in Rows!Thread : col[u] = -1
    BY <2>1 DEF RowsInv, RowsType
  <2>7. /\ col' \in [Rows!Thread -> Int] /\ col'[t] = -1
        /\ \A u \in Rows!Thread \ {t} : col'[u] = col[u]
    BY <1>0, <2>1, <2>6
  <2>. QED
    BY <2>1, <2>5, <2>6, <2>7, RowEnds DEF r0
<1>2. ASSUME NEW t \in Rows!Thread, Rows!Clear(t) \/ Rows!Add(t)
      PROVE  RowsInv'
  <2>. DEFINE r0 == Rows!Row(t)
              c1 == IF Rows!Clear(t) THEN 0 ELSE col[t] + 1
  <2>1. /\ split.kind = "falsesharing" /\ left[t] # {} /\ c1 \in 0 .. split.n
        /\ UNCHANGED <<split, left>>
        /\ col' = [col EXCEPT ![t] = c1]
        /\ b' = [b EXCEPT ![<< r0 >>] = IF Rows!Clear(t) THEN 0
                                        ELSE @ + Rows!A(r0, col[t]) * Rows!x(col[t])]
    <3>1. CASE Rows!Clear(t)
      BY <1>0, <3>1 DEF Rows!Clear
    <3>2. CASE Rows!Add(t) /\ ~Rows!Clear(t)
      <4>1. /\ col[t] \in 0 .. split.n - 1 /\ UNCHANGED <<split, left>>
            /\ col' = [col EXCEPT ![t] = @ + 1]
            /\ b' = [b EXCEPT ![<< r0 >>] = @ + Rows!A(r0, col[t]) * Rows!x(col[t])]
        BY <3>2 DEF Rows!Add
      <4>2. col[t] # -1
        BY <4>1
      <4>3. split.kind = "falsesharing" /\ left[t] # {}
        BY <4>2 DEF RowsInv, RowsType
      <4>. QED
        BY <1>0, <3>2, <4>1, <4>3
    <3>. QED
      BY <1>2, <3>1, <3>2
  <2>2. r0 \in left[t] /\ r0 \in Width(split) /\ r0 \in Nat
    BY <2>1, RowOf DEF RowsInv
  <2>3. ~Rows!OfPairs
    BY <1>0, <2>1
  <2>. DEFINE v == IF Rows!Clear(t) THEN 0 ELSE b[<< r0 >>] + Rows!A(r0, col[t]) * Rows!x(col[t])
  <2>4. v = Partly(r0, c1)
    <3>1. CASE Rows!Clear(t)
      BY <2>2, <3>1, NextTerm
    <3>2. CASE ~Rows!Clear(t)
      <4>1. col[t] \in Nat /\ col[t] # -1
        BY <1>2, <3>2 DEF Rows!Add
      <4>2. b[<< r0 >>] = Partly(r0, col[t])
        BY <4>1 DEF RowsInv, SumInv
      <4>3. Terms(r0)[col[t]] = Rows!A(r0, col[t]) * Rows!x(col[t])
        BY <4>1 DEF Terms
      <4>4. \A r \in Int, c \in Nat : Partly(r, c + 1) = Partly(r, c) + Terms(r)[c]
        BY NextTerm
      <4>5. r0 \in Int
        BY <2>2
      <4>6. Partly(r0, col[t] + 1) = Partly(r0, col[t]) + Terms(r0)[col[t]]
        <5>. HIDE DEF r0
        <5>. QED
          BY <4>1, <4>4, <4>5
      <4>7. c1 = col[t] + 1
        BY <3>2
      <4>8. v = b[<< r0 >>] + Terms(r0)[col[t]]
        BY <3>2, <4>3
      <4>. HIDE DEF r0, c1, v
      <4>. QED
        BY <4>2, <4>6, <4>7, <4>8
    <3>. QED
      BY <3>1, <3>2
  <2>. HIDE DEF r0, c1
  <2>5. << r0 >> \in DOMAIN b
    <3>1. Rows!Cells(r0) = {<< r0 >>}
      BY <2>3, CellOf
    <3>. QED
      BY <2>2, <3>1 DEF RowsInv, RowsType
  <2>6. /\ DOMAIN b' = DOMAIN b /\ b'[<< r0 >>] = v
        /\ \A cell \in DOMAIN b : cell # << r0 >> => b'[cell] = b[cell]
    BY <2>1, <2>5
  <2>. HIDE DEF v
  <2>7. /\ col' \in [Rows!Thread -> Int] /\ col'[t] = c1 /\ c1 # -1
        /\ \A u \in Rows!Thread \ {t} : col'[u] = col[u]
    BY <1>0, <2>1
  <2>8. RowsType'
    <3>1. ASSUME NEW u \in Rows!Thread
          PROVE  col'[u] \in -1 .. split.n /\ (col'[u] # -1 => left[u] # {})
      BY <1>0, <2>1, <2>7 DEF RowsInv, RowsType
    <3>2. Width(split)' = Width(split) /\ \A r : Rows!Cells(r)' = Rows!Cells(r)
      BY <2>1 DEF Width, Rows!Cells, Rows!OfPairs
    <3>3. DOMAIN b' = (UNION {Rows!Cells(r) : r \in Width(split)})'
      BY <2>6, <3>2 DEF RowsInv, RowsType
    <3>. QED
      BY <2>1, <2>7, <3>1, <3>2, <3>3 DEF RowsInv, RowsType
  <2>9. ApartInv'
    BY <2>1 DEF RowsInv, ApartInv
  <2>10. ReadyInv'
    <3>1. \A cell : Value(cell)' = Value(cell)
      BY <2>1 DEF Value, Rows!OfPairs, Rows!dist, Rows!check
    <3>. SUFFICES ASSUME NEW r \in Width(split), \A u \in Rows!Thread : r \notin left[u],
                         NEW cell \in Rows!Cells(r)
                  PROVE  b'[cell] = Value(cell)
      BY <2>1, <3>1 DEF ReadyInv, Width, Rows!Cells, Rows!OfPairs
    <3>2. r # r0 /\ cell = << r >>
      BY <2>2, <2>3, CellOf
    <3>3. cell # << r0 >> /\ cell \in DOMAIN b
      BY <2>3, <3>2, CellOf DEF RowsInv, RowsType
    <3>. QED
      BY <2>6, <3>3 DEF RowsInv, ReadyInv
  <2>11. SumInv'
    <3>. SUFFICES ASSUME NEW u \in Rows!Thread, col'[u] # -1
                  PROVE  b'[<< Rows!Row(u) >>] = Partly(Rows!Row(u), col'[u])
      BY <2>1 DEF SumInv, Partly, Terms, Rows!Row
    <3>1. CASE u = t
      BY <2>4, <2>6, <2>7, <3>1 DEF r0
    <3>2. CASE u # t
      <4>1. col'[u] = col[u] /\ col[u] # -1 /\ left[u] # {}
        BY <2>1, <2>7, <3>2 DEF RowsInv, RowsType
      <4>2. Rows!Row(u) \in left[u] /\ Rows!Row(u) \in Width(split)
        BY <4>1, RowOf DEF RowsInv
      <4>3. Rows!Row(u) # r0
        BY <2>2, <3>2, <4>2 DEF RowsInv, ApartInv
      <4>4. << Rows!Row(u) >> # << r0 >> /\ Rows!Cells(Rows!Row(u)) = {<< Rows!Row(u) >>}
        BY <2>3, <4>3, CellOf
      <4>5. << Rows!Row(u) >> \in DOMAIN b
        BY <4>2, <4>4 DEF RowsInv, RowsType
      <4>. QED
        BY <2>6, <4>1, <4>4, <4>5 DEF RowsInv, SumInv
    <3>. QED
      BY <3>1, <3>2
  <2>. QED
    BY <2>8, <2>9, <2>10, <2>11 DEF RowsInv
<1>3. ASSUME NEW t \in Rows!Thread, Rows!EndRow(t)
      PROVE  RowsInv'
  <2>1. /\ col[t] = split.n /\ left' = [left EXCEPT ![t] = @ \ {Rows!Row(t)}]
        /\ col' = [col EXCEPT ![t] = -1] /\ UNCHANGED <<split, b>>
    BY <1>3 DEF Rows!EndRow
  <2>2. col[t] # -1
    BY <1>0, <2>1
  <2>3. split.kind = "falsesharing" /\ left[t] # {}
    BY <2>2 DEF RowsInv, RowsType
  <2>4. b[<< Rows!Row(t) >>] = Partly(Rows!Row(t), split.n)
    BY <2>1, <2>2 DEF RowsInv, SumInv
  <2>5. Rows!Row(t) \in Nat
    BY <2>3, RowOf DEF RowsInv
  <2>6. Partly(Rows!Row(t), split.n) = Rows!check(Rows!Row(t))
    BY <1>0, <2>5, CheckIsRight
  <2>7. ~Rows!OfPairs /\ Rows!Cells(Rows!Row(t)) = {<< Rows!Row(t) >>}
    BY <1>0, <2>3, CellOf
  <2>8. \A cell \in Rows!Cells(Rows!Row(t)) : b'[cell] = Value(cell)
    <3>1. << Rows!Row(t) >>[1] = Rows!Row(t)
      OBVIOUS
    <3>. QED
      BY <2>1, <2>4, <2>6, <2>7, <3>1 DEF Value
  <2>9. /\ col' \in [Rows!Thread -> Int] /\ col'[t] = -1
        /\ \A u \in Rows!Thread \ {t} : col'[u] = col[u]
    BY <1>0, <2>1
  <2>. QED
    BY <2>1, <2>3, <2>8, <2>9, RowEnds
<1>4. CASE UNCHANGED Rows!vars
  BY <1>4, RowsQuiet
<1>. QED
  BY <1>1, <1>2, <1>3, <1>4 DEF Rows!Next, Rows!Run

(* The rows are shared out when the threads start.                           *)
LEMMA RowsInit ==
  ASSUME NEW s \in RowCalls, Rows!InitWith(s)
  PROVE  RowsInv
<1>1. /\ split = s /\ left \in Rows!Splits(s) /\ col = [t \in Rows!Thread |-> -1]
      /\ b = [cell \in UNION {Rows!Cells(r) : r \in 0 .. s.m - 1} |-> Rows!no_init]
  BY DEF Rows!InitWith
<1>2. PICK own : Owns(s, left, own)
  BY <1>1, SplitOwner
<1>3. /\ \A r \in Width(s) : own[r] \in Rows!Thread
      /\ \A t \in Rows!Thread : left[t] = {r \in Width(s) : own[r] = t}
  BY <1>2 DEF Owns
<1>4. left = [t \in Rows!Thread |-> left[t]]
  BY <1>1, CallType DEF Rows!Splits, Rows!Scheduled
<1>5. left \in [Rows!Thread -> SUBSET Width(s)]
  BY <1>3, <1>4
<1>6. s.n \in Nat
  BY CallType
<1>7. RowsType
  BY <1>1, <1>5, <1>6 DEF RowsType, Width
<1>8. ApartInv
  BY <1>3 DEF ApartInv
<1>9. ReadyInv
  BY <1>1, <1>3 DEF ReadyInv
<1>10. SumInv
  BY <1>1 DEF SumInv
<1>. QED
  BY <1>7, <1>8, <1>9, <1>10 DEF RowsInv

(* That is what RowsSplit says.                                              *)
LEMMA RowsSplitHolds ==
  ASSUME RowsInv
  PROVE  Rows!RowsSplit
<1>1. ASSUME NEW t \in Rows!Thread, NEW u \in Rows!Thread, t # u,
             NEW r \in left[t], NEW q \in left[u]
      PROVE  Rows!Cells(r) \cap Rows!Cells(q) = {}
  <2>1. r # q
    BY <1>1 DEF RowsInv, ApartInv
  <2>2. r \in Nat /\ q \in Nat
    BY DEF RowsInv, RowsType, Width
  <2>3. CASE Rows!OfPairs
    <3>. SUFFICES ASSUME NEW cell \in Rows!Cells(r), cell \in Rows!Cells(q)
                  PROVE  FALSE
      OBVIOUS
    <3>1. \E I \in 0 .. r : cell = <<r, I>> \/ cell = <<I, r>>
      BY <2>3 DEF Rows!Cells
    <3>2. \E I \in 0 .. q : cell = <<q, I>> \/ cell = <<I, q>>
      BY <2>3 DEF Rows!Cells
    <3>3. /\ cell[1] \in Nat /\ cell[2] \in Nat /\ cell[1] <= r /\ cell[2] <= r
          /\ cell[1] = r \/ cell[2] = r
      BY <2>2, <3>1
    <3>4. /\ cell[1] <= q /\ cell[2] <= q /\ (cell[1] = q \/ cell[2] = q)
      BY <2>2, <3>2
    <3>. QED
      BY <2>1, <2>2, <3>3, <3>4
  <2>4. CASE ~Rows!OfPairs
    BY <2>1, <2>4, CellOf
  <2>. QED
    BY <2>3, <2>4
<1>2. \A t, u \in Rows!Thread : t # u =>
        (UNION {Rows!Cells(r) : r \in left[t]}) \cap (UNION {Rows!Cells(r) : r \in left[u]}) = {}
  <2>. TAKE t, u \in Rows!Thread
  <2>. HAVE t # u
  <2>. DEFINE mine == UNION {Rows!Cells(r) : r \in left[t]}
              yours == UNION {Rows!Cells(r) : r \in left[u]}
  <2>1. ASSUME NEW cell \in mine, cell \in yours
        PROVE  FALSE
    <3>1. PICK r \in left[t] : cell \in Rows!Cells(r)
      OBVIOUS
    <3>2. PICK q \in left[u] : cell \in Rows!Cells(q)
      BY <2>1
    <3>3. Rows!Cells(r) \cap Rows!Cells(q) = {}
      BY <1>1
    <3>. QED
      BY <3>1, <3>2, <3>3
  <2>. HIDE DEF mine, yours
  <2>2. mine \cap yours = {}
    BY <2>1
  <2>. QED
    BY <2>2 DEF mine, yours
<1>3. ASSUME Rows!Done, NEW cell \in DOMAIN b
      PROVE  b[cell] = IF Rows!OfPairs THEN Rows!dist(cell) ELSE Rows!check(cell[1])
  <2>1. PICK r \in Width(split) : cell \in Rows!Cells(r)
    BY DEF RowsInv, RowsType
  <2>2. \A t \in Rows!Thread : r \notin left[t]
    BY <1>3 DEF Rows!Done
  <2>. QED
    BY <2>1, <2>2 DEF RowsInv, ReadyInv, Value
<1>. QED
  BY <1>2, <1>3 DEF Rows!RowsSplit

-----------------------------------------------------------------------------
(* The small programs.  Where a thread of synchro.cpp can be.                *)
Consuming == {"start", "while(!go)", "read", "while(go)", "last", "ended"}
Producing == {"start", "set", "sleep", "reset", "ended"}
Places == {"start", "in", "loaded", "ended"} \cup Consuming \cup Producing

(* The number thread t is asked for.                                         *)
Fib(t) == Threads!turn[t - 1][1]
Fibs == {Fib(t) : t \in Threads!Thread}

ThreadTypes ==
  /\ prog \in ThreadProgram /\ spawned \in Nat
  /\ thread \in [Threads!Thread -> Places]
  /\ todo \in [Threads!Thread -> Int] /\ tmp \in [Threads!Thread -> Int]
  /\ shared \in Int /\ go \in BOOLEAN
  /\ DOMAIN results = Threads!Thread /\ results = [t \in Threads!Thread |-> results[t]]
  /\ read \in Seq(Fibs)
  /\ \A t \in Threads!Thread :
       thread[t] \in {"in", "loaded"} => prog \in {"reader-writer", "lock_count", "barrier"}

(* A thread that has ended has set its result, and main has read a part of   *)
(* the results in order.                                                     *)
FiboInv ==
  /\ \A k \in 1 .. Len(read) : k \in Threads!Thread /\ read[k] = Fib(k)
  /\ prog \in {"fibo", "futures"} => \A t \in Threads!Thread :
       results[t] = IF thread[t] = "ended" THEN Fib(t) ELSE Threads!unset

(* A writer is alone with what it has read; what it still has to do is not   *)
(* counted.                                                                  *)
DoneOf(p, rest) ==
  [t \in Threads!Thread |->
     IF p # "reader-writer" \/ t # 1 THEN Threads!Iterations(p, t) - rest[t] ELSE 0]

CountInv ==
  /\ \A t, u \in Threads!Inside : t # u => ~Threads!Writer(t)
  /\ prog \in {"reader-writer", "lock_count"} =>
       \A t \in Threads!Thread : thread[t] = "loaded" /\ Threads!Writer(t) => tmp[t] = shared
  /\ prog \in Threads!Counting => shared = SumOver(DoneOf(prog, todo), Threads!Thread)

(* The barrier opens when the last thread has arrived.                       *)
Arrived == {t \in Threads!Thread : thread[t] # "start"}
BarrierInv ==
  prog = "barrier" =>
    /\ shared = Cardinality(Arrived)
    /\ go => shared = num_threads
    /\ (\E t \in Threads!Thread : thread[t] = "ended") => go

(* The producer is ahead of the consumer: a flag that is seen up was set     *)
(* before the last write, a flag that is seen down again was reset after it. *)
Producer2 == IF 2 \in Threads!Thread THEN thread[2] ELSE "start"
SynchroInv ==
  prog = "synchro" =>
    /\ thread[1] \in Consuming /\ Producer2 \in Producing
    /\ Producer2 \in {"start", "set", "ended"} => go = FALSE
    /\ Producer2 \in {"sleep", "reset"} => go = TRUE
    /\ Producer2 \in {"reset", "ended"} => shared = 234
    /\ thread[1] \in {"read", "while(go)"} => Producer2 \in {"sleep", "reset", "ended"}
    /\ thread[1] = "last" => Producer2 = "ended"
    /\ thread[1] = "ended" => Producer2 = "ended" /\ tmp[1] = 234

SmallInv == ThreadTypes /\ FiboInv /\ CountInv /\ BarrierInv /\ SynchroInv

(* The threads are finitely many.                                            *)
LEMMA SmallThreads ==
  /\ IsFiniteSet(Threads!Thread) /\ 1 \in Threads!Thread /\ Threads!Thread \subseteq Nat
  /\ Cardinality(Threads!Thread) = num_threads
  /\ \A S : Threads!Cardinality(S) = Cardinality(S)
<1>1. num_threads \in Nat \ {0} /\ Threads!Thread = 1 .. num_threads
  BY ThreadsAssumption DEF Threads!Thread
<1>2. /\ IsFiniteSet(1 .. num_threads)
      /\ Cardinality(1 .. num_threads) = (IF 1 > num_threads THEN 0 ELSE num_threads - 1 + 1)
  BY <1>1, FS_Interval
<1>3. \A S : Threads!Cardinality(S) = Cardinality(S)
  BY DEF Threads!Cardinality, Cardinality
<1>. QED
  BY <1>1, <1>2, <1>3

(* How many iterations a thread has is a number.                             *)
LEMMA IterationsType ==
  ASSUME NEW p, NEW t \in Threads!Thread
  PROVE  Threads!Iterations(p, t) \in Nat
<1>1. IsFiniteSet(0 .. num_iters - 1)
  BY CountsAssumption, FS_Interval
<1>2. Cardinality({k \in 0 .. num_iters - 1 : k % num_threads = t - 1}) \in Nat
  BY <1>1, FS_Subset, FS_CardinalityType
<1>. QED
  BY <1>2, SmallThreads DEF Threads!Iterations

(* Which actions a program has.                                              *)
LEMMA Actions ==
  ASSUME Threads!Next
  PROVE  /\ prog' = prog
         /\ \/ UNCHANGED Threads!vars
            \/ Threads!Spawn
            \/ prog \in {"fibo", "futures"} /\
                 (Threads!PrintResults \/ \E t \in Threads!Thread : Threads!fibo(t))
            \/ prog = "one_shot" /\
                 (Threads!set_value \/ \E t \in Threads!Thread : Threads!students(t))
            \/ prog \in {"reader-writer", "lock_count"} /\ \E t \in Threads!Thread :
                 Threads!Lock(t) \/ Threads!Load(t) \/ Threads!StoreAndUnlock(t)
            \/ prog \in Threads!Counting /\ \E t \in Threads!Thread :
                 Threads!atomic_count(t) \/ Threads!Finish(t)
            \/ prog = "barrier" /\ \E t \in Threads!Thread : Threads!arrive(t) \/ Threads!Leave(t)
            \/ prog = "synchro" /\ (Threads!consumer \/ (2 \in Threads!Thread /\ Threads!producer))
<1>1. CASE Threads!Main
  BY <1>1 DEF Threads!Main, Threads!Spawn, Threads!PrintResults, Threads!set_value
<1>2. ASSUME NEW t \in Threads!Thread, Threads!Run(t)
      PROVE  /\ prog' = prog
             /\ \/ prog \in {"fibo", "futures"} /\ Threads!fibo(t)
                \/ prog = "one_shot" /\ Threads!students(t)
                \/ prog \in {"reader-writer", "lock_count"} /\
                     (Threads!Lock(t) \/ Threads!Load(t) \/ Threads!StoreAndUnlock(t))
                \/ prog \in Threads!Counting /\ (Threads!atomic_count(t) \/ Threads!Finish(t))
                \/ prog = "barrier" /\ (Threads!arrive(t) \/ Threads!Leave(t))
                \/ prog = "synchro" /\ (Threads!consumer \/ (2 \in Threads!Thread /\ Threads!producer))
  <2>1. CASE Threads!fibo(t)
    BY <2>1 DEF Threads!fibo
  <2>2. CASE Threads!students(t)
    BY <2>2 DEF Threads!students
  <2>3. CASE Threads!Lock(t) \/ Threads!Load(t) \/ Threads!StoreAndUnlock(t)
    BY <2>3 DEF Threads!Lock, Threads!Load, Threads!StoreAndUnlock
  <2>4. CASE Threads!atomic_count(t) \/ Threads!Finish(t)
    BY <2>4 DEF Threads!atomic_count, Threads!Finish, Threads!Counting
  <2>5. CASE Threads!arrive(t) \/ Threads!Leave(t)
    BY <2>5 DEF Threads!arrive, Threads!Leave
  <2>6. CASE t = Threads!tc /\ Threads!consumer
    BY <2>6 DEF Threads!consumer, Threads!ReadX, Threads!While
  <2>7. CASE t = Threads!tp /\ Threads!producer
    BY <2>7 DEF Threads!producer, Threads!StoreX, Threads!StoreGo, Threads!tp
  <2>. QED
    BY <1>2, <2>1, <2>2, <2>3, <2>4, <2>5, <2>6, <2>7 DEF Threads!Run
<1>3. CASE UNCHANGED Threads!vars
  BY <1>3 DEF Threads!vars
<1>. QED
  BY <1>1, <1>2, <1>3 DEF Threads!Next

(* A step that moves no thread and writes nothing.                           *)
LEMMA SmallQuiet ==
  ASSUME SmallInv, spawned' \in Nat,
         UNCHANGED <<prog, thread, todo, tmp, results, read, shared, go>>
  PROVE  SmallInv'
<1>1. ThreadTypes'
  BY DEF SmallInv, ThreadTypes
<1>2. FiboInv'
  BY DEF SmallInv, FiboInv
<1>3. CountInv'
  BY DEF SmallInv, CountInv, DoneOf, Threads!Inside, Threads!Writer
<1>4. BarrierInv'
  BY DEF SmallInv, BarrierInv, Arrived
<1>5. SynchroInv'
  BY DEF SmallInv, SynchroInv, Producer2
<1>. QED
  BY <1>1, <1>2, <1>3, <1>4, <1>5 DEF SmallInv

(* fibo.cpp and its versions with futures.                                   *)
LEMMA FiboStep ==
  ASSUME SmallInv, prog \in {"fibo", "futures"}, prog' = prog,
         Threads!PrintResults \/ \E t \in Threads!Thread : Threads!fibo(t)
  PROVE  SmallInv'
<1>. USE DEF SmallInv
<1>0. prog \notin Threads!Counting /\ prog \notin {"reader-writer", "lock_count", "barrier", "synchro"}
  BY DEF Threads!Counting
<1>1. CASE Threads!PrintResults
  <2>. DEFINE k == Len(read) + 1
  <2>1. /\ Len(read) < num_threads /\ read' = Append(read, results[k])
        /\ prog = "fibo" => \A t \in Threads!Thread : thread[t] = "ended"
        /\ prog # "fibo" => results[k] # Threads!unset
        /\ UNCHANGED <<prog, spawned, thread, todo, tmp, results, shared, go>>
    BY <1>1 DEF Threads!PrintResults
  <2>2. read \in Seq(Fibs) /\ Len(read) \in Nat /\ k \in Threads!Thread
    BY <2>1, ThreadsAssumption DEF ThreadTypes, Threads!Thread
  <2>3. results[k] = Fib(k)
    <3>. HIDE DEF k
    <3>. QED
      BY <2>1, <2>2 DEF FiboInv
  <2>4. Fib(k) \in Fibs
    BY <2>2 DEF Fibs
  <2>5. read' \in Seq(Fibs)
    BY <2>1, <2>2, <2>3, <2>4
  <2>6. /\ Len(read') = k /\ read'[k] = Fib(k)
        /\ \A n \in 1 .. Len(read) : read'[n] = read[n]
    BY <2>1, <2>2, <2>3, AppendElements
  <2>7. ThreadTypes'
    BY <2>1, <2>5 DEF ThreadTypes
  <2>8. \A n \in 1 .. Len(read') : n \in Threads!Thread /\ read'[n] = Fib(n)
    <3>1. \A n \in 1 .. k : n = k \/ n \in 1 .. Len(read)
      BY <2>2
    <3>. QED
      BY <2>2, <2>6, <3>1 DEF FiboInv
  <2>9. FiboInv'
    BY <2>1, <2>8 DEF FiboInv, Fib
  <2>10. CountInv' /\ BarrierInv' /\ SynchroInv'
    BY <1>0, <2>1 DEF CountInv, BarrierInv, SynchroInv, Threads!Inside, Threads!Writer
  <2>. QED
    BY <2>7, <2>9, <2>10
<1>2. ASSUME NEW t \in Threads!Thread, Threads!fibo(t)
      PROVE  SmallInv'
  <2>1. /\ thread' = [thread EXCEPT ![t] = "ended"] /\ results' = [results EXCEPT ![t] = Fib(t)]
        /\ UNCHANGED <<prog, spawned, todo, tmp, read, shared, go>>
    BY <1>2 DEF Threads!fibo, Threads!Go, Fib
  <2>2. /\ thread' \in [Threads!Thread -> Places] /\ thread'[t] = "ended"
        /\ \A u \in Threads!Thread \ {t} : thread'[u] = thread[u]
    BY <2>1 DEF ThreadTypes, Places
  <2>3. DOMAIN results = Threads!Thread
    BY DEF ThreadTypes
  <2>4. /\ DOMAIN results' = Threads!Thread /\ results' = [u \in Threads!Thread |-> results'[u]]
        /\ results'[t] = Fib(t) /\ \A u \in Threads!Thread \ {t} : results'[u] = results[u]
    BY <2>1, <2>3
  <2>5. ThreadTypes'
    <3>1. \A u \in Threads!Thread : thread'[u] \notin {"in", "loaded"}
      BY <1>0, <2>2 DEF ThreadTypes
    <3>. QED
      BY <2>1, <2>2, <2>4, <3>1 DEF ThreadTypes
  <2>6. FiboInv'
    BY <2>1, <2>2, <2>4 DEF FiboInv, Fib
  <2>7. Threads!Inside' = {}
    <3>1. \A u \in Threads!Thread : thread'[u] \notin {"in", "loaded"}
      BY <1>0, <2>2 DEF ThreadTypes
    <3>. QED
      BY <3>1 DEF Threads!Inside
  <2>8. CountInv' /\ BarrierInv' /\ SynchroInv'
    BY <1>0, <2>1, <2>7 DEF CountInv, BarrierInv, SynchroInv
  <2>. QED
    BY <2>5, <2>6, <2>8
<1>. QED
  BY <1>1, <1>2

(* The promise, and what the threads do outside a lock that changes no       *)
(* count.                                                                    *)
LEMMA EndStep ==
  ASSUME SmallInv, prog' = prog,
         \/ prog = "one_shot" /\ Threads!set_value
         \/ prog = "one_shot" /\ \E t \in Threads!Thread : Threads!students(t)
         \/ prog \in Threads!Counting /\ \E t \in Threads!Thread : Threads!Finish(t)
  PROVE  SmallInv'
<1>. USE DEF SmallInv
<1>0. prog \notin {"fibo", "futures", "barrier", "synchro"}
  BY DEF Threads!Counting
<1>1. CASE Threads!set_value
  <2>1. /\ go' = TRUE /\ prog = "one_shot"
        /\ UNCHANGED <<prog, spawned, thread, todo, tmp, results, read, shared>>
    BY <1>1 DEF Threads!set_value
  <2>2. ThreadTypes' /\ FiboInv' /\ BarrierInv' /\ SynchroInv'
    BY <2>1 DEF ThreadTypes, FiboInv, BarrierInv, SynchroInv
  <2>3. CountInv'
    BY <2>1 DEF CountInv, Threads!Inside, Threads!Writer, Threads!Counting
  <2>. QED
    BY <2>2, <2>3
<1>2. ASSUME NEW t \in Threads!Thread, Threads!students(t) \/ Threads!Finish(t)
      PROVE  SmallInv'
  <2>1. /\ thread[t] = "start" /\ thread' = [thread EXCEPT ![t] = "ended"]
        /\ UNCHANGED <<prog, spawned, todo, tmp, results, read, shared, go>>
    BY <1>2 DEF Threads!students, Threads!Finish, Threads!Go
  <2>2. /\ thread' \in [Threads!Thread -> Places] /\ thread'[t] = "ended"
        /\ \A u \in Threads!Thread \ {t} : thread'[u] = thread[u]
    BY <2>1 DEF ThreadTypes, Places
  <2>3. ThreadTypes'
    BY <2>1, <2>2 DEF ThreadTypes
  <2>4. FiboInv' /\ BarrierInv' /\ SynchroInv'
    BY <1>0, <2>1 DEF FiboInv, BarrierInv, SynchroInv
  <2>5. \A u \in Threads!Thread : thread'[u] \in {"in", "loaded"} =>
          thread[u] \in {"in", "loaded"} /\ thread'[u] = thread[u]
    BY <2>1, <2>2
  <2>6. Threads!Inside' \subseteq Threads!Inside
    BY <2>1, <2>5 DEF Threads!Inside
  <2>7. CountInv'
    BY <2>1, <2>5, <2>6 DEF CountInv, Threads!Writer, DoneOf
  <2>. QED
    BY <2>3, <2>4, <2>7
<1>. QED
  BY <1>1, <1>2

(* One more iteration of t is done.                                          *)
LEMMA OneMore ==
  ASSUME ThreadTypes, prog' = prog, NEW t \in Threads!Thread, todo' = [todo EXCEPT ![t] = @ - 1]
  PROVE  /\ todo' \in [Threads!Thread -> Int]
         /\ SumOver(DoneOf(prog, todo), Threads!Thread) \in Int
         /\ SumOver(DoneOf(prog', todo'), Threads!Thread) =
              SumOver(DoneOf(prog, todo), Threads!Thread) + (IF Threads!Writer(t) THEN 1 ELSE 0)
<1>. DEFINE f == DoneOf(prog, todo)
            g == DoneOf(prog, todo')
            n == Threads!Iterations(prog, t)
<1>1. /\ todo' \in [Threads!Thread -> Int] /\ todo'[t] = todo[t] - 1 /\ todo[t] \in Int
      /\ \A u \in Threads!Thread \ {t} : todo'[u] = todo[u]
  BY DEF ThreadTypes
<1>2. \A u \in Threads!Thread : Threads!Iterations(prog, u) \in Int
  BY IterationsType
<1>3. /\ \A u \in Threads!Thread : f[u] \in Int /\ g[u] \in Int
      /\ \A u \in Threads!Thread \ {t} : f[u] = g[u]
  <2>1. \A u \in Threads!Thread : todo[u] \in Int /\ todo'[u] \in Int
    BY <1>1 DEF ThreadTypes
  <2>. QED
    BY <1>1, <1>2, <2>1 DEF DoneOf
<1>4. g[t] - f[t] = IF Threads!Writer(t) THEN 1 ELSE 0
  <2>1. PICK a, c \in Int : a = Threads!Iterations(prog, t) /\ c = todo[t]
    BY <1>1, <1>2
  <2>2. CASE Threads!Writer(t)
    <3>1. f[t] = a - c /\ g[t] = a - (c - 1)
      BY <1>1, <2>1, <2>2 DEF DoneOf, Threads!Writer
    <3>. QED
      BY <2>2, <3>1
  <2>3. CASE ~Threads!Writer(t)
    <3>1. f[t] = 0 /\ g[t] = 0
      BY <2>3 DEF DoneOf, Threads!Writer
    <3>. QED
      BY <2>3, <3>1
  <2>. QED
    BY <2>2, <2>3
<1>. HIDE DEF f, g
<1>5. /\ SumOver(f, Threads!Thread) \in Int
      /\ SumOver(g, Threads!Thread) = SumOver(f, Threads!Thread) + (g[t] - f[t])
  BY <1>3, SmallThreads, SumChange
<1>. QED
  BY <1>1, <1>4, <1>5 DEF f, g

(* reader-writer.cpp and atomic_counting.cpp: nobody comes in with a writer, *)
(* which therefore adds to what it has read.                                 *)
LEMMA CountStep ==
  ASSUME SmallInv, prog' = prog, NEW t \in Threads!Thread,
         \/ prog \in {"reader-writer", "lock_count"} /\
              (Threads!Lock(t) \/ Threads!Load(t) \/ Threads!StoreAndUnlock(t))
         \/ prog \in Threads!Counting /\ Threads!atomic_count(t)
  PROVE  SmallInv'
<1>. USE DEF SmallInv
<1>0. prog \notin {"fibo", "futures", "barrier", "synchro"}
  BY DEF Threads!Counting
<1>1. Threads!Inside = {u \in Threads!Thread : thread[u] \in {"in", "loaded"}}
  BY <1>0 DEF Threads!Inside
<1>2. Threads!Inside' = {u \in Threads!Thread : thread'[u] \in {"in", "loaded"}}
  BY <1>0 DEF Threads!Inside
<1>3. \A u \in Threads!Thread : Threads!Writer(u)' = Threads!Writer(u)
  BY DEF Threads!Writer
<1>4. CASE Threads!Lock(t)
  <2>1. /\ thread[t] = "start" /\ thread' = [thread EXCEPT ![t] = "in"]
        /\ IF Threads!Writer(t) THEN Threads!Inside = {} ELSE \A u \in Threads!Inside : ~Threads!Writer(u)
        /\ UNCHANGED <<prog, spawned, todo, tmp, results, read, shared, go>>
        /\ prog \in {"reader-writer", "lock_count"}
    BY <1>4 DEF Threads!Lock, Threads!Go
  <2>2. /\ thread' \in [Threads!Thread -> Places] /\ thread'[t] = "in"
        /\ \A u \in Threads!Thread \ {t} : thread'[u] = thread[u]
    BY <2>1 DEF ThreadTypes, Places
  <2>3. ThreadTypes'
    BY <2>1, <2>2 DEF ThreadTypes
  <2>4. FiboInv' /\ BarrierInv' /\ SynchroInv'
    BY <1>0, <2>1 DEF FiboInv, BarrierInv, SynchroInv
  <2>5. Threads!Inside' = Threads!Inside \cup {t}
    BY <1>1, <1>2, <2>2
  <2>6. \A u, v \in Threads!Inside' : u # v => ~Threads!Writer(u)'
    BY <1>1, <1>2, <1>3, <2>1, <2>5 DEF CountInv
  <2>7. \A u \in Threads!Thread : thread'[u] = "loaded" /\ Threads!Writer(u)' => tmp'[u] = shared'
    BY <1>3, <2>1, <2>2 DEF CountInv
  <2>8. CountInv'
    BY <2>1, <2>6, <2>7 DEF CountInv, DoneOf
  <2>. QED
    BY <2>3, <2>4, <2>8
<1>5. CASE Threads!Load(t)
  <2>1. /\ thread[t] = "in" /\ thread' = [thread EXCEPT ![t] = "loaded"]
        /\ tmp' = [tmp EXCEPT ![t] = shared]
        /\ UNCHANGED <<prog, spawned, todo, results, read, shared, go>>
    BY <1>5 DEF Threads!Load, Threads!Go
  <2>2. /\ thread' \in [Threads!Thread -> Places] /\ thread'[t] = "loaded"
        /\ \A u \in Threads!Thread \ {t} : thread'[u] = thread[u]
        /\ tmp' \in [Threads!Thread -> Int] /\ tmp'[t] = shared
        /\ \A u \in Threads!Thread \ {t} : tmp'[u] = tmp[u]
    BY <2>1 DEF ThreadTypes, Places
  <2>3. ThreadTypes'
    BY <2>1, <2>2 DEF ThreadTypes
  <2>4. FiboInv' /\ BarrierInv' /\ SynchroInv'
    BY <1>0, <2>1 DEF FiboInv, BarrierInv, SynchroInv
  <2>5. Threads!Inside' = Threads!Inside
    BY <1>1, <1>2, <2>1, <2>2
  <2>6. \A u, v \in Threads!Inside' : u # v => ~Threads!Writer(u)'
    BY <1>1, <1>2, <1>3, <2>5 DEF CountInv
  <2>7. prog \in {"reader-writer", "lock_count"} =>
          \A u \in Threads!Thread : thread'[u] = "loaded" /\ Threads!Writer(u)' => tmp'[u] = shared'
    BY <1>3, <2>1, <2>2 DEF CountInv
  <2>8. CountInv'
    BY <2>1, <2>6, <2>7 DEF CountInv, DoneOf
  <2>. QED
    BY <2>3, <2>4, <2>8
<1>6. CASE Threads!StoreAndUnlock(t)
  <2>1. /\ thread[t] = "loaded" /\ thread' = [thread EXCEPT ![t] = "start"]
        /\ shared' = (IF Threads!Writer(t) THEN tmp[t] + 1 ELSE shared)
        /\ todo' = [todo EXCEPT ![t] = @ - 1]
        /\ UNCHANGED <<prog, spawned, tmp, results, read, go>>
        /\ prog \in {"reader-writer", "lock_count"}
    BY <1>6 DEF Threads!StoreAndUnlock, Threads!Go
  <2>2. /\ thread' \in [Threads!Thread -> Places] /\ thread'[t] = "start"
        /\ \A u \in Threads!Thread \ {t} : thread'[u] = thread[u]
    BY <2>1 DEF ThreadTypes, Places
  <2>3. shared' = shared + (IF Threads!Writer(t) THEN 1 ELSE 0) /\ shared' \in Int
    <3>1. Threads!Writer(t) => tmp[t] = shared
      BY <2>1 DEF CountInv
    <3>. QED
      BY <2>1, <3>1 DEF ThreadTypes
  <2>4. ThreadTypes'
    BY <2>1, <2>2, <2>3, OneMore DEF ThreadTypes
  <2>5. FiboInv' /\ BarrierInv' /\ SynchroInv'
    BY <1>0, <2>1 DEF FiboInv, BarrierInv, SynchroInv
  <2>6. Threads!Inside' = Threads!Inside \ {t} /\ t \in Threads!Inside
    BY <1>1, <1>2, <2>1, <2>2
  <2>7. \A u, v \in Threads!Inside' : u # v => ~Threads!Writer(u)'
    BY <1>1, <1>2, <1>3, <2>6 DEF CountInv
  <2>8. \A u \in Threads!Thread : thread'[u] = "loaded" /\ Threads!Writer(u)' => tmp'[u] = shared'
    <3>. SUFFICES ASSUME NEW u \in Threads!Thread, thread'[u] = "loaded", Threads!Writer(u)
                  PROVE  tmp[u] = shared'
      BY <1>3, <2>1
    <3>1. u # t /\ thread[u] = "loaded" /\ u \in Threads!Inside
      BY <1>1, <2>2
    <3>2. FALSE
      BY <2>6, <3>1 DEF CountInv
    <3>. QED
      BY <3>2
  <2>9. prog \in Threads!Counting => shared' = SumOver(DoneOf(prog', todo'), Threads!Thread)
    <3>1. prog \in Threads!Counting => shared = SumOver(DoneOf(prog, todo), Threads!Thread)
      BY DEF CountInv
    <3>. QED
      BY <2>1, <2>3, <3>1, OneMore
  <2>10. CountInv'
    BY <2>1, <2>7, <2>8, <2>9 DEF CountInv, Threads!Counting
  <2>. QED
    BY <2>4, <2>5, <2>10
<1>7. CASE Threads!atomic_count(t)
  <2>1. /\ shared' = shared + 1 /\ todo' = [todo EXCEPT ![t] = @ - 1] /\ prog = "atomic_count"
        /\ UNCHANGED <<prog, spawned, thread, tmp, results, read, go>>
    BY <1>7 DEF Threads!atomic_count
  <2>2. ThreadTypes'
    BY <2>1, OneMore DEF ThreadTypes
  <2>3. FiboInv' /\ BarrierInv' /\ SynchroInv'
    BY <1>0, <2>1 DEF FiboInv, BarrierInv, SynchroInv
  <2>4. Threads!Inside' = Threads!Inside
    BY <1>1, <1>2, <2>1
  <2>5. \A u, v \in Threads!Inside' : u # v => ~Threads!Writer(u)'
    BY <1>1, <1>2, <1>3, <2>4 DEF CountInv
  <2>6. shared' = SumOver(DoneOf(prog', todo'), Threads!Thread)
    <3>1. shared = SumOver(DoneOf(prog, todo), Threads!Thread) /\ Threads!Writer(t)
      BY <2>1 DEF CountInv, Threads!Counting, Threads!Writer
    <3>. QED
      BY <2>1, <3>1, OneMore
  <2>7. CountInv'
    BY <2>1, <2>5, <2>6 DEF CountInv
  <2>. QED
    BY <2>2, <2>3, <2>7
<1>. QED
  BY <1>4, <1>5, <1>6, <1>7

(* barrier.cpp: the last one to arrive lets everybody go.                    *)
LEMMA BarrierStep ==
  ASSUME SmallInv, prog = "barrier", prog' = prog, NEW t \in Threads!Thread,
         Threads!arrive(t) \/ Threads!Leave(t)
  PROVE  SmallInv'
<1>. USE DEF SmallInv
<1>0. prog \notin {"fibo", "futures", "reader-writer", "lock_count", "synchro"}
      /\ prog \notin Threads!Counting /\ Threads!Inside' = {}
  BY DEF Threads!Counting, Threads!Inside
<1>1. IsFiniteSet(Arrived) /\ Cardinality(Arrived) \in Nat
  BY SmallThreads, FS_Subset, FS_CardinalityType DEF Arrived
<1>2. CASE Threads!arrive(t)
  <2>1. /\ thread[t] = "start" /\ thread' = [thread EXCEPT ![t] = "in"]
        /\ shared' = shared + 1 /\ go' = (shared' = num_threads)
        /\ UNCHANGED <<prog, spawned, todo, tmp, results, read>>
    BY <1>2 DEF Threads!arrive, Threads!Go
  <2>2. /\ thread' \in [Threads!Thread -> Places] /\ thread'[t] = "in"
        /\ \A u \in Threads!Thread \ {t} : thread'[u] = thread[u]
    BY <2>1 DEF ThreadTypes, Places
  <2>3. ThreadTypes'
    <3>1. shared' \in Int /\ go' \in BOOLEAN
      BY <2>1 DEF ThreadTypes
    <3>. QED
      BY <2>1, <2>2, <3>1 DEF ThreadTypes
  <2>4. FiboInv' /\ SynchroInv'
    BY <1>0, <2>1 DEF FiboInv, SynchroInv
  <2>5. CountInv'
    BY <1>0, <2>1 DEF CountInv
  <2>6. Arrived' = Arrived \cup {t} /\ t \notin Arrived
    BY <2>1, <2>2 DEF Arrived
  <2>7. Cardinality(Arrived') = Cardinality(Arrived) + 1
    BY <1>1, <2>6, FS_AddElement
  <2>8. shared' = Cardinality(Arrived')
    BY <2>1, <2>7 DEF BarrierInv
  <2>9. \A u \in Threads!Thread : thread'[u] # "ended"
    <3>. SUFFICES ASSUME NEW u \in Threads!Thread, thread'[u] = "ended"
                  PROVE  FALSE
      OBVIOUS
    <3>1. thread[u] = "ended"
      BY <2>2
    <3>2. Cardinality(Arrived) = num_threads
      BY <3>1 DEF BarrierInv
    <3>3. Arrived = Threads!Thread
      BY <3>2, SmallThreads, FS_Subset DEF Arrived
    <3>. QED
      BY <2>6, <3>3
  <2>10. BarrierInv'
    BY <2>1, <2>8, <2>9 DEF BarrierInv
  <2>. QED
    BY <2>3, <2>4, <2>5, <2>10
<1>3. CASE Threads!Leave(t)
  <2>1. /\ thread[t] = "in" /\ thread' = [thread EXCEPT ![t] = "ended"] /\ go
        /\ UNCHANGED <<prog, spawned, todo, tmp, results, read, shared, go>>
    BY <1>3 DEF Threads!Leave, Threads!Go
  <2>2. /\ thread' \in [Threads!Thread -> Places] /\ thread'[t] = "ended"
        /\ \A u \in Threads!Thread \ {t} : thread'[u] = thread[u]
    BY <2>1 DEF ThreadTypes, Places
  <2>3. ThreadTypes'
    BY <2>1, <2>2 DEF ThreadTypes
  <2>4. FiboInv' /\ SynchroInv'
    BY <1>0, <2>1 DEF FiboInv, SynchroInv
  <2>5. CountInv'
    BY <1>0, <2>1 DEF CountInv
  <2>6. Arrived' = Arrived
    BY <2>1, <2>2 DEF Arrived
  <2>7. BarrierInv'
    BY <2>1, <2>6 DEF BarrierInv
  <2>. QED
    BY <2>3, <2>4, <2>5, <2>7
<1>. QED
  BY <1>2, <1>3

(* synchro.cpp.                                                              *)
LEMMA SynchroStep ==
  ASSUME SmallInv, prog = "synchro", prog' = prog,
         Threads!consumer \/ (2 \in Threads!Thread /\ Threads!producer)
  PROVE  SmallInv'
<1>. USE DEF SmallInv
<1>0. prog \notin {"fibo", "futures", "reader-writer", "lock_count", "barrier"}
      /\ prog \notin Threads!Counting
  BY DEF Threads!Counting
<1>1. ASSUME NEW t \in Threads!Thread, NEW place \in Consuming \cup Producing,
             thread' = [thread EXCEPT ![t] = place], shared' \in Int, go' \in BOOLEAN,
             tmp' \in [Threads!Thread -> Int], UNCHANGED <<prog, spawned, todo, results, read>>
      PROVE  ThreadTypes' /\ FiboInv' /\ CountInv' /\ BarrierInv'
  <2>1. /\ thread' \in [Threads!Thread -> Places] /\ thread'[t] = place
        /\ \A u \in Threads!Thread \ {t} : thread'[u] = thread[u]
    BY <1>1 DEF ThreadTypes, Places
  <2>2. \A u \in Threads!Thread : thread'[u] \notin {"in", "loaded"}
    BY <1>0, <2>1 DEF ThreadTypes, Consuming, Producing
  <2>3. ThreadTypes'
    BY <1>1, <2>1, <2>2 DEF ThreadTypes
  <2>4. Threads!Inside' = {}
    BY <2>2 DEF Threads!Inside
  <2>. QED
    BY <1>0, <1>1, <2>3, <2>4 DEF FiboInv, CountInv, BarrierInv
<1>2. /\ 1 \in Threads!Thread /\ thread \in [Threads!Thread -> Places] /\ shared \in Int
      /\ tmp \in [Threads!Thread -> Int] /\ go \in BOOLEAN
  BY SmallThreads DEF ThreadTypes
<1>3. CASE Threads!consumer
  <2>1. PICK place \in Consuming :
          /\ thread' = [thread EXCEPT ![1] = place]
          /\ \/ thread[1] = "start" /\ place = "while(!go)" /\ tmp' = [tmp EXCEPT ![1] = shared]
             \/ thread[1] = "while(!go)" /\ place = "read" /\ go # FALSE /\ tmp' = tmp
             \/ thread[1] = "read" /\ place = "while(go)" /\ tmp' = [tmp EXCEPT ![1] = shared]
             \/ thread[1] = "while(go)" /\ place = "last" /\ go # TRUE /\ tmp' = tmp
             \/ thread[1] = "last" /\ place = "ended" /\ tmp' = [tmp EXCEPT ![1] = shared]
          /\ UNCHANGED <<prog, spawned, todo, results, read, shared, go>>
    BY <1>3 DEF Threads!consumer, Threads!ReadX, Threads!While, Threads!Go, Threads!tc, Consuming
  <2>2. tmp' \in [Threads!Thread -> Int] /\ (place = "ended" => tmp'[1] = shared)
    BY <1>2, <2>1
  <2>3. ThreadTypes' /\ FiboInv' /\ CountInv' /\ BarrierInv'
    BY <1>1, <1>2, <2>1, <2>2
  <2>4. thread'[1] = place /\ Producer2' = Producer2
    BY <1>2, <2>1 DEF Producer2
  <2>5. SynchroInv'
    <3>. USE DEF SynchroInv, Producing
    <3>1. CASE thread[1] = "start" /\ place = "while(!go)"
      BY <2>1, <2>2, <2>4, <3>1
    <3>2. CASE thread[1] = "while(!go)" /\ place = "read" /\ go # FALSE
      BY <2>1, <2>2, <2>4, <3>2
    <3>3. CASE thread[1] = "read" /\ place = "while(go)"
      BY <2>1, <2>2, <2>4, <3>3
    <3>4. CASE thread[1] = "while(go)" /\ place = "last" /\ go # TRUE
      BY <2>1, <2>2, <2>4, <3>4
    <3>5. CASE thread[1] = "last" /\ place = "ended"
      BY <2>1, <2>2, <2>4, <3>5
    <3>. QED
      BY <2>1, <3>1, <3>2, <3>3, <3>4, <3>5
  <2>. QED
    BY <2>3, <2>5
<1>4. CASE 2 \in Threads!Thread /\ Threads!producer
  <2>1. PICK place \in Producing :
          /\ thread' = [thread EXCEPT ![2] = place]
          /\ \/ thread[2] = "start" /\ place = "set" /\ shared' = 123 /\ go' = go
             \/ thread[2] = "set" /\ place = "sleep" /\ shared' = shared /\ go' = TRUE
             \/ thread[2] = "sleep" /\ place = "reset" /\ shared' = 234 /\ go' = go
             \/ thread[2] = "reset" /\ place = "ended" /\ shared' = shared /\ go' = FALSE
          /\ UNCHANGED <<prog, spawned, todo, tmp, results, read>>
    BY <1>4 DEF Threads!producer, Threads!StoreX, Threads!StoreGo, Threads!Go, Threads!tp, Producing
  <2>2. shared' \in Int /\ go' \in BOOLEAN
    <3>1. shared' = shared \/ shared' = 123 \/ shared' = 234
      BY <2>1
    <3>2. shared' \in Int
      BY <1>2, <3>1
    <3>3. go' = go \/ go' = TRUE \/ go' = FALSE
      BY <2>1
    <3>4. go' \in BOOLEAN
      BY <1>2, <3>3
    <3>. QED
      BY <3>2, <3>4
  <2>3. ThreadTypes' /\ FiboInv' /\ CountInv' /\ BarrierInv'
    BY <1>1, <1>2, <1>4, <2>1, <2>2
  <2>4. thread'[1] = thread[1] /\ Producer2' = place /\ Producer2 = thread[2]
    BY <1>2, <1>4, <2>1 DEF Producer2
  <2>5. SynchroInv'
    <3>. USE DEF SynchroInv, Consuming
    <3>1. CASE thread[2] = "start" /\ place = "set"
      BY <2>1, <2>2, <2>4, <3>1
    <3>2. CASE thread[2] = "set" /\ place = "sleep"
      BY <2>1, <2>2, <2>4, <3>2
    <3>3. CASE thread[2] = "sleep" /\ place = "reset"
      BY <2>1, <2>2, <2>4, <3>3
    <3>4. CASE thread[2] = "reset" /\ place = "ended"
      BY <2>1, <2>2, <2>4, <3>4
    <3>. QED
      BY <2>1, <3>1, <3>2, <3>3, <3>4
  <2>. QED
    BY <2>3, <2>5
<1>. QED
  BY <1>3, <1>4

(* Every step of the small programs.                                         *)
LEMMA SmallStep ==
  ASSUME SmallInv, Threads!Next \/ UNCHANGED Threads!vars
  PROVE  SmallInv'
<1>1. CASE UNCHANGED Threads!vars
  <2>1. spawned \in Nat
    BY DEF SmallInv, ThreadTypes
  <2>. QED
    BY <1>1, <2>1, SmallQuiet DEF Threads!vars
<1>2. CASE Threads!Spawn
  <2>1. spawned' \in Nat
    BY <1>2 DEF Threads!Spawn, SmallInv, ThreadTypes
  <2>. QED
    BY <1>2, <2>1, SmallQuiet DEF Threads!Spawn
<1>. QED
  BY <1>1, <1>2, Actions, FiboStep, EndStep, CountStep, BarrierStep, SynchroStep

(* Nothing has happened yet.                                                 *)
LEMMA SmallInit ==
  ASSUME NEW p \in ThreadProgram, Threads!InitWith(p)
  PROVE  SmallInv
<1>1. /\ prog = p /\ spawned = 0 /\ thread = [t \in Threads!Thread |-> "start"]
      /\ todo = [t \in Threads!Thread |-> IF p \in Threads!Counting THEN Threads!Iterations(p, t) ELSE 0]
      /\ tmp = [t \in Threads!Thread |-> 0] /\ results = [t \in Threads!Thread |-> Threads!unset]
      /\ read = <<>> /\ shared = 0 /\ go = FALSE
  BY DEF Threads!InitWith
<1>2. ThreadTypes
  <2>1. todo \in [Threads!Thread -> Int]
    BY <1>1, IterationsType
  <2>2. thread \in [Threads!Thread -> Places]
    BY <1>1 DEF Places
  <2>3. read \in Seq(Fibs)
    BY <1>1
  <2>4. DOMAIN results = Threads!Thread /\ results = [t \in Threads!Thread |-> results[t]]
    BY <1>1
  <2>5. tmp \in [Threads!Thread -> Int]
    BY <1>1
  <2>6. \A t \in Threads!Thread : thread[t] = "start"
    BY <1>1
  <2>. QED
    <3>1. prog \in ThreadProgram /\ spawned \in Nat /\ shared \in Int
      BY <1>1
    <3>1a. go \in BOOLEAN
      BY <1>1
    <3>2. \A t \in Threads!Thread : thread[t] \notin {"in", "loaded"}
      BY <2>6
    <3>. QED
      BY <2>1, <2>2, <2>3, <2>4, <2>5, <3>1, <3>1a, <3>2 DEF ThreadTypes
<1>3. FiboInv
  BY <1>1 DEF FiboInv
<1>4. CountInv
  <2>1. Threads!Inside = {}
    BY <1>1 DEF Threads!Inside
  <2>2. p \in Threads!Counting => SumOver(DoneOf(p, todo), Threads!Thread) = 0
    <3>. SUFFICES ASSUME p \in Threads!Counting
                  PROVE  SumOver(DoneOf(p, todo), Threads!Thread) = 0
      OBVIOUS
    <3>1. \A t \in Threads!Thread : todo[t] = Threads!Iterations(p, t) /\ Threads!Iterations(p, t) \in Nat
      BY <1>1, IterationsType
    <3>2. \A t \in Threads!Thread : DoneOf(p, todo)[t] = 0
      BY <3>1 DEF DoneOf
    <3>. QED
      BY <3>2, SumZero, SmallThreads
  <2>. QED
    BY <1>1, <2>1, <2>2 DEF CountInv
<1>5. BarrierInv
  <2>1. Arrived = {}
    BY <1>1 DEF Arrived
  <2>. QED
    BY <1>1, <2>1, FS_EmptySet DEF BarrierInv
<1>6. SynchroInv
  BY <1>1, SmallThreads DEF SynchroInv, Producer2, Consuming, Producing
<1>. QED
  BY <1>2, <1>3, <1>4, <1>5, <1>6 DEF SmallInv

(* That is what NothingMissed says.                                          *)
LEMMA SmallMissed ==
  ASSUME SmallInv
  PROVE  Threads!NothingMissed
<1>. USE DEF SmallInv
<1>1. read = [k \in DOMAIN read |-> Threads!turn[k - 1][1]]
  <2>1. DOMAIN read = 1 .. Len(read) /\ read = [k \in DOMAIN read |-> read[k]]
    BY DEF ThreadTypes
  <2>2. \A k \in DOMAIN read : read[k] = Threads!turn[k - 1][1]
    BY <2>1 DEF FiboInv, Fib
  <2>. QED
    BY <2>1, <2>2
<1>2. \A t, u \in Threads!Inside : t # u => ~Threads!Writer(t)
  BY DEF CountInv
<1>3. ASSUME prog \in Threads!Counting
      PROVE  shared = Threads!MapThenSumSet(
               LAMBDA t : IF Threads!Writer(t) THEN Threads!Iterations(prog, t) - todo[t] ELSE 0,
               Threads!Thread)
  <2>1. shared = SumOver(DoneOf(prog, todo), Threads!Thread)
    BY <1>3 DEF CountInv
  <2>2. Threads!MapThenSumSet(
          LAMBDA t : IF Threads!Writer(t) THEN Threads!Iterations(prog, t) - todo[t] ELSE 0,
          Threads!Thread) = SumOver(DoneOf(prog, todo), Threads!Thread)
    BY DEF SumOver, MapThenSumSet, MapThenFoldSet, Threads!MapThenSumSet, Threads!MapThenFoldSet,
           DoneOf, Threads!Writer
  <2>. QED
    BY <2>1, <2>2
<1>4. ASSUME prog = "barrier", NEW t \in Threads!Thread, thread[t] = "ended"
      PROVE  \A u \in Threads!Thread : thread[u] # "start"
  <2>1. Cardinality(Arrived) = num_threads
    BY <1>4 DEF BarrierInv
  <2>2. Arrived = Threads!Thread
    BY <2>1, SmallThreads, FS_Subset DEF Arrived
  <2>. QED
    BY <2>2 DEF Arrived
<1>5. prog = "synchro" /\ thread[Threads!tc] = "ended" => tmp[Threads!tc] = 234
  BY DEF SynchroInv, Threads!tc
<1>. QED
  BY <1>1, <1>2, <1>3, <1>4, <1>5 DEF Threads!NothingMissed

-----------------------------------------------------------------------------
(* MemoryOrder: a program stores to a variable once, so that views are over *)
(* the store there was and that one.                                        *)
SmallView == [Order!Loc -> {1, 2}]
SmallStore == [value : BOOLEAN, view : SmallView]

OrderTypes ==
  /\ DOMAIN text \subseteq Nat
  /\ at \in [Order!Thread -> Nat] /\ z \in Nat
  /\ view \in [Order!Thread -> SmallView] /\ released \in [Order!Thread -> SmallView]
  /\ acquired \in [Order!Thread -> SmallView] /\ sc \in SmallView
  /\ stores \in [Order!Loc -> Seq(SmallStore)]

(* The first store is that of the initial value, a second one of the new.   *)
StoreValues ==
  \A l \in Order!Loc :
    /\ Len(stores[l]) \in {1, 2} /\ ~stores[l][1].value
    /\ Len(stores[l]) = 2 => stores[l][2].value

(* Two writers: whoever has seen x or y set reads the last store, for       *)
(* seq_cst loads overlook no seq_cst store.                                 *)
SeqInv ==
  /\ Len(stores["x"]) = at[1] /\ Len(stores["y"]) = at[2]
  /\ \A l \in Order!Loc : sc[l] = Len(stores[l])
  /\ at[3] \in 1 .. 3 /\ at[4] \in 1 .. 3
  /\ at[3] > 1 => at[1] = 2
  /\ at[4] > 1 => at[2] = 2
  /\ at[3] = 3 /\ at[4] = 3 => z > 0

(* write_x_then_y and read_y_then_x, where the store to y hands its own     *)
(* view on: it carries the store to x, to who acquires it.                  *)
AcqRelInv ==
  /\ at[1] \in 1 .. 3 /\ at[2] \in 1 .. 3
  /\ Len(stores["x"]) = (IF at[1] = 1 THEN 1 ELSE 2)
  /\ Len(stores["y"]) = (IF at[1] = 3 THEN 2 ELSE 1)
  /\ at[1] > 1 => view[1]["x"] = 2
  /\ at[1] = 3 => stores["y"][2].view["x"] = 2
  /\ at[2] > 1 => at[1] = 3
  /\ at[2] = 2 => view[2]["x"] = 2
  /\ at[2] = 3 => z > 0

(* The same with fences: the store hands on the view at the release fence,  *)
(* and it is seen from the acquire fence on.                                *)
FenceInv ==
  /\ at[1] \in 1 .. 4 /\ at[2] \in 1 .. 4
  /\ Len(stores["x"]) = (IF at[1] = 1 THEN 1 ELSE 2)
  /\ Len(stores["y"]) = (IF at[1] = 4 THEN 2 ELSE 1)
  /\ at[1] > 1 => view[1]["x"] = 2
  /\ at[1] > 2 => released[1]["x"] = 2
  /\ at[1] = 4 => stores["y"][2].view["x"] = 2
  /\ at[2] > 1 => at[1] = 4
  /\ at[2] = 2 => acquired[2]["x"] = 2
  /\ at[2] = 3 => view[2]["x"] = 2
  /\ at[2] = 4 => z > 0

OrderInv ==
  /\ text \in Order!Litmus
  /\ text = Order!sequential_ordering => OrderTypes /\ StoreValues /\ SeqInv
  /\ text = Order!acq_rel_ordering2 => OrderTypes /\ StoreValues /\ AcqRelInv
  /\ text \in {Order!fence_ordering, Order!fence_ordering2} => OrderTypes /\ StoreValues /\ FenceInv

-----------------------------------------------------------------------------
(* Later of two views.                                                      *)
LEMMA LaterView ==
  ASSUME NEW v \in SmallView, NEW w \in SmallView
  PROVE  /\ Order!Later(v, w) \in SmallView
         /\ \A l \in Order!Loc : v[l] = 2 \/ w[l] = 2 => Order!Later(v, w)[l] = 2
BY DEF Order!Later, SmallView

(* The second store to a variable.                                          *)
LEMMA AppendOne ==
  ASSUME NEW S, NEW s \in Seq(S), Len(s) = 1, NEW e \in S
  PROVE  /\ Append(s, e) \in Seq(S) /\ Len(Append(s, e)) = 2
         /\ Append(s, e)[1] = s[1] /\ Append(s, e)[2] = e
<1>1. Append(s, e) \in Seq(S) /\ Len(Append(s, e)) = 2
  OBVIOUS
<1>. QED
  BY <1>1, AppendElements

(* A store to a variable not stored to yet.                                 *)
LEMMA StoreEffect ==
  ASSUME OrderTypes, StoreValues, NEW t \in Order!Thread, Order!DoStore(t),
         NEW l \in Order!Loc, NEW o \in {"release", "seq_cst", "relaxed", "plain"},
         Order!Instr(t) = Order!Store(l, o), Len(stores[l]) = 1
  PROVE  /\ OrderTypes' /\ StoreValues'
         /\ Len(stores'[l]) = 2
         /\ \A m \in Order!Loc : m # l => stores'[m] = stores[m]
         /\ view' = [view EXCEPT ![t] = [@ EXCEPT ![l] = 2]]
         /\ at' = [at EXCEPT ![t] = @ + 1]
         /\ UNCHANGED <<text, released, acquired, z>>
         /\ o \in {"release", "seq_cst"} => stores'[l][2].view = view'[t]
         /\ \A m \in Order!Loc : o = "relaxed" /\ m # l => stores'[l][2].view[m] = released[t][m]
         /\ sc' = IF o = "seq_cst" THEN [sc EXCEPT ![l] = 2] ELSE sc
<1>1. Order!Instr(t).loc = l /\ Order!Instr(t).order = o
  BY DEF Order!Store
<1>. DEFINE mine == [view[t] EXCEPT ![l] = 2]
            handed == CASE o \in {"release", "seq_cst"} -> mine
                        [] o = "relaxed" -> [released[t] EXCEPT ![l] = mine[l]]
                        [] o = "plain" -> Order!NoView
            new == [value |-> TRUE, view |-> handed]
<1>2. view[t] \in SmallView /\ released[t] \in SmallView /\ Len(stores[l]) + 1 = 2
  BY DEF OrderTypes
<1>3. mine \in SmallView /\ mine[l] = 2 /\ Order!NoView \in SmallView
  BY <1>2 DEF SmallView, Order!NoView
<1>4. [released[t] EXCEPT ![l] = mine[l]] \in SmallView
  BY <1>2, <1>3 DEF SmallView
<1>5. handed \in SmallView
  <2>1. CASE o \in {"release", "seq_cst"}
    BY <1>3, <2>1
  <2>2. CASE o = "relaxed"
    BY <1>4, <2>2
  <2>3. CASE o = "plain"
    BY <1>3, <2>3
  <2>. QED
    BY <2>1, <2>2, <2>3
<1>6. /\ stores' = [stores EXCEPT ![l] = Append(@, new)]
      /\ view' = [view EXCEPT ![t] = mine]
      /\ sc' = IF o = "seq_cst" THEN [sc EXCEPT ![l] = mine[l]] ELSE sc
      /\ at' = [at EXCEPT ![t] = @ + 1]
      /\ UNCHANGED <<text, released, acquired, z>>
  <2>1. mine = [view[t] EXCEPT ![l] = Len(stores[l]) + 1]
    BY <1>2
  <2>. HIDE DEF mine
  <2>. QED
    <3>1. stores' = [stores EXCEPT ![l] = Append(@, new)]
      <4>. DEFINE loc == Order!Instr(t).loc
                  order == Order!Instr(t).order
                  own == [view[t] EXCEPT ![loc] = Len(stores[loc]) + 1]
                  gives == CASE order \in {"release", "seq_cst"} -> own
                             [] order = "relaxed" -> [released[t] EXCEPT ![loc] = own[loc]]
                             [] order = "plain" -> Order!NoView
      <4>1. stores' = [stores EXCEPT ![loc] = Append(@, [value |-> TRUE, view |-> gives])]
        BY DEF Order!DoStore
      <4>2. own = mine
        BY <1>1, <2>1
      <4>. HIDE DEF own
      <4>3. gives = handed
        BY <1>1, <4>2
      <4>. HIDE DEF gives, handed
      <4>. QED
        BY <1>1, <4>1, <4>3
    <3>2. view' = [view EXCEPT ![t] = mine]
      BY <1>1, <2>1 DEF Order!DoStore
    <3>3. sc' = IF o = "seq_cst" THEN [sc EXCEPT ![l] = mine[l]] ELSE sc
      <4>. DEFINE loc == Order!Instr(t).loc
                  own == [view[t] EXCEPT ![loc] = Len(stores[loc]) + 1]
      <4>1. sc' = IF Order!Instr(t).order = "seq_cst" THEN [sc EXCEPT ![loc] = own[loc]] ELSE sc
        BY DEF Order!DoStore
      <4>2. own = mine
        BY <1>1, <2>1
      <4>. HIDE DEF own
      <4>. QED
        BY <1>1, <4>1, <4>2
    <3>4. at' = [at EXCEPT ![t] = @ + 1] /\ UNCHANGED <<text, released, acquired, z>>
      BY DEF Order!DoStore, Order!Step
    <3>. QED
      BY <3>1, <3>2, <3>3, <3>4
<1>7. o \in {"release", "seq_cst"} => handed = mine
  OBVIOUS
<1>8. \A m \in Order!Loc : o = "relaxed" /\ m # l => handed[m] = released[t][m]
  BY <1>2 DEF SmallView
<1>. HIDE DEF handed
<1>9. new \in SmallStore /\ new.value = TRUE /\ new.view = handed
  BY <1>5 DEF SmallStore
<1>. HIDE DEF new, mine
<1>10. stores[l] \in Seq(SmallStore)
  BY DEF OrderTypes
<1>11. /\ Append(stores[l], new) \in Seq(SmallStore) /\ Len(Append(stores[l], new)) = 2
       /\ Append(stores[l], new)[1] = stores[l][1] /\ Append(stores[l], new)[2] = new
  BY <1>9, <1>10, AppendOne
<1>12. /\ stores'[l] = Append(stores[l], new)
       /\ \A m \in Order!Loc : m # l => stores'[m] = stores[m]
       /\ stores' \in [Order!Loc -> Seq(SmallStore)]
  BY <1>6, <1>11 DEF OrderTypes
<1>13. /\ view' \in [Order!Thread -> SmallView] /\ view'[t] = mine
  BY <1>3, <1>6 DEF OrderTypes
<1>14. sc' \in SmallView /\ sc' = IF o = "seq_cst" THEN [sc EXCEPT ![l] = 2] ELSE sc
  BY <1>3, <1>6 DEF OrderTypes, SmallView
<1>15. at' \in [Order!Thread -> Nat]
  BY <1>6 DEF OrderTypes
<1>16. OrderTypes'
  BY <1>6, <1>12, <1>13, <1>14, <1>15 DEF OrderTypes, Order!Thread
<1>17. StoreValues'
  <2>. SUFFICES ASSUME NEW m \in Order!Loc
                PROVE  /\ Len(stores'[m]) \in {1, 2} /\ ~stores'[m][1].value
                       /\ Len(stores'[m]) = 2 => stores'[m][2].value
    BY DEF StoreValues
  <2>1. CASE m = l
    BY <1>9, <1>11, <1>12, <2>1 DEF StoreValues
  <2>2. CASE m # l
    BY <1>12, <2>2 DEF StoreValues
  <2>. QED
    BY <2>1, <2>2
<1>18. view' = [view EXCEPT ![t] = [@ EXCEPT ![l] = 2]]
  BY <1>6 DEF mine
<1>. QED
  BY <1>6, <1>7, <1>8, <1>9, <1>11, <1>12, <1>13, <1>14, <1>16, <1>17, <1>18

(* What a load reads, and what it does to the views of its thread.          *)
LEMMA ReadEffect ==
  ASSUME OrderTypes, StoreValues, NEW t \in Order!Thread,
         NEW k \in Order!Readable(t), Order!Read(t, k),
         NEW l \in Order!Loc, Order!Instr(t).loc = l
  PROVE  /\ k \in {1, 2} /\ k <= Len(stores[l]) /\ k >= view[t][l]
         /\ Order!Instr(t).order = "seq_cst" => k >= sc[l]
         /\ stores[l][k].value <=> k = 2
         /\ stores[l][k].view \in SmallView
         /\ view' \in [Order!Thread -> SmallView] /\ acquired' \in [Order!Thread -> SmallView]
         /\ \A u \in Order!Thread : u # t => view'[u] = view[u] /\ acquired'[u] = acquired[u]
         /\ Order!Instr(t).order = "acquire" =>
              \A m \in Order!Loc : stores[l][k].view[m] = 2 => view'[t][m] = 2
         /\ \A m \in Order!Loc : stores[l][k].view[m] = 2 => acquired'[t][m] = 2
<1>. DEFINE handed == stores[l][k].view
            got == [view[t] EXCEPT ![l] = k]
<1>0. Len(stores[l]) \in Nat
  BY DEF OrderTypes
<1>1. k \in 1 .. Len(stores[l])
  BY DEF Order!Readable
<1>r. k >= view[t][l] /\ (Order!Instr(t).order = "seq_cst" => k >= sc[l])
  BY DEF Order!Readable
<1>2. k \in {1, 2} /\ k <= Len(stores[l]) /\ (stores[l][k].value <=> k = 2)
  <2>1. Len(stores[l]) \in {1, 2}
    BY DEF StoreValues
  <2>0. \A n \in {1, 2} : \A j \in 1 .. n :
          (j = 1 \/ (j = 2 /\ n = 2)) /\ j \in {1, 2} /\ j <= n
    OBVIOUS
  <2>2. /\ k = 1 \/ (k = 2 /\ Len(stores[l]) = 2)
        /\ k \in {1, 2} /\ k <= Len(stores[l])
    BY <1>1, <2>0, <2>1, Zenon
  <2>3. ~stores[l][1].value
    BY DEF StoreValues
  <2>4. Len(stores[l]) = 2 => stores[l][2].value
    BY DEF StoreValues
  <2>5. k \in {1, 2} /\ k <= Len(stores[l])
    BY <2>2
  <2>6. CASE k = 1
    BY <2>3, <2>5, <2>6
  <2>7. CASE k = 2 /\ Len(stores[l]) = 2
    BY <2>4, <2>5, <2>7
  <2>. QED
    BY <2>2, <2>6, <2>7
<1>3. stores[l] \in Seq(SmallStore)
  BY DEF OrderTypes
<1>4. stores[l][k] \in SmallStore
  BY <1>1, <1>3
<1>5. handed \in SmallView
  BY <1>4 DEF SmallStore
<1>6. view[t] \in SmallView /\ acquired[t] \in SmallView
  BY DEF OrderTypes
<1>7. got \in SmallView
  BY <1>2, <1>6 DEF SmallView
<1>8. /\ view' = [view EXCEPT ![t] = IF Order!Instr(t).order \in {"acquire", "seq_cst"}
                                      THEN Order!Later(got, handed) ELSE got]
      /\ acquired' = [acquired EXCEPT ![t] = Order!Later(@, handed)]
  BY DEF Order!Read
<1>. HIDE DEF got, handed
<1>9. /\ Order!Later(got, handed) \in SmallView
      /\ \A m \in Order!Loc : handed[m] = 2 => Order!Later(got, handed)[m] = 2
      /\ Order!Later(acquired[t], handed) \in SmallView
      /\ \A m \in Order!Loc : handed[m] = 2 => Order!Later(acquired[t], handed)[m] = 2
  BY <1>5, <1>6, <1>7, LaterView
<1>10. /\ view' \in [Order!Thread -> SmallView]
       /\ \A u \in Order!Thread : u # t => view'[u] = view[u]
       /\ Order!Instr(t).order = "acquire" => view'[t] = Order!Later(got, handed)
  BY <1>7, <1>8, <1>9 DEF OrderTypes
<1>11. /\ acquired' \in [Order!Thread -> SmallView]
       /\ \A u \in Order!Thread : u # t => acquired'[u] = acquired[u]
       /\ acquired'[t] = Order!Later(acquired[t], handed)
  BY <1>8, <1>9 DEF OrderTypes
<1>. QED
  BY <1>2, <1>r, <1>5, <1>9, <1>10, <1>11 DEF handed

(* while(!l.load(order)): the loop is left when the last store was read.    *)
LEMMA AwaitEffect ==
  ASSUME OrderTypes, StoreValues, NEW t \in Order!Thread, Order!DoAwait(t),
         NEW l \in Order!Loc, NEW o, Order!Instr(t) = Order!Await(l, o)
  PROVE  /\ OrderTypes' /\ StoreValues'
         /\ UNCHANGED <<text, stores, released, sc, z>>
         /\ \A u \in Order!Thread : u # t => view'[u] = view[u] /\ acquired'[u] = acquired[u]
         /\ \/ at' = at
            \/ /\ at' = [at EXCEPT ![t] = @ + 1] /\ Len(stores[l]) = 2
               /\ \A m \in Order!Loc :
                    stores[l][2].view[m] = 2 => /\ o = "acquire" => view'[t][m] = 2
                                               /\ acquired'[t][m] = 2
<1>1. Order!Instr(t).loc = l /\ Order!Instr(t).order = o
  BY DEF Order!Await
<1>2. PICK k \in Order!Readable(t) :
        Order!Read(t, k)
        /\ IF stores[l][k].value THEN at' = [at EXCEPT ![t] = @ + 1] ELSE at' = at
  BY <1>1 DEF Order!DoAwait, Order!Step
<1>3. /\ k \in {1, 2} /\ k <= Len(stores[l]) /\ (stores[l][k].value <=> k = 2)
      /\ view' \in [Order!Thread -> SmallView] /\ acquired' \in [Order!Thread -> SmallView]
      /\ \A u \in Order!Thread : u # t => view'[u] = view[u] /\ acquired'[u] = acquired[u]
      /\ o = "acquire" => \A m \in Order!Loc : stores[l][k].view[m] = 2 => view'[t][m] = 2
      /\ \A m \in Order!Loc : stores[l][k].view[m] = 2 => acquired'[t][m] = 2
  BY <1>1, <1>2, ReadEffect
<1>4. UNCHANGED <<text, stores, released, sc, z>>
  BY DEF Order!DoAwait
<1>5. at' \in [Order!Thread -> Nat]
  <2>1. at' = [at EXCEPT ![t] = @ + 1] \/ at' = at
    BY <1>2
  <2>. QED
    BY <2>1 DEF OrderTypes
<1>6. OrderTypes'
  BY <1>3, <1>4, <1>5 DEF OrderTypes, Order!Thread
<1>7. StoreValues'
  BY <1>4 DEF StoreValues
<1>8. Len(stores[l]) \in {1, 2}
  BY DEF StoreValues
<1>9. k = 2 => Len(stores[l]) = 2 /\ at' = [at EXCEPT ![t] = @ + 1]
  BY <1>2, <1>3, <1>8
<1>10. k # 2 => at' = at
  BY <1>2, <1>3
<1>. QED
  BY <1>3, <1>4, <1>6, <1>7, <1>9, <1>10

(* if(l.load(order)) ++z: z counts when the thread cannot overlook the last *)
(* store.                                                                   *)
LEMMA CountEffect ==
  ASSUME OrderTypes, StoreValues, NEW t \in Order!Thread, Order!DoCount(t),
         NEW l \in Order!Loc, NEW o, Order!Instr(t) = Order!Count(l, o)
  PROVE  /\ OrderTypes' /\ StoreValues'
         /\ UNCHANGED <<text, stores, released, sc>>
         /\ \A u \in Order!Thread : u # t => view'[u] = view[u] /\ acquired'[u] = acquired[u]
         /\ at' = [at EXCEPT ![t] = @ + 1]
         /\ z' \in {z, z + 1}
         /\ view[t][l] = 2 \/ (o = "seq_cst" /\ sc[l] = 2) => z' = z + 1
<1>1. Order!Instr(t).loc = l /\ Order!Instr(t).order = o
  BY DEF Order!Count
<1>2. PICK k \in Order!Readable(t) :
        Order!Read(t, k) /\ z' = IF stores[l][k].value THEN z + 1 ELSE z
  BY <1>1 DEF Order!DoCount
<1>3. /\ k \in {1, 2} /\ (stores[l][k].value <=> k = 2) /\ k >= view[t][l]
      /\ o = "seq_cst" => k >= sc[l]
      /\ view' \in [Order!Thread -> SmallView] /\ acquired' \in [Order!Thread -> SmallView]
      /\ \A u \in Order!Thread : u # t => view'[u] = view[u] /\ acquired'[u] = acquired[u]
  BY <1>1, <1>2, ReadEffect
<1>4. UNCHANGED <<text, stores, released, sc>> /\ at' = [at EXCEPT ![t] = @ + 1]
  BY DEF Order!DoCount, Order!Step
<1>5. at' \in [Order!Thread -> Nat] /\ z' \in Nat /\ z' \in {z, z + 1}
  BY <1>2, <1>4 DEF OrderTypes
<1>6. OrderTypes'
  BY <1>3, <1>4, <1>5 DEF OrderTypes, Order!Thread
<1>7. StoreValues'
  BY <1>4 DEF StoreValues
<1>8. view[t][l] = 2 \/ (o = "seq_cst" /\ sc[l] = 2) => k = 2
  <2>1. \A j \in {1, 2} : j >= 2 => j = 2
    OBVIOUS
  <2>. QED
    BY <1>3, <2>1, Zenon
<1>. QED
  BY <1>2, <1>3, <1>4, <1>5, <1>6, <1>7, <1>8

(* atomic_thread_fence(order).                                              *)
LEMMA FenceEffect ==
  ASSUME OrderTypes, StoreValues, NEW t \in Order!Thread, Order!DoFence(t),
         NEW o, Order!Instr(t) = Order!Fence(o)
  PROVE  /\ OrderTypes' /\ StoreValues'
         /\ UNCHANGED <<text, stores, acquired, sc, z>>
         /\ at' = [at EXCEPT ![t] = @ + 1]
         /\ \A u \in Order!Thread : u # t => view'[u] = view[u] /\ released'[u] = released[u]
         /\ o = "release" => view' = view /\ released'[t] = view[t]
         /\ o # "release" => \A m \in Order!Loc : acquired[t][m] = 2 => view'[t][m] = 2
<1>1. Order!Instr(t).order = o
  BY DEF Order!Fence
<1>2. UNCHANGED <<text, stores, acquired, sc, z>> /\ at' = [at EXCEPT ![t] = @ + 1]
  BY DEF Order!DoFence, Order!Step
<1>3. at' \in [Order!Thread -> Nat]
  BY <1>2 DEF OrderTypes
<1>4. view[t] \in SmallView /\ acquired[t] \in SmallView
  BY DEF OrderTypes
<1>5. StoreValues'
  BY <1>2 DEF StoreValues
<1>6. CASE o = "release"
  <2>1. released' = [released EXCEPT ![t] = view[t]] /\ view' = view
    BY <1>1, <1>6 DEF Order!DoFence
  <2>2. /\ released' \in [Order!Thread -> SmallView] /\ released'[t] = view[t]
        /\ \A u \in Order!Thread : u # t => released'[u] = released[u]
    BY <1>4, <2>1 DEF OrderTypes
  <2>3. OrderTypes'
    BY <1>2, <1>3, <2>1, <2>2 DEF OrderTypes, Order!Thread
  <2>. QED
    BY <1>2, <1>5, <1>6, <2>1, <2>2, <2>3
<1>7. CASE o # "release"
  <2>1. view' = [view EXCEPT ![t] = Order!Later(@, acquired[t])] /\ released' = released
    BY <1>1, <1>7 DEF Order!DoFence
  <2>2. /\ Order!Later(view[t], acquired[t]) \in SmallView
        /\ \A m \in Order!Loc : acquired[t][m] = 2 => Order!Later(view[t], acquired[t])[m] = 2
    BY <1>4, LaterView
  <2>3. /\ view' \in [Order!Thread -> SmallView] /\ view'[t] = Order!Later(view[t], acquired[t])
        /\ \A u \in Order!Thread : u # t => view'[u] = view[u]
    BY <2>1, <2>2 DEF OrderTypes
  <2>4. OrderTypes'
    BY <1>2, <1>3, <2>1, <2>3 DEF OrderTypes, Order!Thread
  <2>. QED
    BY <1>2, <1>5, <1>7, <2>1, <2>2, <2>3, <2>4
<1>. QED
  BY <1>6, <1>7

(* The text of the programs, one thread after the other.                    *)
LEMMA SeqText ==
  ASSUME text = Order!sequential_ordering
  PROVE  /\ Order!Thread = 1 .. 4
         /\ text[1] = << Order!Store("x", "seq_cst") >>
         /\ text[2] = << Order!Store("y", "seq_cst") >>
         /\ text[3] = << Order!Await("x", "seq_cst"), Order!Count("y", "seq_cst") >>
         /\ text[4] = << Order!Await("y", "seq_cst"), Order!Count("x", "seq_cst") >>
BY DEF Order!Thread, Order!sequential_ordering, Order!TwoWriters

(* acq_rel_ordering2.                                                       *)
LEMMA AcqRelText ==
  ASSUME text = Order!acq_rel_ordering2
  PROVE  /\ Order!Thread = 1 .. 2
         /\ text[1] = << Order!Store("x", "relaxed"), Order!Store("y", "release") >>
         /\ text[2] = << Order!Await("y", "acquire"), Order!Count("x", "relaxed") >>
BY DEF Order!Thread, Order!acq_rel_ordering2

(* The programs with fences.                                                *)
LEMMA FenceText ==
  ASSUME text \in {Order!fence_ordering, Order!fence_ordering2}
  PROVE  /\ Order!Thread = 1 .. 2
         /\ \E o \in {"relaxed", "plain"} :
              /\ text[1] = << Order!Store("x", o), Order!Fence("release"),
                              Order!Store("y", "relaxed") >>
              /\ text[2] = << Order!Await("y", "relaxed"), Order!Fence("acquire"),
                              Order!Count("x", o) >>
<1>1. \A o : Order!Fenced(o)[1] = << Order!Store("x", o), Order!Fence("release"),
                                     Order!Store("y", "relaxed") >>
  BY DEF Order!Fenced
<1>2. \A o : Order!Fenced(o)[2] = << Order!Await("y", "relaxed"), Order!Fence("acquire"),
                                     Order!Count("x", o) >>
  BY DEF Order!Fenced
<1>3. \A o : DOMAIN Order!Fenced(o) = 1 .. 2
  BY DEF Order!Fenced
<1>. QED
  BY <1>1, <1>2, <1>3 DEF Order!Thread, Order!fence_ordering, Order!fence_ordering2
(* sequential_ordering, operation by operation.                             *)
LEMMA SeqAt ==
  ASSUME text = Order!sequential_ordering, OrderTypes, NEW t \in Order!Thread
  PROVE  /\ Order!At(t, "store") =>
              at[t] = 1 /\ \/ t = 1 /\ Order!Instr(t) = Order!Store("x", "seq_cst")
                           \/ t = 2 /\ Order!Instr(t) = Order!Store("y", "seq_cst")
         /\ Order!At(t, "await") =>
              at[t] = 1 /\ \/ t = 3 /\ Order!Instr(t) = Order!Await("x", "seq_cst")
                           \/ t = 4 /\ Order!Instr(t) = Order!Await("y", "seq_cst")
         /\ Order!At(t, "count") =>
              at[t] = 2 /\ \/ t = 3 /\ Order!Instr(t) = Order!Count("y", "seq_cst")
                           \/ t = 4 /\ Order!Instr(t) = Order!Count("x", "seq_cst")
         /\ ~Order!At(t, "fence")
<1>1. t = 1 \/ t = 2 \/ t = 3 \/ t = 4
  BY SeqText
<1>2. CASE t = 1
  BY <1>2, SeqText DEF Order!At, Order!Instr, Order!Store
<1>3. CASE t = 2
  BY <1>3, SeqText DEF Order!At, Order!Instr, Order!Store
<1>4. CASE t = 3
  BY <1>4, SeqText DEF Order!At, Order!Instr, Order!Await, Order!Count
<1>5. CASE t = 4
  BY <1>5, SeqText DEF Order!At, Order!Instr, Order!Await, Order!Count
<1>. QED
  BY <1>1, <1>2, <1>3, <1>4, <1>5

(* A step of sequential_ordering.                                           *)
LEMMA SeqStep ==
  ASSUME text = Order!sequential_ordering, OrderTypes, StoreValues, SeqInv,
         NEW t \in Order!Thread, Order!Run(t)
  PROVE  OrderTypes' /\ StoreValues' /\ SeqInv' /\ text' = text
<1>0. Order!Thread = 1 .. 4 /\ Order!Loc = {"x", "y"} /\ at \in [1 .. 4 -> Nat] /\ z \in Nat
  BY SeqText DEF Order!Loc, OrderTypes
<1>1. CASE Order!DoStore(t)
  <2>1. at[t] = 1 /\ \/ t = 1 /\ Order!Instr(t) = Order!Store("x", "seq_cst")
                     \/ t = 2 /\ Order!Instr(t) = Order!Store("y", "seq_cst")
    BY <1>1, SeqAt DEF Order!DoStore
  <2>2. PICK l \in Order!Loc : /\ Order!Instr(t) = Order!Store(l, "seq_cst")
                               /\ (t = 1 /\ l = "x") \/ (t = 2 /\ l = "y")
    BY <1>0, <2>1
  <2>a. (t = 1 => l = "x") /\ (t = 2 => l = "y")
    BY <2>2
  <2>b. t = 1 \/ t = 2
    BY <2>2
  <2>3. Len(stores[l]) = 1
    BY <2>1, <2>a, <2>b DEF SeqInv
  <2>4. /\ OrderTypes' /\ StoreValues'
        /\ Len(stores'[l]) = 2
        /\ \A m \in Order!Loc : m # l => stores'[m] = stores[m]
        /\ at' = [at EXCEPT ![t] = @ + 1]
        /\ text' = text /\ z' = z
        /\ sc' = [sc EXCEPT ![l] = 2]
    BY <1>1, <2>2, <2>3, StoreEffect
  <2>5. \A m \in Order!Loc : sc'[m] = Len(stores'[m])
    BY <2>4 DEF SeqInv, OrderTypes, SmallView
  <2>6. at'[t] = 2 /\ \A u \in 1 .. 4 : u # t => at'[u] = at[u]
    BY <1>0, <2>1, <2>4
  <2>7. Len(stores'["x"]) = at'[1] /\ Len(stores'["y"]) = at'[2]
    <3>1. CASE t = 1
      BY <1>0, <2>1, <2>a, <2>4, <2>6, <3>1 DEF SeqInv
    <3>2. CASE t = 2
      BY <1>0, <2>1, <2>a, <2>4, <2>6, <3>2 DEF SeqInv
    <3>. QED
      BY <2>b, <3>1, <3>2
  <2>8. at'[3] = at[3] /\ at'[4] = at[4] /\ (at[1] = 2 => at'[1] = 2) /\ (at[2] = 2 => at'[2] = 2)
    BY <2>1, <2>2, <2>6
  <2>9. SeqInv'
    BY <2>4, <2>5, <2>7, <2>8 DEF SeqInv
  <2>. QED
    BY <2>4, <2>9
<1>2. CASE Order!DoAwait(t)
  <2>1. at[t] = 1 /\ \/ t = 3 /\ Order!Instr(t) = Order!Await("x", "seq_cst")
                     \/ t = 4 /\ Order!Instr(t) = Order!Await("y", "seq_cst")
    BY <1>2, SeqAt DEF Order!DoAwait
  <2>2. PICK l \in Order!Loc : /\ Order!Instr(t) = Order!Await(l, "seq_cst")
                               /\ (t = 3 /\ l = "x") \/ (t = 4 /\ l = "y")
    BY <1>0, <2>1
  <2>a. (t = 3 => l = "x") /\ (t = 4 => l = "y")
    BY <2>2
  <2>3. /\ OrderTypes' /\ StoreValues'
        /\ UNCHANGED <<text, stores, sc, z>>
        /\ at' = at \/ (at' = [at EXCEPT ![t] = @ + 1] /\ Len(stores[l]) = 2)
    BY <1>2, <2>2, AwaitEffect
  <2>4. CASE at' = at
    BY <2>3, <2>4 DEF SeqInv
  <2>5. CASE at' = [at EXCEPT ![t] = @ + 1] /\ Len(stores[l]) = 2
    <3>1. at'[t] = 2 /\ \A u \in 1 .. 4 : u # t => at'[u] = at[u]
      BY <1>0, <2>1, <2>5
    <3>2. at'[1] = at[1] /\ at'[2] = at[2] /\ Len(stores[l]) = 2
      BY <2>1, <2>5, <3>1
    <3>3. CASE t = 3
      <4>1. at[1] = Len(stores["x"])
        BY DEF SeqInv
      <4>2. at'[3] = 2 /\ at'[4] = at[4] /\ at[1] = 2
        BY <2>a, <3>1, <3>2, <3>3, <4>1
      <4>. QED
        BY <2>3, <3>2, <4>2 DEF SeqInv
    <3>4. CASE t = 4
      <4>1. at[2] = Len(stores["y"])
        BY DEF SeqInv
      <4>2. at'[4] = 2 /\ at'[3] = at[3] /\ at[2] = 2
        BY <2>a, <3>1, <3>2, <3>4, <4>1
      <4>. QED
        BY <2>3, <3>2, <4>2 DEF SeqInv
    <3>. QED
      BY <2>1, <2>3, <3>3, <3>4
  <2>. QED
    BY <2>3, <2>4, <2>5
<1>3. CASE Order!DoCount(t)
  <2>1. at[t] = 2 /\ \/ t = 3 /\ Order!Instr(t) = Order!Count("y", "seq_cst")
                     \/ t = 4 /\ Order!Instr(t) = Order!Count("x", "seq_cst")
    BY <1>3, SeqAt DEF Order!DoCount
  <2>2. PICK l \in Order!Loc : /\ Order!Instr(t) = Order!Count(l, "seq_cst")
                               /\ (t = 3 /\ l = "y") \/ (t = 4 /\ l = "x")
    BY <1>0, <2>1
  <2>3. /\ OrderTypes' /\ StoreValues'
        /\ UNCHANGED <<text, stores, sc>>
        /\ at' = [at EXCEPT ![t] = @ + 1]
        /\ z' \in {z, z + 1}
        /\ sc[l] = 2 => z' = z + 1
    BY <1>3, <2>2, CountEffect
  <2>4. at'[t] = 3 /\ \A u \in 1 .. 4 : u # t => at'[u] = at[u]
    BY <1>0, <2>1, <2>3
  <2>5. at'[3] = 3 /\ at'[4] = 3 => z' > 0
    <3>1. CASE t = 3
      BY <1>0, <2>2, <2>3, <2>4, <3>1 DEF SeqInv
    <3>2. CASE t = 4
      BY <1>0, <2>2, <2>3, <2>4, <3>2 DEF SeqInv
    <3>. QED
      BY <2>1, <3>1, <3>2
  <2>6. SeqInv'
    <3>1. CASE t = 3
      BY <2>1, <2>3, <2>4, <2>5, <3>1 DEF SeqInv
    <3>2. CASE t = 4
      BY <2>1, <2>3, <2>4, <2>5, <3>2 DEF SeqInv
    <3>. QED
      BY <2>1, <3>1, <3>2
  <2>. QED
    BY <2>3, <2>6
<1>4. ~Order!DoFence(t)
  BY SeqAt DEF Order!DoFence
<1>. QED
  BY <1>1, <1>2, <1>3, <1>4 DEF Order!Run
(* acq_rel_ordering2, operation by operation.                               *)
LEMMA AcqRelAt ==
  ASSUME text = Order!acq_rel_ordering2, OrderTypes, NEW t \in Order!Thread
  PROVE  /\ Order!At(t, "store") =>
              t = 1 /\ \/ at[t] = 1 /\ Order!Instr(t) = Order!Store("x", "relaxed")
                       \/ at[t] = 2 /\ Order!Instr(t) = Order!Store("y", "release")
         /\ Order!At(t, "await") =>
              t = 2 /\ at[t] = 1 /\ Order!Instr(t) = Order!Await("y", "acquire")
         /\ Order!At(t, "count") =>
              t = 2 /\ at[t] = 2 /\ Order!Instr(t) = Order!Count("x", "relaxed")
         /\ ~Order!At(t, "fence")
<1>1. t = 1 \/ t = 2
  BY AcqRelText
<1>2. CASE t = 1
  BY <1>2, AcqRelText DEF Order!At, Order!Instr, Order!Store
<1>3. CASE t = 2
  BY <1>3, AcqRelText DEF Order!At, Order!Instr, Order!Await, Order!Count
<1>. QED
  BY <1>1, <1>2, <1>3

(* A step of acq_rel_ordering2.                                             *)
LEMMA AcqRelStep ==
  ASSUME text = Order!acq_rel_ordering2, OrderTypes, StoreValues, AcqRelInv,
         NEW t \in Order!Thread, Order!Run(t)
  PROVE  OrderTypes' /\ StoreValues' /\ AcqRelInv' /\ text' = text
<1>0. /\ Order!Thread = 1 .. 2 /\ "x" \in Order!Loc /\ "y" \in Order!Loc
      /\ at \in [1 .. 2 -> Nat] /\ z \in Nat
  BY AcqRelText DEF Order!Loc, OrderTypes
<1>t. view[1] \in [Order!Loc -> {1, 2}] /\ view \in [1 .. 2 -> [Order!Loc -> {1, 2}]]
  BY <1>0 DEF OrderTypes, SmallView
<1>1. CASE Order!DoStore(t)
  <2>1. t = 1 /\ \/ at[t] = 1 /\ Order!Instr(t) = Order!Store("x", "relaxed")
                 \/ at[t] = 2 /\ Order!Instr(t) = Order!Store("y", "release")
    BY <1>1, AcqRelAt DEF Order!DoStore
  <2>2. CASE at[t] = 1 /\ Order!Instr(t) = Order!Store("x", "relaxed")
    <3>1. at[1] = 1 /\ t = 1
      BY <2>1, <2>2
    <3>2. Len(stores["x"]) = 1 /\ Len(stores["y"]) = 1 /\ at[2] = 1
      BY <3>1 DEF AcqRelInv
    <3>3. /\ OrderTypes' /\ StoreValues' /\ Len(stores'["x"]) = 2
          /\ \A m \in Order!Loc : m # "x" => stores'[m] = stores[m]
          /\ view' = [view EXCEPT ![t] = [@ EXCEPT !["x"] = 2]]
          /\ at' = [at EXCEPT ![t] = @ + 1] /\ text' = text
      BY <1>0, <1>1, <2>2, <3>2, StoreEffect
    <3>4. at'[1] = 2 /\ at'[2] = 1
      BY <1>0, <3>1, <3>2, <3>3
    <3>5. view'[1]["x"] = 2
      BY <1>0, <1>t, <3>1, <3>3
    <3>6. Len(stores'["y"]) = 1
      BY <1>0, <3>2, <3>3
    <3>. QED
      BY <3>3, <3>4, <3>5, <3>6 DEF AcqRelInv
  <2>3. CASE at[t] = 2 /\ Order!Instr(t) = Order!Store("y", "release")
    <3>1. at[1] = 2 /\ t = 1
      BY <2>1, <2>3
    <3>2. Len(stores["x"]) = 2 /\ Len(stores["y"]) = 1 /\ at[2] = 1 /\ view[1]["x"] = 2
      BY <3>1 DEF AcqRelInv
    <3>3. /\ OrderTypes' /\ StoreValues' /\ Len(stores'["y"]) = 2
          /\ \A m \in Order!Loc : m # "y" => stores'[m] = stores[m]
          /\ view' = [view EXCEPT ![t] = [@ EXCEPT !["y"] = 2]]
          /\ at' = [at EXCEPT ![t] = @ + 1] /\ text' = text
          /\ stores'["y"][2].view = view'[t]
      BY <1>0, <1>1, <2>3, <3>2, StoreEffect
    <3>4. at'[1] = 3 /\ at'[2] = 1
      BY <1>0, <3>1, <3>2, <3>3
    <3>5. view'[1]["x"] = 2
      BY <1>0, <1>t, <3>1, <3>2, <3>3
    <3>6. Len(stores'["x"]) = 2
      BY <1>0, <3>2, <3>3
    <3>7. stores'["y"][2].view["x"] = 2
      BY <3>1, <3>3, <3>5
    <3>. QED
      BY <3>3, <3>4, <3>5, <3>6, <3>7 DEF AcqRelInv
  <2>. QED
    BY <2>1, <2>2, <2>3
<1>2. CASE Order!DoAwait(t)
  <2>1. t = 2 /\ at[t] = 1 /\ Order!Instr(t) = Order!Await("y", "acquire")
    BY <1>2, AcqRelAt DEF Order!DoAwait
  <2>2. /\ OrderTypes' /\ StoreValues' /\ UNCHANGED <<text, stores, released, sc, z>>
        /\ \A u \in Order!Thread : u # t => view'[u] = view[u]
        /\ \/ at' = at
           \/ /\ at' = [at EXCEPT ![t] = @ + 1] /\ Len(stores["y"]) = 2
              /\ \A m \in Order!Loc : stores["y"][2].view[m] = 2 => view'[t][m] = 2
    BY <1>0, <1>2, <2>1, AwaitEffect
  <2>3. view'[1] = view[1]
    BY <1>0, <2>1, <2>2
  <2>4. CASE at' = at
    BY <2>1, <2>2, <2>3, <2>4 DEF AcqRelInv
  <2>5. CASE /\ at' = [at EXCEPT ![t] = @ + 1] /\ Len(stores["y"]) = 2
             /\ \A m \in Order!Loc : stores["y"][2].view[m] = 2 => view'[t][m] = 2
    <3>1. at'[2] = 2 /\ at'[1] = at[1]
      BY <1>0, <2>1, <2>5
    <3>2. Len(stores["y"]) = 2
      BY <2>5
    <3>3. at[1] = 3 /\ stores["y"][2].view["x"] = 2
      <4>1. Len(stores["y"]) = (IF at[1] = 3 THEN 2 ELSE 1)
        BY DEF AcqRelInv
      <4>2. at[1] = 3
        BY <3>2, <4>1
      <4>. QED
        BY <4>2 DEF AcqRelInv
    <3>4. view'[2]["x"] = 2
      BY <1>0, <2>1, <2>5, <3>3
    <3>. QED
      BY <2>2, <2>3, <3>1, <3>3, <3>4 DEF AcqRelInv
  <2>. QED
    BY <2>2, <2>4, <2>5
<1>3. CASE Order!DoCount(t)
  <2>1. t = 2 /\ at[t] = 2 /\ Order!Instr(t) = Order!Count("x", "relaxed")
    BY <1>3, AcqRelAt DEF Order!DoCount
  <2>2. view[2]["x"] = 2 /\ at[1] = 3
    BY <2>1 DEF AcqRelInv
  <2>3. /\ OrderTypes' /\ StoreValues' /\ UNCHANGED <<text, stores, released, sc>>
        /\ \A u \in Order!Thread : u # t => view'[u] = view[u]
        /\ at' = [at EXCEPT ![t] = @ + 1]
        /\ view[t]["x"] = 2 => z' = z + 1
    BY <1>0, <1>3, <2>1, CountEffect
  <2>4. at'[2] = 3 /\ at'[1] = 3 /\ view'[1] = view[1]
    BY <1>0, <2>1, <2>2, <2>3
  <2>5. z' > 0
    BY <1>0, <2>1, <2>2, <2>3
  <2>6. /\ Len(stores["x"]) = 2 /\ Len(stores["y"]) = 2 /\ view[1]["x"] = 2
        /\ stores["y"][2].view["x"] = 2
    BY <2>2 DEF AcqRelInv
  <2>7. stores' = stores /\ released' = released
    BY <2>3
  <2>8. AcqRelInv'
    BY <2>4, <2>5, <2>6, <2>7 DEF AcqRelInv
  <2>. QED
    BY <2>3, <2>8
<1>4. ~Order!DoFence(t)
  BY AcqRelAt DEF Order!DoFence
<1>. QED
  BY <1>1, <1>2, <1>3, <1>4 DEF Order!Run

(* The programs with fences, operation by operation.                        *)
LEMMA FenceAt ==
  ASSUME text \in {Order!fence_ordering, Order!fence_ordering2}, OrderTypes, NEW t \in Order!Thread
  PROVE  \E o \in {"relaxed", "plain"} :
         /\ Order!At(t, "store") =>
              t = 1 /\ \/ at[t] = 1 /\ Order!Instr(t) = Order!Store("x", o)
                       \/ at[t] = 3 /\ Order!Instr(t) = Order!Store("y", "relaxed")
         /\ Order!At(t, "await") =>
              t = 2 /\ at[t] = 1 /\ Order!Instr(t) = Order!Await("y", "relaxed")
         /\ Order!At(t, "count") =>
              t = 2 /\ at[t] = 3 /\ Order!Instr(t) = Order!Count("x", o)
         /\ Order!At(t, "fence") =>
              at[t] = 2 /\ \/ t = 1 /\ Order!Instr(t) = Order!Fence("release")
                           \/ t = 2 /\ Order!Instr(t) = Order!Fence("acquire")
<1>1. t = 1 \/ t = 2
  BY FenceText
<1>2. PICK o \in {"relaxed", "plain"} :
        /\ text[1] = << Order!Store("x", o), Order!Fence("release"), Order!Store("y", "relaxed") >>
        /\ text[2] = << Order!Await("y", "relaxed"), Order!Fence("acquire"), Order!Count("x", o) >>
  BY FenceText
<1>3. CASE t = 1
  <2>1. /\ DOMAIN text[1] = 1 .. 3 /\ text[1][1] = Order!Store("x", o)
        /\ text[1][2] = Order!Fence("release") /\ text[1][3] = Order!Store("y", "relaxed")
    BY <1>2
  <2>. QED
    BY <1>3, <2>1 DEF Order!At, Order!Instr, Order!Store, Order!Fence
<1>4. CASE t = 2
  <2>1. /\ DOMAIN text[2] = 1 .. 3 /\ text[2][1] = Order!Await("y", "relaxed")
        /\ text[2][2] = Order!Fence("acquire") /\ text[2][3] = Order!Count("x", o)
    BY <1>2
  <2>. QED
    BY <1>4, <2>1 DEF Order!At, Order!Instr, Order!Await, Order!Fence, Order!Count
<1>. QED
  BY <1>1, <1>3, <1>4

(* A step of a program with fences.                                         *)
LEMMA FenceStep ==
  ASSUME text \in {Order!fence_ordering, Order!fence_ordering2},
         OrderTypes, StoreValues, FenceInv, NEW t \in Order!Thread, Order!Run(t)
  PROVE  OrderTypes' /\ StoreValues' /\ FenceInv' /\ text' = text
<1>0. /\ Order!Thread = 1 .. 2 /\ "x" \in Order!Loc /\ "y" \in Order!Loc
      /\ at \in [1 .. 2 -> Nat] /\ z \in Nat
  BY FenceText DEF Order!Loc, OrderTypes
<1>t. view[1] \in [Order!Loc -> {1, 2}] /\ view \in [1 .. 2 -> [Order!Loc -> {1, 2}]]
  BY <1>0 DEF OrderTypes, SmallView
<1>1. CASE Order!DoStore(t)
  <2>0. PICK o \in {"relaxed", "plain"} :
          t = 1 /\ \/ at[t] = 1 /\ Order!Instr(t) = Order!Store("x", o)
                   \/ at[t] = 3 /\ Order!Instr(t) = Order!Store("y", "relaxed")
    BY <1>1, FenceAt DEF Order!DoStore
  <2>2. CASE at[t] = 1 /\ Order!Instr(t) = Order!Store("x", o)
    <3>1. at[1] = 1 /\ t = 1
      BY <2>0, <2>2
    <3>2. Len(stores["x"]) = 1 /\ Len(stores["y"]) = 1 /\ at[2] = 1
      BY <3>1 DEF FenceInv
    <3>3. /\ OrderTypes' /\ StoreValues' /\ Len(stores'["x"]) = 2
          /\ \A m \in Order!Loc : m # "x" => stores'[m] = stores[m]
          /\ view' = [view EXCEPT ![t] = [@ EXCEPT !["x"] = 2]]
          /\ at' = [at EXCEPT ![t] = @ + 1] /\ text' = text
      BY <1>0, <1>1, <2>2, <3>2, StoreEffect
    <3>4. at'[1] = 2 /\ at'[2] = 1
      BY <1>0, <3>1, <3>2, <3>3
    <3>5. view'[1]["x"] = 2
      BY <1>0, <1>t, <3>1, <3>3
    <3>6. Len(stores'["y"]) = 1
      BY <1>0, <3>2, <3>3
    <3>. QED
      BY <3>3, <3>4, <3>5, <3>6 DEF FenceInv
  <2>3. CASE at[t] = 3 /\ Order!Instr(t) = Order!Store("y", "relaxed")
    <3>1. at[1] = 3 /\ t = 1
      BY <2>0, <2>3
    <3>2. /\ Len(stores["x"]) = 2 /\ Len(stores["y"]) = 1 /\ at[2] = 1
          /\ view[1]["x"] = 2 /\ released[1]["x"] = 2
      BY <3>1 DEF FenceInv
    <3>3. /\ OrderTypes' /\ StoreValues' /\ Len(stores'["y"]) = 2
          /\ \A m \in Order!Loc : m # "y" => stores'[m] = stores[m]
          /\ view' = [view EXCEPT ![t] = [@ EXCEPT !["y"] = 2]]
          /\ at' = [at EXCEPT ![t] = @ + 1] /\ text' = text /\ released' = released
          /\ \A m \in Order!Loc : m # "y" => stores'["y"][2].view[m] = released[t][m]
      BY <1>0, <1>1, <2>3, <3>2, StoreEffect
    <3>4. at'[1] = 4 /\ at'[2] = 1
      BY <1>0, <3>1, <3>2, <3>3
    <3>5. view'[1]["x"] = 2
      BY <1>0, <1>t, <3>1, <3>2, <3>3
    <3>6. Len(stores'["x"]) = 2
      BY <1>0, <3>2, <3>3
    <3>7. stores'["y"][2].view["x"] = 2 /\ released'[1]["x"] = 2
      BY <1>0, <3>1, <3>2, <3>3
    <3>. QED
      BY <3>3, <3>4, <3>5, <3>6, <3>7 DEF FenceInv
  <2>. QED
    BY <2>0, <2>2, <2>3
<1>2. CASE Order!DoAwait(t)
  <2>1. t = 2 /\ at[t] = 1 /\ Order!Instr(t) = Order!Await("y", "relaxed")
    BY <1>2, FenceAt DEF Order!DoAwait
  <2>2. /\ OrderTypes' /\ StoreValues' /\ UNCHANGED <<text, stores, released, sc, z>>
        /\ \A u \in Order!Thread : u # t => view'[u] = view[u]
        /\ \/ at' = at
           \/ /\ at' = [at EXCEPT ![t] = @ + 1] /\ Len(stores["y"]) = 2
              /\ \A m \in Order!Loc : stores["y"][2].view[m] = 2 => acquired'[t][m] = 2
    BY <1>0, <1>2, <2>1, AwaitEffect
  <2>3. view'[1] = view[1]
    BY <1>0, <2>1, <2>2
  <2>4. CASE at' = at
    BY <2>1, <2>2, <2>3, <2>4 DEF FenceInv
  <2>5. CASE /\ at' = [at EXCEPT ![t] = @ + 1] /\ Len(stores["y"]) = 2
             /\ \A m \in Order!Loc : stores["y"][2].view[m] = 2 => acquired'[t][m] = 2
    <3>1. at'[2] = 2 /\ at'[1] = at[1]
      BY <1>0, <2>1, <2>5
    <3>2. Len(stores["y"]) = 2
      BY <2>5
    <3>3. at[1] = 4 /\ stores["y"][2].view["x"] = 2
      <4>1. Len(stores["y"]) = (IF at[1] = 4 THEN 2 ELSE 1)
        BY DEF FenceInv
      <4>2. at[1] = 4
        BY <3>2, <4>1
      <4>. QED
        BY <4>2 DEF FenceInv
    <3>4. acquired'[2]["x"] = 2
      BY <1>0, <2>1, <2>5, <3>3
    <3>. QED
      BY <2>2, <2>3, <3>1, <3>3, <3>4 DEF FenceInv
  <2>. QED
    BY <2>2, <2>4, <2>5
<1>3. CASE Order!DoCount(t)
  <2>1. PICK o \in {"relaxed", "plain"} :
          t = 2 /\ at[t] = 3 /\ Order!Instr(t) = Order!Count("x", o)
    BY <1>3, FenceAt DEF Order!DoCount
  <2>2. view[2]["x"] = 2 /\ at[1] = 4
    BY <2>1 DEF FenceInv
  <2>3. /\ OrderTypes' /\ StoreValues' /\ UNCHANGED <<text, stores, released, sc>>
        /\ \A u \in Order!Thread : u # t => view'[u] = view[u]
        /\ at' = [at EXCEPT ![t] = @ + 1]
        /\ view[t]["x"] = 2 => z' = z + 1
    BY <1>0, <1>3, <2>1, CountEffect
  <2>4. at'[2] = 4 /\ at'[1] = 4 /\ view'[1] = view[1]
    BY <1>0, <2>1, <2>2, <2>3
  <2>5. z' > 0
    BY <1>0, <2>1, <2>2, <2>3
  <2>6. /\ Len(stores["x"]) = 2 /\ Len(stores["y"]) = 2 /\ view[1]["x"] = 2
        /\ stores["y"][2].view["x"] = 2 /\ released[1]["x"] = 2
    BY <2>2 DEF FenceInv
  <2>7. stores' = stores /\ released' = released
    BY <2>3
  <2>8. FenceInv'
    BY <2>4, <2>5, <2>6, <2>7 DEF FenceInv
  <2>. QED
    BY <2>3, <2>8
<1>4. CASE Order!DoFence(t)
  <2>1. at[t] = 2 /\ \/ t = 1 /\ Order!Instr(t) = Order!Fence("release")
                     \/ t = 2 /\ Order!Instr(t) = Order!Fence("acquire")
    BY <1>4, FenceAt DEF Order!DoFence
  <2>2. CASE t = 1 /\ Order!Instr(t) = Order!Fence("release")
    <3>1. at[1] = 2 /\ t = 1
      BY <2>1, <2>2
    <3>2. view[1]["x"] = 2 /\ at[2] = 1
      BY <3>1 DEF FenceInv
    <3>3. /\ OrderTypes' /\ StoreValues' /\ UNCHANGED <<text, stores, acquired, sc, z>>
          /\ at' = [at EXCEPT ![t] = @ + 1] /\ view' = view /\ released'[t] = view[t]
      BY <1>4, <2>2, FenceEffect
    <3>4. at'[1] = 3 /\ at'[2] = 1 /\ released'[1]["x"] = 2
      BY <1>0, <3>1, <3>2, <3>3
    <3>5. Len(stores["x"]) = 2 /\ Len(stores["y"]) = 1
      BY <3>1 DEF FenceInv
    <3>6. FenceInv'
      BY <3>2, <3>3, <3>4, <3>5 DEF FenceInv
    <3>. QED
      BY <3>3, <3>6
  <2>3. CASE t = 2 /\ Order!Instr(t) = Order!Fence("acquire")
    <3>1. at[2] = 2 /\ t = 2
      BY <2>1, <2>3
    <3>2. acquired[2]["x"] = 2 /\ at[1] = 4
      BY <3>1 DEF FenceInv
    <3>3. /\ OrderTypes' /\ StoreValues' /\ UNCHANGED <<text, stores, acquired, sc, z>>
          /\ at' = [at EXCEPT ![t] = @ + 1]
          /\ \A u \in Order!Thread : u # t => view'[u] = view[u] /\ released'[u] = released[u]
          /\ \A m \in Order!Loc : acquired[t][m] = 2 => view'[t][m] = 2
      BY <1>4, <2>3, FenceEffect
    <3>4. /\ at'[2] = 3 /\ at'[1] = 4 /\ view'[2]["x"] = 2
          /\ view'[1] = view[1] /\ released'[1] = released[1]
      BY <1>0, <3>1, <3>2, <3>3
    <3>5. /\ Len(stores["x"]) = 2 /\ Len(stores["y"]) = 2 /\ view[1]["x"] = 2
          /\ stores["y"][2].view["x"] = 2 /\ released[1]["x"] = 2
      BY <3>2 DEF FenceInv
    <3>6. FenceInv'
      BY <3>3, <3>4, <3>5 DEF FenceInv
    <3>. QED
      BY <3>3, <3>6
  <2>. QED
    BY <2>1, <2>2, <2>3
<1>. QED
  BY <1>1, <1>2, <1>3, <1>4 DEF Order!Run
(* Where the programs start.                                                *)
LEMMA OrderStart ==
  ASSUME NEW n \in {2, 4}, DOMAIN text = 1 .. n, Order!InitWith(text)
  PROVE  /\ OrderTypes /\ StoreValues /\ z = 0
         /\ at = [t \in 1 .. n |-> 1]
         /\ Len(stores["x"]) = 1 /\ Len(stores["y"]) = 1
         /\ \A l \in Order!Loc : sc[l] = Len(stores[l])
<1>. DEFINE first == [value |-> FALSE, view |-> Order!NoView]
<1>1. /\ stores = [l \in Order!Loc |-> << first >>]
      /\ view = [t \in Order!Thread |-> Order!NoView]
      /\ released = [t \in Order!Thread |-> Order!NoView]
      /\ acquired = [t \in Order!Thread |-> Order!NoView]
      /\ sc = Order!NoView /\ at = [t \in Order!Thread |-> 1] /\ z = 0
  BY DEF Order!InitWith
<1>2. Order!NoView \in SmallView /\ \A l \in Order!Loc : Order!NoView[l] = 1
  BY DEF Order!NoView, SmallView
<1>3. first \in SmallStore /\ ~first.value
  BY <1>2 DEF SmallStore
<1>. HIDE DEF first
<1>4. << first >> \in Seq(SmallStore) /\ Len(<< first >>) = 1 /\ << first >>[1] = first
  BY <1>3
<1>5. \A l \in Order!Loc : stores[l] = << first >>
  BY <1>1
<1>6. OrderTypes
  BY <1>1, <1>2, <1>4 DEF OrderTypes, Order!Thread
<1>7. StoreValues
  <2>. SUFFICES ASSUME NEW l \in Order!Loc
                PROVE  /\ Len(stores[l]) \in {1, 2} /\ ~stores[l][1].value
                       /\ Len(stores[l]) = 2 => stores[l][2].value
    BY DEF StoreValues
  <2>1. Len(stores[l]) = 1 /\ stores[l][1] = first
    BY <1>4, <1>5
  <2>. QED
    BY <1>3, <2>1
<1>. QED
  BY <1>1, <1>2, <1>4, <1>5, <1>6, <1>7 DEF Order!Thread, Order!Loc

(* All of them in the invariant.                                            *)
LEMMA OrderInit == Order!Init => OrderInv
<1>. SUFFICES ASSUME Order!Init PROVE OrderInv
  OBVIOUS
<1>1. text \in Order!Litmus /\ Order!InitWith(text)
  BY DEF Order!Init, Order!InitWith
<1>2. ASSUME text = Order!sequential_ordering
      PROVE  OrderTypes /\ StoreValues /\ SeqInv
  <2>1. DOMAIN text = 1 .. 4
    BY <1>2, SeqText DEF Order!Thread
  <2>2. /\ OrderTypes /\ StoreValues /\ z = 0 /\ at = [t \in 1 .. 4 |-> 1]
        /\ Len(stores["x"]) = 1 /\ Len(stores["y"]) = 1
        /\ \A l \in Order!Loc : sc[l] = Len(stores[l])
    BY <1>1, <2>1, OrderStart
  <2>3. at[1] = 1 /\ at[2] = 1 /\ at[3] = 1 /\ at[4] = 1
    BY <2>2
  <2>. QED
    BY <2>2, <2>3 DEF SeqInv
<1>3. ASSUME DOMAIN text = 1 .. 2
      PROVE  /\ OrderTypes /\ StoreValues /\ at[1] = 1 /\ at[2] = 1
             /\ Len(stores["x"]) = 1 /\ Len(stores["y"]) = 1
  <2>1. /\ OrderTypes /\ StoreValues /\ at = [t \in 1 .. 2 |-> 1]
        /\ Len(stores["x"]) = 1 /\ Len(stores["y"]) = 1
    BY <1>1, <1>3, OrderStart
  <2>. QED
    BY <2>1
<1>4. ASSUME text = Order!acq_rel_ordering2
      PROVE  OrderTypes /\ StoreValues /\ AcqRelInv
  <2>1. DOMAIN text = 1 .. 2
    BY <1>4, AcqRelText DEF Order!Thread
  <2>2. /\ OrderTypes /\ StoreValues /\ at[1] = 1 /\ at[2] = 1
        /\ Len(stores["x"]) = 1 /\ Len(stores["y"]) = 1
    BY <1>3, <2>1
  <2>3. AcqRelInv
    BY <2>2 DEF AcqRelInv
  <2>. QED
    BY <2>2, <2>3
<1>5. ASSUME text \in {Order!fence_ordering, Order!fence_ordering2}
      PROVE  OrderTypes /\ StoreValues /\ FenceInv
  <2>1. DOMAIN text = 1 .. 2
    BY <1>5, FenceText DEF Order!Thread
  <2>2. /\ OrderTypes /\ StoreValues /\ at[1] = 1 /\ at[2] = 1
        /\ Len(stores["x"]) = 1 /\ Len(stores["y"]) = 1
    BY <1>3, <2>1
  <2>3. FenceInv
    BY <2>2 DEF FenceInv
  <2>. QED
    BY <2>2, <2>3
<1>. QED
  BY <1>1, <1>2, <1>4, <1>5 DEF OrderInv

(* A step of any of them keeps it.                                          *)
LEMMA OrderStep ==
  ASSUME OrderInv, Order!Next \/ UNCHANGED Order!vars
  PROVE  OrderInv'
<1>1. ASSUME NEW t \in Order!Thread, Order!Run(t)
      PROVE  OrderInv'
  <2>1. text' = text
    BY <1>1 DEF Order!Run, Order!DoStore, Order!DoAwait, Order!DoCount, Order!DoFence
  <2>2. text = Order!sequential_ordering => OrderTypes' /\ StoreValues' /\ SeqInv'
    BY <1>1, SeqStep DEF OrderInv
  <2>3. text = Order!acq_rel_ordering2 => OrderTypes' /\ StoreValues' /\ AcqRelInv'
    BY <1>1, AcqRelStep DEF OrderInv
  <2>4. text \in {Order!fence_ordering, Order!fence_ordering2} =>
          OrderTypes' /\ StoreValues' /\ FenceInv'
    BY <1>1, FenceStep DEF OrderInv
  <2>. QED
    BY <2>1, <2>2, <2>3, <2>4 DEF OrderInv
<1>2. ASSUME UNCHANGED Order!vars
      PROVE  OrderInv'
  BY <1>2 DEF Order!vars, OrderInv, OrderTypes, StoreValues, SeqInv, AcqRelInv, FenceInv, Order!Thread
<1>. QED
  BY <1>1, <1>2 DEF Order!Next

(* What the asserts say, and that there is no race.                         *)
LEMMA OrderFires ==
  ASSUME OrderInv
  PROVE  Order!NeverFires
<1>1. ASSUME Order!Done, text = Order!sequential_ordering
      PROVE  z # 0
  <2>0. Len(text[3]) = 2 /\ Len(text[4]) = 2 /\ Order!Thread = 1 .. 4
    BY <1>1, SeqText
  <2>1. at[3] > 2 /\ at[4] > 2
    <3>1. \A t \in 1 .. 4 : at[t] > Len(text[t])
      BY <1>1, <2>0 DEF Order!Done
    <3>2. at[3] > Len(text[3]) /\ at[4] > Len(text[4])
      BY <3>1
    <3>. QED
      BY <2>0, <3>2, Zenon
  <2>. QED
    BY <1>1, <2>1 DEF OrderInv, SeqInv
<1>2. ASSUME Order!Done, text = Order!acq_rel_ordering2
      PROVE  z # 0
  <2>0. Len(text[2]) = 2 /\ Order!Thread = 1 .. 2
    BY <1>2, AcqRelText
  <2>1. at[2] > 2
    <3>1. \A t \in 1 .. 2 : at[t] > Len(text[t])
      BY <1>2, <2>0 DEF Order!Done
    <3>2. at[2] > Len(text[2])
      BY <3>1
    <3>. QED
      BY <2>0, <3>2, Zenon
  <2>. QED
    BY <1>2, <2>1 DEF OrderInv, AcqRelInv
<1>3. ASSUME Order!Done, text \in {Order!fence_ordering, Order!fence_ordering2}
      PROVE  z # 0
  <2>1. Len(text[2]) = 3 /\ Order!Thread = 1 .. 2
    BY <1>3, FenceText
  <2>2. at[2] > 3
    <3>1. \A t \in 1 .. 2 : at[t] > Len(text[t])
      BY <1>3, <2>1 DEF Order!Done
    <3>2. at[2] > Len(text[2])
      BY <3>1
    <3>. QED
      BY <2>1, <3>2, Zenon
  <2>. QED
    BY <1>3, <2>2 DEF OrderInv, FenceInv
<1>4. ASSUME NEW t \in Order!Thread, Order!At(t, "count"), Order!Instr(t).order = "plain"
      PROVE  view[t][Order!Instr(t).loc] = Len(stores[Order!Instr(t).loc])
  <2>1. CASE text = Order!sequential_ordering
    <3>1. OrderTypes
      BY <2>1 DEF OrderInv
    <3>2. Order!Instr(t).order = "seq_cst"
      BY <1>4, <2>1, <3>1, SeqAt DEF Order!Count
    <3>. QED
      BY <1>4, <3>2
  <2>2. CASE text = Order!acq_rel_ordering2
    <3>1. OrderTypes
      BY <2>2 DEF OrderInv
    <3>2. Order!Instr(t).order = "relaxed"
      BY <1>4, <2>2, <3>1, AcqRelAt DEF Order!Count
    <3>. QED
      BY <1>4, <3>2
  <2>3. CASE text \in {Order!fence_ordering, Order!fence_ordering2}
    <3>1. OrderTypes /\ FenceInv
      BY <2>3 DEF OrderInv
    <3>2. PICK o \in {"relaxed", "plain"} :
            t = 2 /\ at[t] = 3 /\ Order!Instr(t) = Order!Count("x", o)
      BY <1>4, <2>3, <3>1, FenceAt
    <3>3. Order!Instr(t).loc = "x"
      BY <3>2 DEF Order!Count
    <3>4. view[2]["x"] = 2 /\ Len(stores["x"]) = 2
      BY <3>1, <3>2 DEF FenceInv
    <3>. QED
      BY <3>2, <3>3, <3>4
  <2>4. CASE text = Order!acq_rel_ordering
    <3>1. /\ Order!Thread = 1 .. 4
          /\ text[1] = << Order!Store("x", "release") >>
          /\ text[2] = << Order!Store("y", "release") >>
          /\ text[3] = << Order!Await("x", "acquire"), Order!Count("y", "acquire") >>
          /\ text[4] = << Order!Await("y", "acquire"), Order!Count("x", "acquire") >>
      BY <2>4 DEF Order!Thread, Order!acq_rel_ordering, Order!TwoWriters
    <3>2. \A u \in 1 .. 4 : \A j \in DOMAIN text[u] : text[u][j].order # "plain"
      BY <3>1 DEF Order!Store, Order!Await, Order!Count
    <3>. QED
      BY <1>4, <3>1, <3>2 DEF Order!At, Order!Instr
  <2>5. CASE text = Order!relaxed_ordering
    <3>1. /\ Order!Thread = 1 .. 2
          /\ text[1] = << Order!Store("x", "relaxed"), Order!Store("y", "relaxed") >>
          /\ text[2] = << Order!Await("y", "relaxed"), Order!Count("x", "relaxed") >>
      BY <2>5 DEF Order!Thread, Order!relaxed_ordering
    <3>2. \A u \in 1 .. 2 : \A j \in DOMAIN text[u] : text[u][j].order # "plain"
      BY <3>1 DEF Order!Store, Order!Await, Order!Count
    <3>. QED
      BY <1>4, <3>1, <3>2 DEF Order!At, Order!Instr
  <2>. QED
    BY <2>1, <2>2, <2>3, <2>4, <2>5 DEF OrderInv, Order!Litmus
<1>. QED
  BY <1>1, <1>2, <1>3, <1>4 DEF Order!NeverFires

-----------------------------------------------------------------------------
(* The composition.                                                         *)
IInv ==
  /\ QueueInv /\ SpinInv /\ MaxInv /\ PairInv
  /\ running = "threadPool" => PoolInv /\ NodeInv
  /\ running = "rows" => RowsInv
  /\ running = "threads" => SmallInv
  /\ OrderInv

(* A step belongs to one program, and leaves the others alone.              *)
LEMMA QueueFrame ==
  ASSUME [Next]_vars
  PROVE  Queue!Next \/ UNCHANGED Queue!vars
BY DEF Next, vars, oldVars, newVars, queueVars, Queue!vars, Queue!queueVars, Queue!mainVars,
       InSpin, InMax, InPairs, InClock, InQueue, InOrder, InPool, InRows, InThreads

(* The same of the spin-lock, the maximum and the pairs.                    *)
LEMMA SpinFrame ==
  ASSUME [Next]_vars
  PROVE  Spin!Next \/ UNCHANGED Spin!vars
BY DEF Next, vars, oldVars, newVars, spinVars, Spin!vars,
       InSpin, InMax, InPairs, InClock, InQueue, InOrder, InPool, InRows, InThreads

(* atomic_max.cpp.                                                          *)
LEMMA MaxFrame ==
  ASSUME [Next]_vars
  PROVE  Maxi!Next \/ UNCHANGED Maxi!vars
BY DEF Next, vars, oldVars, newVars, maxVars, Maxi!vars,
       InSpin, InMax, InPairs, InClock, InQueue, InOrder, InPool, InRows, InThreads

(* all_pair.cpp.                                                            *)
LEMMA PairFrame ==
  ASSUME [Next]_vars
  PROVE  Pairs!Next \/ UNCHANGED Pairs!vars
BY DEF Next, vars, oldVars, newVars, pairVars, Pairs!vars,
       InSpin, InMax, InPairs, InClock, InQueue, InOrder, InPool, InRows, InThreads

(* The memory orders.                                                       *)
LEMMA OrderFrame ==
  ASSUME [Next]_vars
  PROVE  Order!Next \/ UNCHANGED Order!vars
BY DEF Next, vars, oldVars, newVars, orderVars, Order!vars,
       InSpin, InMax, InPairs, InClock, InQueue, InOrder, InPool, InRows, InThreads

(* The splits.                                                              *)
LEMMA RowsFrame ==
  ASSUME [Next]_vars
  PROVE  running' = running /\ (running = "rows" => Rows!Next \/ UNCHANGED Rows!vars)
BY DEF Next, vars, newVars, splitVars, Rows!vars,
       InSpin, InMax, InPairs, InClock, InQueue, InOrder, InPool, InRows, InThreads

(* The small programs.                                                      *)
LEMMA ThreadsFrame ==
  ASSUME [Next]_vars
  PROVE  running' = running /\ (running = "threads" => Threads!Next \/ UNCHANGED Threads!vars)
BY DEF Next, vars, newVars, threadVars, Threads!vars,
       InSpin, InMax, InPairs, InClock, InQueue, InOrder, InPool, InRows, InThreads

(* The pool.                                                                *)
LEMMA PoolFrame ==
  ASSUME [Next]_vars
  PROVE  running' = running /\ (running = "threadPool" => Pool!Next \/ UNCHANGED Pool!vars)
BY DEF Next, vars, newVars, poolVars, Pool!vars,
       InSpin, InMax, InPairs, InClock, InQueue, InOrder, InPool, InRows, InThreads

(* The queue starts in the invariant.                                       *)
LEMMA QueueInit == Queue!Init => QueueInv
<1>. SUFFICES ASSUME Queue!Init PROVE QueueInv
  OBVIOUS
<1>. DEFINE e == [end |-> "none", value |-> 0]
<1>0. e \in [end : {"none", "front", "back"}, value : Nat] /\ e.end = "none" /\ e.value = 0
  OBVIOUS
<1>1. /\ seen = [c \in Consumer |-> e] /\ consumer = [c \in Consumer |-> "test"]
      /\ stop = FALSE /\ pushed = 0 /\ popped = 0 /\ pushedAtStop = 0
      /\ producer = [p \in Producer |-> "test"]
  BY DEF Queue!Init, Queue!Nothing
<1>. HIDE DEF e
<1>2. QueueType /\ StopInv
  <2>1. /\ producer \in [Producer -> {"test", "push", "notify", "exits"}]
        /\ consumer \in [Consumer -> {"test", "empty", "lock", "asleep", "holding", "exits"}]
    BY <1>1
  <2>2. \A c \in Consumer : seen[c] = e /\ consumer[c] = "test"
    BY <1>1
  <2>3. seen \in [Consumer -> [end : {"none", "front", "back"}, value : Nat]]
    BY <1>0, <1>1
  <2>4. QueueType
    BY <1>1, <2>1, <2>3 DEF QueueType
  <2>5. StopInv
    BY <1>0, <1>1, <2>2 DEF StopInv
  <2>. QED
    BY <2>4, <2>5
<1>3. Queue!Asleep = {}
  BY DEF Queue!Init, Queue!Asleep
<1>. QED
  BY <1>2, <1>3 DEF QueueInv, Queue!NobodySleepsOnWork

(* So does the pool.                                                        *)
LEMMA PoolInit == Pool!Init => PoolInv
<1>. SUFFICES ASSUME Pool!Init PROVE PoolInv
  OBVIOUS
<1>. USE DEF Pool!Init
<1>1. traverse \in Seq(Nat)
  <2>1. CASE preorder
    BY <2>1
  <2>2. CASE ~preorder
    <3>1. num_nodes \in Nat /\ traverse = [k \in 1 .. num_nodes |-> k - 1]
      BY <2>2, PoolAssumption
    <3>. QED
      BY <3>1
  <2>. QED
    BY <2>1, <2>2
<1>2. <<>> \in Seq(Nat) /\ <<>> \in Seq(Future) /\ Len(<<>>) = 0 /\ DOMAIN <<>> = {}
  OBVIOUS
<1>3. PoolType
  BY <1>1, <1>2 DEF PoolType, Submitter
<1>4. Range(tasks) = {} /\ IsInjective(tasks)
  BY <1>2 DEF Range, IsInjective
<1>5. TaskInv
  BY <1>2, <1>4 DEF TaskInv
<1>6. PrintInv
  BY <1>2 DEF PrintInv
<1>7. ActiveInv
  <2>1. Inside = {}
    BY DEF Inside
  <2>. QED
    BY <2>1, FS_EmptySet DEF ActiveInv
<1>8. Pool!EveryTaskIsServed
  BY DEF Pool!EveryTaskIsServed
<1>. QED
  BY <1>3, <1>5, <1>6, <1>7, <1>8 DEF PoolInv

(* A step of any program keeps the invariant of the queue.                  *)
LEMMA QueueStep ==
  ASSUME QueueInv, Queue!Next \/ UNCHANGED Queue!vars
  PROVE  QueueInv'
<1>1. CASE Queue!Next
  BY <1>1, QueueTypeStep, QueueStopStep, QueueWakeStep DEF QueueInv
<1>2. CASE UNCHANGED Queue!vars
  <2>1. Queue!NobodySleepsOnWork'
    BY <1>2 DEF QueueInv, Queue!vars, Queue!queueVars, Queue!mainVars,
                Queue!NobodySleepsOnWork, Queue!Asleep
  <2>. QED
    BY <1>2, <2>1 DEF QueueInv, QueueType, StopInv, Queue!vars, Queue!queueVars, Queue!mainVars
<1>. QED
  BY <1>1, <1>2

(* And that of the pool, as long as it is the pool that runs.               *)
LEMMA PoolStep ==
  ASSUME PoolInv, Pool!Next \/ UNCHANGED Pool!vars
  PROVE  PoolInv'
<1>1. CASE Pool!Next
  BY <1>1, PoolTypeStep, TaskStep, PrintStep, ActiveStep, ServeStep DEF PoolInv
<1>2. CASE UNCHANGED Pool!vars
  <2>1. PoolType' /\ TaskInv' /\ PrintInv'
    BY <1>2 DEF PoolInv, PoolType, TaskInv, PrintInv, Pool!vars
  <2>2. ActiveInv'
    BY <1>2 DEF PoolInv, ActiveInv, Inside, Pool!vars
  <2>3. Pool!EveryTaskIsServed'
    BY <1>2 DEF PoolInv, Pool!EveryTaskIsServed, Pool!vars
  <2>. QED
    BY <2>1, <2>2, <2>3 DEF PoolInv
<1>. QED
  BY <1>1, <1>2

(* The invariant holds throughout.                                          *)
LEMMA Invariance == Spec => []IInv
<1>1. Init => IInv
  <2>. SUFFICES ASSUME Init PROVE IInv
    OBVIOUS
  <2>1. QueueInv /\ SpinInv /\ MaxInv /\ PairInv
    BY QueueInit, SpinInit, MaxInit, PairInit DEF Init
  <2>2. running = "threadPool" => PoolInv /\ NodeInv
    BY PoolInit, NodeInit DEF Init
  <2>3. running = "rows" => RowsInv
    BY RowsInit DEF Init
  <2>4. running = "threads" => SmallInv
    BY SmallInit DEF Init
  <2>5. OrderInv
    <3>1. Order!Init
      BY DEF Init, Order!Init, Order!Litmus
    <3>. QED
      BY <3>1, OrderInit
  <2>. QED
    BY <2>1, <2>2, <2>3, <2>4, <2>5 DEF IInv
<1>2. IInv /\ [Next]_vars => IInv'
  <2>. SUFFICES ASSUME IInv, [Next]_vars PROVE IInv'
    OBVIOUS
  <2>1. QueueInv' /\ SpinInv' /\ MaxInv' /\ PairInv'
    <3>1. QueueInv /\ SpinInv /\ MaxInv /\ PairInv
      BY DEF IInv
    <3>. QED
      BY <3>1, QueueFrame, QueueStep, SpinFrame, SpinStep, MaxFrame, MaxStep, PairFrame, PairStep
  <2>2. running' = running
    BY PoolFrame
  <2>3. ASSUME running = "threadPool"
        PROVE  PoolInv' /\ NodeInv'
    <3>1. PoolInv /\ NodeInv /\ (Pool!Next \/ UNCHANGED Pool!vars)
      BY <2>3, PoolFrame DEF IInv
    <3>2. PoolType /\ TaskInv
      BY <3>1 DEF PoolInv
    <3>. QED
      BY <3>1, <3>2, PoolStep, NodeStep
  <2>4. running = "rows" => RowsInv'
    BY RowsFrame, RowsStep DEF IInv
  <2>5. running = "threads" => SmallInv'
    BY ThreadsFrame, SmallStep DEF IInv
  <2>6. OrderInv'
    <3>1. OrderInv
      BY DEF IInv
    <3>. QED
      BY <3>1, OrderFrame, OrderStep
  <2>. QED
    BY <2>1, <2>2, <2>3, <2>4, <2>5, <2>6 DEF IInv
<1>. QED
  BY <1>1, <1>2, PTL DEF Spec

(* prod-cons.cpp, threadPool.hpp: while a consumer or a worker sleeps,      *)
(* every item has a notification to come or somebody awake of its own, for  *)
(* every number of producers, consumers, workers and items.                 *)
THEOREM NobodySleeps == Spec => []NobodySleepsOnWork
<1>1. IInv => NobodySleepsOnWork
  BY DEF IInv, QueueInv, PoolInv, NobodySleepsOnWork
<1>. QED
  BY <1>1, Invariance, PTL

(* prod-cons.cpp: a consumer exits only when what was pushed before the     *)
(* stop has been consumed, although it reads the deque without the mutex.   *)
(* threadPool.hpp: the pool is destroyed only when every future is set.     *)
THEOREM StopsLeaveNothing == Spec => []NothingLeftBehind
<1>1. QueueInv => Queue!NothingLeftBehind
  BY DEF QueueInv, QueueType, StopInv, Queue!NothingLeftBehind
<1>2. PoolInv => Pool!StopsEmpty
  <2>. SUFFICES ASSUME PoolInv, stop_pool
                PROVE  tasks = <<>> /\ \A k \in DOMAIN futures : futures[k].set = 1
    BY DEF Pool!StopsEmpty
  <2>1. DOMAIN futures = 1 .. Len(futures) /\ Len(printed) = Len(futures)
    BY DEF PoolInv, PoolType, PrintInv
  <2>2. \A k \in DOMAIN futures : futures[k].set = 1
    BY <2>1 DEF PoolInv, PrintInv
  <2>3. Range(tasks) = {}
    BY <2>2 DEF PoolInv, TaskInv
  <2>4. tasks = <<>>
    <3>1. tasks \in Seq(Nat) /\ (tasks # <<>> => Head(tasks) \in Range(tasks))
      BY TailRange DEF PoolInv, PoolType
    <3>. QED
      BY <2>3, <3>1
  <2>. QED
    BY <2>2, <2>4
<1>3. IInv => NothingLeftBehind
  BY <1>1, <1>2 DEF IInv, NothingLeftBehind
<1>. QED
  BY <1>3, Invariance, PTL

(* What the threads share out is shared out exactly once, for every number  *)
(* of threads, workers, rows, nodes, iterations and units, and every size   *)
(* of chunk: the units of spin-lock.cpp, the numbers of atomic_max.cpp, the *)
(* rows of all_pair.cpp, omp_all_pair.cpp and matrix_vector.cpp, the tasks  *)
(* of threadPool.hpp, the increments and results of the small programs.     *)
THEOREM WorkSharedOut == Spec => []SharedOut
<1>1. IInv => SharedOut
  <2>. SUFFICES ASSUME IInv PROVE SharedOut
    OBVIOUS
  <2>1. Spin!TakenOnce
    BY SpinTaken DEF IInv
  <2>2. Maxi!MaxSoFar
    BY DEF IInv, MaxInv, Maxi!MaxSoFar
  <2>3. Pairs!RowsShared
    BY PairShared DEF IInv
  <2>4. running = "threadPool" => Pool!EveryTaskOnce
    BY PoolOnce DEF IInv
  <2>5. running = "rows" => Rows!RowsSplit
    BY RowsSplitHolds DEF IInv
  <2>6. running = "threads" => Threads!NothingMissed
    BY SmallMissed DEF IInv
  <2>. QED
    BY <2>1, <2>2, <2>3, <2>4, <2>5, <2>6 DEF SharedOut
<1>. QED
  BY <1>1, Invariance, PTL

(* The programs of example4 about memory orders: the assert of the four     *)
(* whose comment says so can never fire, and in the one with a variable     *)
(* that is not atomic the thread that reads it cannot overlook the store:   *)
(* there is no data race.                                                   *)
THEOREM AssertsNeverFire == Spec => []NeverFires
<1>1. IInv => NeverFires
  BY OrderFires DEF IInv, NeverFires
<1>. QED
  BY <1>1, Invariance, PTL
=============================================================================
