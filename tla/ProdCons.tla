-------------------------------- MODULE ProdCons --------------------------------
(***************************************************************************)
(* prod-cons.cpp: producers and consumers around a deque, a mutex and a    *)
(* condition variable, until main requests them to stop.  The deque is the *)
(* number of items ever pushed and ever popped, its two ends.              *)
(***************************************************************************)
EXTENDS Naturals, FiniteSetsExt

CONSTANTS
  Producer, Consumer,
  MaxItems,      \* bound: items a producer makes before main stops it
  none

VARIABLES
  stop,          \* stop_requested()
  told,          \* the callbacks of request_stop have run
  mtx,           \* the thread that holds it between two steps, or none
  pushed, popped,
  made,          \* made[p]: items p has pushed
  producer,      \* "test", "push", "notify" or "exits"
  consumer,      \* "test", "empty", "lock", "asleep", "holding" or "exits"
  seen,          \* seen[c]: the end of the deque c has read without the mutex
  pushedAtStop   \* what was pushed when main requested the stop

queueVars == <<mtx, pushed, popped>>
mainVars == <<stop, told, pushedAtStop>>
vars == <<queueVars, mainVars, made, producer, consumer, seen>>

Nothing == [end |-> "none", value |-> 0]

Init ==
  /\ stop = FALSE /\ told = FALSE /\ pushedAtStop = 0
  /\ mtx = none /\ pushed = 0 /\ popped = 0
  /\ made = [p \in Producer |-> 0]
  /\ producer = [p \in Producer |-> "test"]
  /\ consumer = [c \in Consumer |-> "test"]
  /\ seen = [c \in Consumer |-> Nothing]

TestProducer(p) ==
  /\ producer[p] = "test"
  /\ stop \/ made[p] < MaxItems
  /\ producer' = [producer EXCEPT ![p] = IF stop THEN "exits" ELSE "push"]
  /\ UNCHANGED <<queueVars, mainVars, made, consumer, seen>>

Push(p) ==
  /\ producer[p] = "push" /\ mtx = none
  /\ pushed' = pushed + 1
  /\ made' = [made EXCEPT ![p] = @ + 1]
  /\ producer' = [producer EXCEPT ![p] = "notify"]
  /\ UNCHANGED <<mtx, popped, mainVars, consumer, seen>>

Asleep == {c \in Consumer : consumer[c] = "asleep"}

(* Mutant: notify_one finds nobody.                                         *)
MutNotified == {consumer}

Notified ==
  IF Asleep = {} THEN {consumer}
  ELSE {[consumer EXCEPT ![c] = "lock"] : c \in Asleep}

notify_one(p) ==
  /\ producer[p] = "notify"
  /\ consumer' \in Notified
  /\ producer' = [producer EXCEPT ![p] = "test"]
  /\ UNCHANGED <<queueVars, mainVars, made, seen>>

(* Mutant: the loop does not look at the deque.                             *)
MutAfterStop == "exits"

AfterStop == "empty"

TestConsumer(c) ==
  /\ consumer[c] = "test"
  /\ consumer' = [consumer EXCEPT ![c] = IF stop THEN AfterStop ELSE "lock"]
  /\ UNCHANGED <<queueVars, mainVars, made, producer, seen>>

(* dataq.empty() without the mutex, a data race: the two ends are read one  *)
(* after the other, in either order, whatever happens in between.           *)
ReadFirstEnd(c) ==
  /\ consumer[c] = "empty" /\ seen[c] = Nothing
  /\ seen' \in {[seen EXCEPT ![c] = [end |-> "front", value |-> popped]],
                [seen EXCEPT ![c] = [end |-> "back", value |-> pushed]]}
  /\ UNCHANGED <<queueVars, mainVars, made, producer, consumer>>

ReadOtherEnd(c) ==
  /\ consumer[c] = "empty" /\ seen[c] # Nothing
  /\ LET other == IF seen[c].end = "front" THEN pushed ELSE popped IN
     consumer' = [consumer EXCEPT ![c] = IF seen[c].value = other THEN "exits" ELSE "lock"]
  /\ seen' = [seen EXCEPT ![c] = Nothing]
  /\ UNCHANGED <<queueVars, mainVars, made, producer>>

(* The wait returns at once when there is an item, which is taken.          *)
Pop(c) ==
  /\ consumer[c] = "lock" /\ mtx = none
  /\ popped < pushed
  /\ popped' = popped + 1
  /\ consumer' = [consumer EXCEPT ![c] = "test"]
  /\ UNCHANGED <<mtx, pushed, mainVars, made, producer, seen>>

Wait(c) ==
  /\ consumer[c] = "lock" /\ mtx = none
  /\ popped = pushed /\ ~stop
  /\ consumer' = [consumer EXCEPT ![c] = "asleep"]
  /\ UNCHANGED <<queueVars, mainVars, made, producer, seen>>

SpuriousWakeup(c) ==
  /\ consumer[c] = "asleep"
  /\ consumer' = [consumer EXCEPT ![c] = "lock"]
  /\ UNCHANGED <<queueVars, mainVars, made, producer, seen>>

(* Stopped with nothing to take, the consumer sleeps with the mutex held.   *)
Hold(c) ==
  /\ consumer[c] = "lock" /\ mtx = none
  /\ popped = pushed /\ stop
  /\ mtx' = c
  /\ consumer' = [consumer EXCEPT ![c] = "holding"]
  /\ UNCHANGED <<pushed, popped, mainVars, made, producer, seen>>

Release(c) ==
  /\ consumer[c] = "holding"
  /\ mtx' = none
  /\ consumer' = [consumer EXCEPT ![c] = "test"]
  /\ UNCHANGED <<pushed, popped, mainVars, made, producer, seen>>

request_stop ==
  /\ ~stop
  /\ stop' = TRUE /\ pushedAtStop' = pushed
  /\ UNCHANGED <<queueVars, told, made, producer, consumer, seen>>

(* The callbacks the waiting consumers have registered.                     *)
NotifyAll ==
  /\ stop /\ ~told
  /\ told' = TRUE
  /\ consumer' = [c \in Consumer |-> IF c \in Asleep THEN "lock" ELSE consumer[c]]
  /\ UNCHANGED <<queueVars, stop, pushedAtStop, made, producer, seen>>

Produce(p) == TestProducer(p) \/ Push(p) \/ notify_one(p)
Consume(c) ==
  \/ TestConsumer(c) \/ ReadFirstEnd(c) \/ ReadOtherEnd(c)
  \/ Pop(c) \/ Wait(c) \/ Hold(c) \/ Release(c)
Main == request_stop \/ NotifyAll
Done ==
  /\ \A p \in Producer : producer[p] = "exits"
  /\ \A c \in Consumer : consumer[c] = "exits"

Next ==
  \/ \E p \in Producer : Produce(p)
  \/ \E c \in Consumer : Consume(c) \/ SpuriousWakeup(c)
  \/ Main
  \/ Done /\ UNCHANGED vars

-----------------------------------------------------------------------------
(* No wakeup is lost: while a consumer sleeps, there are no more items than *)
(* notifications to come and consumers awake.                               *)
NobodySleepsOnWork ==
  ~stop /\ Asleep # {} =>
    pushed - popped <= Cardinality({p \in Producer : producer[p] = "notify"})
                         + Cardinality(Consumer \ Asleep)

(* In spite of the race on the deque, what was pushed before the stop was   *)
(* requested is consumed before the first consumer exits; only the last     *)
(* push of a producer that had not seen the request may stay behind.        *)
NothingLeftBehind ==
  (\E c \in Consumer : consumer[c] = "exits") => popped >= pushedAtStop
=============================================================================
