----------------------------- MODULE ThreadPrograms -----------------------------
(***************************************************************************)
(* The small programs of example2, example3, example4 and PDS: main spawns *)
(* threads one by one, and they meet at a vector of results, at futures,   *)
(* at a lock, at a barrier or at a flag.                                   *)
(***************************************************************************)
EXTENDS Naturals, Sequences, FiniteSetsExt

CONSTANTS num_threads, num_iters

Thread == 1 .. num_threads     \* thread t has id t - 1

VARIABLES
  prog,      \* "fibo", "futures", "one_shot", "reader-writer", "lock_count",
             \* "atomic_count", "barrier" or "synchro"
  spawned,   \* how many threads main has spawned
  at,        \* at[t]: "start", "in", "loaded", a line of synchro.cpp, or "ended"
  todo,      \* todo[t]: iterations t has still to do
  tmp,       \* tmp[t]: the shared value t has read last
  results,   \* the vector, or the futures; unset before
  printed,   \* what main has read of them
  shared,    \* shared_counter, counter, sharedX, or the arrivals at the barrier
  go         \* the flag of synchro.cpp, the promise of one_shot_alarm_clock.cpp,
             \* or the barrier is open

vars == <<prog, spawned, at, todo, tmp, results, printed, shared, go>>

Counting == {"reader-writer", "lock_count", "atomic_count"}
unset == 1000     \* no result yet

(* lock_count and atomic_count share out the iterations with a stride.      *)
Iterations(p, t) ==
  IF p = "reader-writer" THEN 2
  ELSE Cardinality({k \in 0 .. num_iters - 1 : k % num_threads = t - 1})

InitWith(p) ==
  /\ prog = p
  /\ spawned = 0 /\ at = [t \in Thread |-> "start"]
  /\ todo = [t \in Thread |-> IF p \in Counting THEN Iterations(p, t) ELSE 0]
  /\ tmp = [t \in Thread |-> 0] /\ results = [t \in Thread |-> unset] /\ printed = <<>>
  /\ shared = 0 /\ go = FALSE

(* synchro.cpp: thread 1 is the consumer, thread 2 the producer.            *)
tc == 1
tp == 2
InProgram == IF prog = "synchro" THEN {tc, tp} ELSE Thread

Go(t, from, to) == t <= spawned /\ at[t] = from /\ at' = [at EXCEPT ![t] = to]

-----------------------------------------------------------------------------
Spawn ==
  /\ spawned < Cardinality(InProgram) /\ spawned' = spawned + 1
  /\ UNCHANGED <<prog, at, todo, tmp, results, printed, shared, go>>

(* a_0 and a_1 after n turns of the loop.                                   *)
turn[n \in 0 .. num_threads] ==
  IF n = 0 THEN <<0, 1>> ELSE <<turn[n - 1][2], turn[n - 1][1] + turn[n - 1][2]>>

fibo(t) ==
  /\ prog \in {"fibo", "futures"} /\ Go(t, "start", "ended")
  /\ results' = [results EXCEPT ![t] = turn[t - 1][1]]
  /\ UNCHANGED <<prog, spawned, todo, tmp, printed, shared, go>>

(* fibo.cpp joins the threads before it reads; with futures, get waits.     *)
PrintResults ==
  /\ prog \in {"fibo", "futures"} /\ spawned = num_threads /\ Len(printed) < num_threads
  /\ IF prog = "fibo" THEN \A t \in Thread : at[t] = "ended"
     ELSE results[Len(printed) + 1] # unset
  /\ printed' = Append(printed, results[Len(printed) + 1])
  /\ UNCHANGED <<prog, spawned, at, todo, tmp, results, shared, go>>

set_value ==
  /\ prog = "one_shot" /\ spawned = num_threads /\ ~go
  /\ go' = TRUE
  /\ UNCHANGED <<prog, spawned, at, todo, tmp, results, printed, shared>>

students(t) ==
  /\ prog = "one_shot" /\ go /\ Go(t, "start", "ended")
  /\ UNCHANGED <<prog, spawned, todo, tmp, results, printed, shared, go>>

-----------------------------------------------------------------------------
(* reader-writer.cpp and atomic_counting.cpp; thread 1 of the former reads. *)
Writer(t) == prog # "reader-writer" \/ t # 1
Inside == {t \in Thread : prog # "barrier" /\ at[t] \in {"in", "loaded"}}

Lock(t) ==
  /\ prog \in {"reader-writer", "lock_count"} /\ todo[t] > 0
  /\ IF Writer(t) THEN Inside = {} ELSE \A u \in Inside : ~Writer(u)
  /\ Go(t, "start", "in")
  /\ UNCHANGED <<prog, spawned, todo, tmp, results, printed, shared, go>>

Load(t) ==
  /\ prog \in {"reader-writer", "lock_count"} /\ Go(t, "in", "loaded")
  /\ tmp' = [tmp EXCEPT ![t] = shared]
  /\ UNCHANGED <<prog, spawned, todo, results, printed, shared, go>>

(* The writer stores; the end of the scope unlocks.                         *)
StoreAndUnlock(t) ==
  /\ prog \in {"reader-writer", "lock_count"} /\ Go(t, "loaded", "start")
  /\ shared' = IF Writer(t) THEN tmp[t] + 1 ELSE shared
  /\ todo' = [todo EXCEPT ![t] = @ - 1]
  /\ UNCHANGED <<prog, spawned, tmp, results, printed, go>>

atomic_count(t) ==
  /\ prog = "atomic_count" /\ t <= spawned /\ todo[t] > 0
  /\ shared' = shared + 1
  /\ todo' = [todo EXCEPT ![t] = @ - 1]
  /\ UNCHANGED <<prog, spawned, at, tmp, results, printed, go>>

Finish(t) ==
  /\ prog \in Counting /\ todo[t] = 0 /\ Go(t, "start", "ended")
  /\ UNCHANGED <<prog, spawned, todo, tmp, results, printed, shared, go>>

-----------------------------------------------------------------------------
(* barrier.cpp: the last one to arrive runs end_barrier.                    *)
arrive(t) ==
  /\ prog = "barrier" /\ Go(t, "start", "in")
  /\ shared' = shared + 1 /\ go' = (shared' = num_threads)
  /\ UNCHANGED <<prog, spawned, todo, tmp, results, printed>>

Leave(t) ==
  /\ prog = "barrier" /\ go /\ Go(t, "in", "ended")
  /\ UNCHANGED <<prog, spawned, todo, tmp, results, printed, shared, go>>

-----------------------------------------------------------------------------
(* synchro.cpp: the consumer, and the producer.                             *)
ReadX(from, to) ==
  /\ prog = "synchro" /\ Go(tc, from, to)
  /\ tmp' = [tmp EXCEPT ![tc] = shared]
  /\ UNCHANGED <<prog, spawned, todo, results, printed, shared, go>>

While(from, to, value) ==
  /\ prog = "synchro" /\ go # value /\ Go(tc, from, to)
  /\ UNCHANGED <<prog, spawned, todo, tmp, results, printed, shared, go>>

consumer ==
  \/ ReadX("start", "while(!go)") \/ While("while(!go)", "read", FALSE)
  \/ ReadX("read", "while(go)") \/ While("while(go)", "last", TRUE)
  \/ ReadX("last", "ended")

StoreX(from, to, value) ==
  /\ prog = "synchro" /\ Go(tp, from, to)
  /\ shared' = value
  /\ UNCHANGED <<prog, spawned, todo, tmp, results, printed, go>>

StoreGo(from, to, value) ==
  /\ prog = "synchro" /\ Go(tp, from, to)
  /\ go' = value
  /\ UNCHANGED <<prog, spawned, todo, tmp, results, printed, shared>>

producer ==
  \/ StoreX("start", "set", 123) \/ StoreGo("set", "sleep", TRUE)
  \/ StoreX("sleep", "reset", 234) \/ StoreGo("reset", "ended", FALSE)

-----------------------------------------------------------------------------
Done ==
  /\ \A t \in InProgram : at[t] = "ended"
  /\ prog \in {"fibo", "futures"} => Len(printed) = num_threads

(* synchro.cpp: the consumer did not look while the flag was up, and spins. *)
Missed == prog = "synchro" /\ at[tc] = "while(!go)" /\ at[tp] = "ended"

Run(t) ==
  \/ fibo(t) \/ students(t)
  \/ Lock(t) \/ Load(t) \/ StoreAndUnlock(t) \/ atomic_count(t) \/ Finish(t)
  \/ arrive(t) \/ Leave(t)
  \/ t = tc /\ consumer
  \/ t = tp /\ producer

Main == Spawn \/ PrintResults \/ set_value

Next ==
  \/ \E t \in Thread : Run(t)
  \/ Main
  \/ (Done \/ Missed) /\ UNCHANGED vars

-----------------------------------------------------------------------------
(* What main prints is what each thread was asked for, in order.  A writer  *)
(* is alone inside the lock, no increment is lost, and nobody leaves the    *)
(* barrier before the last one has come.  The consumer's last read sees the *)
(* producer's last write.                                                   *)
NothingMissed ==
  /\ printed = [k \in DOMAIN printed |-> turn[k - 1][1]]
  /\ \A t, u \in Inside : t # u => ~Writer(t)
  /\ prog \in Counting =>
       shared = MapThenSumSet(LAMBDA t : IF Writer(t) THEN Iterations(prog, t) - todo[t] ELSE 0,
                              Thread)
  /\ prog = "barrier" /\ (\E t \in Thread : at[t] = "ended") =>
       \A t \in Thread : at[t] # "start"
  /\ prog = "synchro" /\ at[tc] = "ended" => tmp[tc] = 234
=============================================================================
