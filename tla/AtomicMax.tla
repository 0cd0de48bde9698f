-------------------------------- MODULE AtomicMax -------------------------------
(***************************************************************************)
(* atomic_max.cpp, correct_max: threads that share out 0 .. num_iters - 1  *)
(* compute its maximum in an atomic, by compare and exchange.              *)
(***************************************************************************)
EXTENDS Naturals

CONSTANTS num_threads, num_iters

Thread == 0 .. num_threads - 1

VARIABLES
  maximum,    \* the atomic
  i,          \* i[t]: the number t is at
  previous,   \* previous[t]: the value t has loaded
  loaded      \* loaded[t]: t has loaded a value for i[t]

vars == <<maximum, i, previous, loaded>>

Init ==
  /\ maximum = 0
  /\ i = [t \in Thread |-> t]
  /\ previous = [t \in Thread |-> 0]
  /\ loaded = [t \in Thread |-> FALSE]

Load(t) ==
  /\ i[t] < num_iters /\ ~loaded[t]
  /\ previous' = [previous EXCEPT ![t] = maximum]
  /\ loaded' = [loaded EXCEPT ![t] = TRUE]
  /\ UNCHANGED <<maximum, i>>

NextNumber(t) ==
  /\ i' = [i EXCEPT ![t] = @ + num_threads]
  /\ loaded' = [loaded EXCEPT ![t] = FALSE]

(* The loop ends when somebody else has stored more.                        *)
Skip(t) ==
  /\ loaded[t] /\ previous[t] >= i[t]
  /\ NextNumber(t)
  /\ UNCHANGED <<maximum, previous>>

(* Mutant: the store of false_max, whatever has happened since the load.    *)
MutMayExchange(t) == TRUE

MayExchange(t) == maximum = previous[t]

Exchange(t) ==
  /\ loaded[t] /\ previous[t] < i[t]
  /\ MayExchange(t)
  /\ maximum' = i[t]
  /\ NextNumber(t)
  /\ UNCHANGED previous

(* A weak exchange may also fail when it need not.                          *)
Fail(t) ==
  /\ loaded[t] /\ previous[t] < i[t]
  /\ previous' = [previous EXCEPT ![t] = maximum]
  /\ UNCHANGED <<maximum, i, loaded>>

correct_max(t) == Load(t) \/ Skip(t) \/ Exchange(t) \/ Fail(t)

Done == \A t \in Thread : i[t] >= num_iters

Next == (\E t \in Thread : correct_max(t)) \/ (Done /\ UNCHANGED vars)

-----------------------------------------------------------------------------
(* No number a thread has gone past is above the maximum, so that at the    *)
(* end the maximum is num_iters - 1.                                        *)
MaxSoFar ==
  \A t \in Thread : i[t] >= num_threads => i[t] - num_threads <= maximum
=============================================================================
