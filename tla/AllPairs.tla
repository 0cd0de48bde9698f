-------------------------------- MODULE AllPairs --------------------------------
(***************************************************************************)
(* all_pair.cpp, dynamic_all_pairs: threads take chunks of rows from a     *)
(* shared lower bound, under a mutex, and compute them.                    *)
(***************************************************************************)
EXTENDS Integers

CONSTANTS num_threads, rows, chunk_size, free

Thread == 1 .. num_threads
Row == 0 .. rows - 1

VARIABLES
  mutex,         \* the thread that holds it, or free
  global_lower,
  lower,         \* lower[t]: the first row of t's chunk
  row,           \* row[t]: the row t is at
  phase,         \* "loop", "read", "add", "compute" or "ended"
  computed       \* computed[i]: how often row i was computed

vars == <<mutex, global_lower, lower, row, phase, computed>>

Init ==
  /\ mutex = free /\ global_lower = 0
  /\ lower = [t \in Thread |-> 0]
  /\ row = [t \in Thread |-> 0]
  /\ phase = [t \in Thread |-> "loop"]
  /\ computed = [i \in Row |-> 0]

Go(t, from, to) == phase[t] = from /\ phase' = [phase EXCEPT ![t] = to]

(* Mutant: no mutex.                                                        *)
MutFree == TRUE

Free == mutex = free

Lock(t) ==
  /\ lower[t] < rows /\ Free
  /\ Go(t, "loop", "read")
  /\ mutex' = t
  /\ UNCHANGED <<global_lower, lower, row, computed>>

ReadLower(t) ==
  /\ Go(t, "read", "add")
  /\ lower' = [lower EXCEPT ![t] = global_lower]
  /\ row' = [row EXCEPT ![t] = global_lower]
  /\ UNCHANGED <<mutex, global_lower, computed>>

(* The end of the scope unlocks.                                            *)
AddChunk(t) ==
  /\ Go(t, "add", "compute")
  /\ global_lower' = global_lower + chunk_size
  /\ mutex' = free
  /\ UNCHANGED <<lower, row, computed>>

upper(t) == IF lower[t] + chunk_size < rows THEN lower[t] + chunk_size ELSE rows

ComputeRow(t) ==
  /\ phase[t] = "compute" /\ row[t] < upper(t)
  /\ computed' = [computed EXCEPT ![row[t]] = @ + 1]
  /\ row' = [row EXCEPT ![t] = @ + 1]
  /\ UNCHANGED <<mutex, global_lower, lower, phase>>

EndChunk(t) ==
  /\ row[t] >= upper(t) /\ Go(t, "compute", "loop")
  /\ UNCHANGED <<mutex, global_lower, lower, row, computed>>

End(t) ==
  /\ lower[t] >= rows /\ Go(t, "loop", "ended")
  /\ UNCHANGED <<mutex, global_lower, lower, row, computed>>

dynamic_block_cyclic(t) ==
  Lock(t) \/ ReadLower(t) \/ AddChunk(t) \/ ComputeRow(t) \/ EndChunk(t) \/ End(t)

Done == \A t \in Thread : phase[t] = "ended"

Next == (\E t \in Thread : dynamic_block_cyclic(t)) \/ (Done /\ UNCHANGED vars)

-----------------------------------------------------------------------------
(* No row is computed twice, and none is left out: every row below          *)
(* global_lower is computed or in the hands of a thread.                    *)
RowsShared ==
  \A i \in Row :
    /\ computed[i] <= 1
    /\ i < global_lower /\ computed[i] = 0 =>
         \E t \in Thread : phase[t] \in {"add", "compute"} /\ row[t] <= i /\ i < upper(t)
=============================================================================
