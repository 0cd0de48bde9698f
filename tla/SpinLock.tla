-------------------------------- MODULE SpinLock --------------------------------
(***************************************************************************)
(* spin-lock.cpp: threads take units from a counter, one at a time, inside *)
(* a lock made of an atomic flag.                                          *)
(***************************************************************************)
EXTENDS Naturals, FiniteSetsExt

CONSTANTS Thread, Supply

VARIABLES
  flag,      \* the lock is taken
  counter,   \* units left
  pc,        \* "test_and_set", "spin", "locked", "take", "unlock", "leave", "done"
  success    \* success[t]: units t has taken

vars == <<flag, counter, pc, success>>

Init ==
  /\ flag = FALSE
  /\ counter = Supply
  /\ pc = [t \in Thread |-> "test_and_set"]
  /\ success = [t \in Thread |-> 0]

Go(t, from, to) == pc[t] = from /\ pc' = [pc EXCEPT ![t] = to]

(* Mutant: the old value of the flag is not looked at.                      *)
MutTaken == FALSE

Taken == flag

test_and_set(t) ==
  /\ Go(t, "test_and_set", IF Taken THEN "spin" ELSE "locked")
  /\ flag' = TRUE
  /\ UNCHANGED <<counter, success>>

(* The inner loop, which only reads the flag.                               *)
Spin(t) ==
  /\ ~flag /\ Go(t, "spin", "test_and_set")
  /\ UNCHANGED <<flag, counter, success>>

Load(t) ==
  /\ Go(t, "locked", IF counter > 0 THEN "take" ELSE "leave")
  /\ UNCHANGED <<flag, counter, success>>

Take(t) ==
  /\ Go(t, "take", "unlock")
  /\ success' = [success EXCEPT ![t] = @ + 1]
  /\ counter' = counter - 1
  /\ UNCHANGED flag

unlock(t) ==
  /\ Go(t, "unlock", "test_and_set") \/ Go(t, "leave", "done")
  /\ flag' = FALSE
  /\ UNCHANGED <<counter, success>>

F(t) == test_and_set(t) \/ Spin(t) \/ Load(t) \/ Take(t) \/ unlock(t)

Done == \A t \in Thread : pc[t] = "done"

Next == (\E t \in Thread : F(t)) \/ (Done /\ UNCHANGED vars)

-----------------------------------------------------------------------------
Inside == {t \in Thread : pc[t] \in {"locked", "take", "unlock", "leave"}}

(* One thread at a time is inside the lock, and what the threads have taken *)
(* and what is left always add up to what there was.                        *)
TakenOnce ==
  /\ Cardinality(Inside) <= 1 /\ (Inside # {} => flag)
  /\ counter + MapThenSumSet(LAMBDA t : success[t], Thread) = Supply
=============================================================================
