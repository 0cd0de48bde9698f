------------------------------- MODULE AlarmClock -------------------------------
(***************************************************************************)
(* alarm_clock.cpp: a student sleeps on a condition variable until main    *)
(* rings.  What alarm_clock_wrong.cpp does instead is its mutant: main     *)
(* sets the flag without the mutex, between the student's check and sleep. *)
(***************************************************************************)
EXTENDS Naturals

VARIABLES
  owner,                \* "student" or "nobody" holds the mutex between two steps
  time_for_breakfast,
  student,              \* "lock", "check", "wait", "asleep" or "awake"
  ringer                \* main: "sleep", "notify" or "join"

vars == <<owner, time_for_breakfast, student, ringer>>

Init ==
  /\ owner = "nobody" /\ time_for_breakfast = FALSE
  /\ student = "lock" /\ ringer = "sleep"

Lock ==
  /\ student = "lock" /\ owner = "nobody"
  /\ owner' = "student" /\ student' = "check"
  /\ UNCHANGED <<time_for_breakfast, ringer>>

Check ==
  /\ student = "check"
  /\ IF time_for_breakfast
     THEN student' = "awake" /\ owner' = "nobody"
     ELSE student' = "wait" /\ UNCHANGED owner
  /\ UNCHANGED <<time_for_breakfast, ringer>>

(* cv.wait: to unlock and to sleep are one step.                            *)
Wait ==
  /\ student = "wait"
  /\ student' = "asleep" /\ owner' = "nobody"
  /\ UNCHANGED <<time_for_breakfast, ringer>>

SpuriousWakeup ==
  /\ student = "asleep" /\ student' = "lock"
  /\ UNCHANGED <<owner, time_for_breakfast, ringer>>

(* Mutant: no lock_guard.                                                   *)
MutGuard == TRUE

Guard == owner = "nobody"

SetTime ==
  /\ ringer = "sleep" /\ Guard
  /\ time_for_breakfast' = TRUE
  /\ ringer' = "notify"
  /\ UNCHANGED <<owner, student>>

notify_one ==
  /\ ringer = "notify"
  /\ ringer' = "join"
  /\ student' = IF student = "asleep" THEN "lock" ELSE student
  /\ UNCHANGED <<owner, time_for_breakfast>>

Student == Lock \/ Check \/ Wait
Main == SetTime \/ notify_one
Done == student = "awake" /\ ringer = "join"

Next == Student \/ SpuriousWakeup \/ Main \/ (Done /\ UNCHANGED vars)
=============================================================================
