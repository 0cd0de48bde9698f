-------------------------------- MODULE Stream --------------------------------
(***************************************************************************)
(* What a stream network promises, whatever farm, pipeline or feedback     *)
(* loop is inside it: every item of the stream comes out exactly once, in  *)
(* any order, and the network ends after the last one.                     *)
(***************************************************************************)
EXTENDS Naturals

CONSTANT Item

VARIABLES
  count,   \* count[i]: how often item i came out
  ended    \* the last stage has ended

vars == <<count, ended>>

Init ==
  /\ count = [i \in Item |-> 0]
  /\ ended = FALSE

Deliver(i) ==
  /\ ~ended
  /\ count[i] = 0
  /\ count' = [count EXCEPT ![i] = 1]
  /\ UNCHANGED ended

End ==
  /\ \A i \in Item : count[i] = 1
  /\ ended' = TRUE
  /\ UNCHANGED count

Next == (\E i \in Item : Deliver(i)) \/ End

Spec == Init /\ [][Next]_vars
=============================================================================
