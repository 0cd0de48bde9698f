---------------------------- MODULE TerminationLoop ----------------------------
(***************************************************************************)
(* termination_with_loop.cpp: four stages with two nested feedback loops,  *)
(*     Stage_0 -> Stage_A -> Stage_B -> Stage_1                            *)
(* where Stage_B also sends every item back to Stage_A, and Stage_1 back   *)
(* to Stage_0.  Each loop ends by counting the items in flight.            *)
(***************************************************************************)
EXTENDS Integers, SequencesExt

CONSTANT length     \* of the stream, 100 in the program

EOS == 0            \* no item's number
Item == 1 .. length

VARIABLES
  emitted,       \* Stage_0 has sent the items 1 .. emitted
  returned,      \* Stage_0::onthefly
  stage0,        \* "running" or "ended"
  onthefly,      \* Stage_A::onthefly
  eosreceived,   \* Stage_A::eosreceived
  eosA,          \* the channels Stage_A has EOS from, "in" and "loop"
  stageA,
  forwarded,     \* Stage_B has sent Head(toB) to Stage_1, not yet to Stage_A
  stageB, stage1,
  toA, toB, to1, \* queues between consecutive stages
  loopA,         \* queue from Stage_B to Stage_A
  loop0,         \* queue from Stage_1 to Stage_0
  printed        \* printed[i]: how often Stage_1 received item i

outer == <<emitted, returned, stage0>>
inner == <<onthefly, eosreceived, eosA, stageA>>
vars == <<outer, inner, forwarded, stageB, stage1, toA, toB, to1, loopA, loop0, printed>>

Init ==
  /\ emitted = 0 /\ returned = 0 /\ stage0 = "running"
  /\ onthefly = 0 /\ eosreceived = FALSE /\ eosA = {} /\ stageA = "running"
  /\ forwarded = FALSE /\ stageB = "running" /\ stage1 = "running"
  /\ toA = <<>> /\ toB = <<>> /\ to1 = <<>> /\ loopA = <<>> /\ loop0 = <<>>
  /\ printed = [i \in Item |-> 0]

(* Stage_0::svc, the first call: the items go out one by one.               *)
Generate ==
  /\ emitted < length
  /\ emitted' = emitted + 1
  /\ toA' = Append(toA, emitted')
  /\ UNCHANGED <<returned, stage0, inner, forwarded, stageB, stage1, toB, to1, loopA, loop0, printed>>

AllReturned(n) == n = length

(* Stage_0::svc, an item that has come all the way round.                   *)
CountReturned ==
  /\ stage0 = "running" /\ emitted = length
  /\ loop0 # <<>> /\ Head(loop0) # EOS
  /\ loop0' = Tail(loop0)
  /\ returned' = returned + 1
  /\ IF AllReturned(returned')
     THEN stage0' = "ended" /\ toA' = Append(toA, EOS)
     ELSE UNCHANGED <<stage0, toA>>
  /\ UNCHANGED <<emitted, inner, forwarded, stageB, stage1, toB, to1, loopA, printed>>

Entered(n) == n + 1

(* Stage_A::svc, an item from the input.                                    *)
EnterLoop ==
  /\ stageA = "running"
  /\ toA # <<>> /\ Head(toA) # EOS
  /\ toA' = Tail(toA)
  /\ toB' = Append(toB, Head(toA))
  /\ onthefly' = Entered(onthefly)
  /\ UNCHANGED <<outer, eosreceived, eosA, stageA, forwarded, stageB, stage1, to1, loopA, loop0, printed>>

LoopDone(n) == n <= 0 /\ eosreceived

(* Stage_A::svc, an item from the feedback channel.                         *)
LeaveLoop ==
  /\ stageA = "running"
  /\ loopA # <<>> /\ Head(loopA) # EOS
  /\ loopA' = Tail(loopA)
  /\ onthefly' = onthefly - 1
  /\ IF LoopDone(onthefly')
     THEN stageA' = "ended" /\ toB' = Append(toB, EOS)
     ELSE UNCHANGED <<stageA, toB>>
  /\ UNCHANGED <<outer, eosreceived, eosA, forwarded, stageB, stage1, toA, to1, loop0, printed>>

LoopEmpty == onthefly = 0

(* Stage_A::eosnotify, for either channel; with EOS from both, the stage    *)
(* ends.                                                                    *)
eosnotify(channel) ==
  /\ eosreceived' = TRUE
  /\ eosA' = eosA \cup {channel}
  /\ stageA' = IF eosA' = {"in", "loop"} THEN "ended" ELSE stageA
  /\ toB' = IF LoopEmpty THEN Append(toB, EOS) ELSE toB
  /\ UNCHANGED onthefly

InputEnds ==
  /\ stageA = "running"
  /\ toA # <<>> /\ Head(toA) = EOS
  /\ toA' = Tail(toA)
  /\ eosnotify("in")
  /\ UNCHANGED <<outer, forwarded, stageB, stage1, to1, loopA, loop0, printed>>

LoopEnds ==
  /\ stageA = "running"
  /\ loopA # <<>> /\ Head(loopA) = EOS
  /\ loopA' = Tail(loopA)
  /\ eosnotify("loop")
  /\ UNCHANGED <<outer, forwarded, stageB, stage1, toA, to1, loop0, printed>>

(* Stage_B::svc: forward first, then backward.                              *)
SendForward ==
  /\ stageB = "running" /\ ~forwarded
  /\ toB # <<>> /\ Head(toB) # EOS
  /\ to1' = Append(to1, Head(toB))
  /\ forwarded' = TRUE
  /\ UNCHANGED <<outer, inner, stageB, stage1, toA, toB, loopA, loop0, printed>>

Backward(i) == loopA' = Append(loopA, i) /\ UNCHANGED to1

SendBackward ==
  /\ forwarded
  /\ Backward(Head(toB))
  /\ toB' = Tail(toB)
  /\ forwarded' = FALSE
  /\ UNCHANGED <<outer, inner, stageB, stage1, toA, loop0, printed>>

StageBEnds ==
  /\ stageB = "running" /\ ~forwarded
  /\ toB # <<>> /\ Head(toB) = EOS
  /\ toB' = Tail(toB)
  /\ to1' = Append(to1, EOS) /\ loopA' = Append(loopA, EOS)
  /\ stageB' = "ended"
  /\ UNCHANGED <<outer, inner, forwarded, stage1, toA, loop0, printed>>

(* Stage_1::svc.                                                            *)
Echo ==
  /\ stage1 = "running"
  /\ to1 # <<>>
  /\ to1' = Tail(to1)
  /\ loop0' = Append(loop0, Head(to1))
  /\ IF Head(to1) = EOS
     THEN stage1' = "ended" /\ UNCHANGED printed
     ELSE printed' = [printed EXCEPT ![Head(to1)] = @ + 1] /\ UNCHANGED stage1
  /\ UNCHANGED <<outer, inner, forwarded, stageB, toA, toB, loopA>>

Stage0 == Generate \/ CountReturned
StageA == EnterLoop \/ LeaveLoop \/ InputEnds \/ LoopEnds
StageB == SendForward \/ SendBackward \/ StageBEnds
Over == stage0 = "ended" /\ stageA = "ended" /\ stage1 = "ended"
Ended == Over /\ UNCHANGED vars

Next == Stage0 \/ StageA \/ StageB \/ Echo \/ Ended

-----------------------------------------------------------------------------
Count(q) == Cardinality({k \in DOMAIN q : q[k] # EOS})

(* The inner loop's counter is the number of items inside the loop, so no   *)
(* item is lost when Stage_A ends on it.                                    *)
LoopCounted == onthefly = Count(toB) + Count(loopA)

(* EOS goes into the inner loop only behind the last item, and the stages   *)
(* after it end only when the item stream has come all the way round.       *)
EOSBehindLastItem ==
  (EOS \in {toB[k] : k \in DOMAIN toB} \/ stageB = "ended")
    => returned = length /\ onthefly = 0
=============================================================================
