-------------------------------- MODULE NKeysMPI -------------------------------
(***************************************************************************)
(* nkeys-seq.cpp: a stream of pairs of distinct keys is counted; the       *)
(* counter that reaches SIZE is spent in a matrix product and restarted    *)
(* from a value taken from the result.  Sums are kept exact: V holds the   *)
(* results times SIZE * SIZE, as the elements of the matrices are integers *)
(* divided by SIZE.                                                        *)
(*                                                                         *)
(* nkeys-par.cpp: every rank draws the same stream and keeps its own copy  *)
(* of the counters and of the sums; a product is split by rows among the   *)
(* ranks of a communicator and reduced.  Built with SSTEP = 0 all ranks    *)
(* compute both products; with SSTEP = 1 the even ranks compute the first, *)
(* the odd ranks the second, and ranks 0 and 1 broadcast them.  Between    *)
(* two collectives a rank's work is one step.                              *)
(***************************************************************************)
EXTENDS Integers, Sequences, FiniteSetsExt

CONSTANTS
  nkeys,     \* number of keys
  SIZE,      \* counter limit, 64 in the program
  mpiSize,   \* number of ranks
  length     \* stream length

(* A turn, as a function of counters and sums: the sequential program.      *)
Key == 0 .. nkeys - 1
Pair == {p \in Key \X Key : p[1] # p[2]}

(* The pair the loop works on, from two draws of the generator.             *)
Distinct(k1, k2) == IF k1 = k2 THEN <<(k1 + 1) % nkeys, k2>> ELSE <<k1, k2>>

(* mm over some of the rows of C, with the matrices of init.                *)
SumOfRows(rows, c1, c2, key1, key2) ==
  MapThenSumSet(
    LAMBDA i : MapThenSumSet(
      LAMBDA j : MapThenSumSet(
        LAMBDA k : (key1 - i - k) * (key2 - k - j), 0 .. c2 - 1), 0 .. c1 - 1), rows)

compute(c1, c2, key1, key2) == SumOfRows(0 .. c1 - 1, c1, c2, key1, key2)

(* Mutant: the new value is not limited to half of SIZE.                    *)
MutRestart(r) == ((r \div (SIZE * SIZE)) % SIZE) + 1

(* Truncation towards zero, remainder, and at most half of SIZE.            *)
Restart(r) ==
  LET trunc == IF r >= 0 THEN r \div (SIZE * SIZE) ELSE -((-r) \div (SIZE * SIZE))
  IN  IF trunc % SIZE > SIZE \div 2 THEN 0 ELSE trunc % SIZE

Count(map, p) == [k \in Key |-> IF k \in {p[1], p[2]} THEN map[k] + 1 ELSE map[k]]

(* key1's, or key2's, counter has reached the limit (w is 1 or 2).          *)
Reached(map, p, w) == map[p[w]] = SIZE /\ map[p[3 - w]] # 0

Product(map, p, w) == compute(map[p[w]], map[p[3 - w]], p[w], p[3 - w])

Add(V, p, r1, r2) == [k \in Key |-> V[k] + (IF k = p[1] THEN r1 ELSE 0)
                                         + (IF k = p[2] THEN r2 ELSE 0)]

Reset(map, p, reset1, reset2, r1, r2) ==
  [k \in Key |-> IF reset2 /\ k = p[2] THEN Restart(r2)
                 ELSE IF reset1 /\ k = p[1] THEN Restart(r1) ELSE map[k]]

Result(map, p, w, needed) == IF needed THEN Product(map, p, w) ELSE 0

(* One turn of the main loop.                                               *)
Turn(s, p) ==
  LET m == Count(s.map, p)
      n1 == Reached(m, p, 1)
      n2 == Reached(m, p, 2)
      r1 == Result(m, p, 1, n1)
      r2 == Result(m, p, 2, n2)
  IN  [map |-> Reset(m, p, n1, n2, r1, r2), V |-> Add(s.V, p, r1, r2)]

(* One turn of the last loop, which leaves the counters alone.              *)
LastTurn(s, p) ==
  LET needed == s.map[p[1]] > 0 /\ s.map[p[2]] > 0
  IN  [map |-> s.map,
       V |-> Add(s.V, p, Result(s.map, p, 1, needed), Result(s.map, p, 2, needed))]

Start == [map |-> [k \in Key |-> 0], V |-> [k \in Key |-> 0]]

(* The pairs of the last loop, in its order.                                *)
LastPair(n) ==
  LET i == n \div (nkeys - 1)
      j == n % (nkeys - 1)
  IN  <<i, IF j < i THEN j ELSE j + 1>>

LastPairs == nkeys * (nkeys - 1)

-----------------------------------------------------------------------------
Rank == 0 .. mpiSize - 1
color(r) == r % 2

VARIABLES
  SSTEP,     \* how the program is built: 0 or 1
  stream,    \* the pairs drawn so far; the seed is the same on every rank
  turn,      \* turn[r]: turns of the two loops that r has finished
  map, V,    \* r's counters and sums
  res,       \* res[r][w]: r1 and r2
  reset,     \* reset[r][w]: resetkey1 and resetkey2
  todo,      \* todo[r]: which products r still has to compute in this turn
  phase      \* "top", "compute" or "end"

vars == <<SSTEP, stream, turn, map, V, res, reset, todo, phase>>

(* The members of the communicator in which r computes a product.           *)
comm(r) == IF SSTEP = 0 THEN Rank ELSE {s \in Rank : color(s) = color(r)}

(* The rank from which r gets flag and result of product w.                 *)
Root(r, w) == w - 1

(* With SSTEP = 1 main refuses to run on one rank.                          *)
Init ==
  /\ SSTEP \in IF mpiSize > 1 THEN {0, 1} ELSE {0}
  /\ stream = <<>>
  /\ turn = [r \in Rank |-> 0]
  /\ map = [r \in Rank |-> Start.map]
  /\ V = [r \in Rank |-> Start.V]
  /\ res = [r \in Rank |-> <<0, 0>>]
  /\ reset = [r \in Rank |-> <<FALSE, FALSE>>]
  /\ todo = [r \in Rank |-> {}]
  /\ phase = [r \in Rank |-> "top"]

InLastLoop(r) == turn[r] >= length

(* The pair of the turn r is in.                                            *)
CurrentPair(r) == IF InLastLoop(r) THEN LastPair(turn[r] - length) ELSE stream[turn[r] + 1]

(* The products this rank takes part in.                                    *)
Mine(r) == IF SSTEP = 0 THEN {1, 2} ELSE {color(r) + 1}

(* The pair is drawn (the first rank to get there chooses it), counted, and *)
(* the products to compute are determined.                                  *)
Begin(r) ==
  /\ phase[r] = "top" /\ ~InLastLoop(r)
  /\ \E k1, k2 \in Key :
       /\ stream' = IF turn[r] < Len(stream) THEN stream
                    ELSE Append(stream, Distinct(k1, k2))
       /\ LET p == stream'[turn[r] + 1]
              m == Count(map[r], p)
          IN  /\ map' = [map EXCEPT ![r] = m]
              /\ todo' = [todo EXCEPT ![r] = {w \in Mine(r) : Reached(m, p, w)}]
  /\ phase' = [phase EXCEPT ![r] = "compute"]
  /\ UNCHANGED <<turn, V, res, reset>>

BeginLast(r) ==
  /\ phase[r] = "top" /\ InLastLoop(r) /\ turn[r] < length + LastPairs
  /\ LET p == CurrentPair(r) IN
     IF map[r][p[1]] > 0 /\ map[r][p[2]] > 0
     THEN /\ todo' = [todo EXCEPT ![r] = Mine(r)]
          /\ phase' = [phase EXCEPT ![r] = "compute"]
          /\ UNCHANGED turn
     ELSE turn' = [turn EXCEPT ![r] = @ + 1] /\ UNCHANGED <<todo, phase>>
  /\ UNCHANGED <<stream, map, V, res, reset>>

NextProduct(r) == CHOOSE w \in todo[r] : \A x \in todo[r] : w <= x

(* Mutant: the remainder of the rows is left out.                           *)
MutRows(c1, members, r) ==
  LET rank == Cardinality({s \in members : s < r})
      quota == c1 \div Cardinality(members)
  IN  rank * quota .. (rank + 1) * quota - 1

(* start_row .. end_row - 1.                                                *)
Rows(c1, members, r) ==
  LET rank == Cardinality({s \in members : s < r})
      quota == c1 \div Cardinality(members)
      remainder == c1 % Cardinality(members)
      start == rank * quota + (IF rank < remainder THEN rank ELSE remainder)
  IN  start .. start + quota + (IF rank < remainder THEN 1 ELSE 0) - 1

LocalSum(r, w, members) ==
  LET p == CurrentPair(r)
      c1 == map[r][p[w]]
      c2 == map[r][p[3 - w]]
  IN  SumOfRows(Rows(c1, members, r), c1, c2, p[w], p[3 - w])

(* Mutant: MPI_Reduce, only the first member gets the sum.                  *)
MutReceivers(members) == {CHOOSE r \in members : \A s \in members : r <= s}

Receivers(members) == members

(* mm and its MPI_Allreduce, once every member of the communicator is in    *)
(* it; in the main loop the key is to be reset.                             *)
Allreduce(members) ==
  /\ \A r \in members : phase[r] = "compute" /\ todo[r] # {}
  /\ LET sum == MapThenSumSet(LAMBDA r : LocalSum(r, NextProduct(r), members), members)
     IN  res' = [r \in Rank |-> IF r \in Receivers(members)
                                THEN [res[r] EXCEPT ![NextProduct(r)] = sum] ELSE res[r]]
  /\ reset' = [r \in Rank |->
                 IF r \in members /\ ~InLastLoop(r)
                 THEN [reset[r] EXCEPT ![NextProduct(r)] = TRUE] ELSE reset[r]]
  /\ todo' = [r \in Rank |-> IF r \in members THEN todo[r] \ {NextProduct(r)} ELSE todo[r]]
  /\ UNCHANGED <<stream, turn, map, V, phase>>

(* The end of a turn for the ranks of R, with the results and flags given:  *)
(* the sums, and in the main loop the counters that restart.                *)
EndTurn(R, result, flag) ==
  /\ V' = [r \in Rank |-> IF r \in R
             THEN Add(V[r], CurrentPair(r), result[r][1], result[r][2]) ELSE V[r]]
  /\ map' = [r \in Rank |-> IF r \in R
               THEN Reset(map[r], CurrentPair(r), flag[r][1], flag[r][2],
                          result[r][1], result[r][2]) ELSE map[r]]
  /\ res' = [r \in Rank |-> IF r \in R THEN <<0, 0>> ELSE res[r]]
  /\ reset' = [r \in Rank |-> IF r \in R THEN <<FALSE, FALSE>> ELSE reset[r]]
  /\ turn' = [r \in Rank |-> IF r \in R THEN turn[r] + 1 ELSE turn[r]]
  /\ phase' = [r \in Rank |-> IF r \in R THEN "top" ELSE phase[r]]
  /\ UNCHANGED <<stream, todo>>

(* SSTEP = 0: nothing more to exchange.                                     *)
Apply(r) ==
  /\ SSTEP = 0
  /\ phase[r] = "compute" /\ todo[r] = {}
  /\ EndTurn({r}, res, reset)

(* SSTEP = 1: the barrier and the broadcasts.                               *)
Broadcast ==
  /\ SSTEP = 1
  /\ \A r \in Rank : phase[r] = "compute" /\ todo[r] = {}
  /\ EndTurn(Rank,
             [r \in Rank |-> [w \in {1, 2} |-> res[Root(r, w)][w]]],
             [r \in Rank |-> [w \in {1, 2} |-> reset[Root(r, w)][w]]])

Finish(r) ==
  /\ phase[r] = "top" /\ turn[r] = length + LastPairs
  /\ phase' = [phase EXCEPT ![r] = "end"]
  /\ UNCHANGED <<stream, turn, map, V, res, reset, todo>>

RankStep(r) ==
  /\ Begin(r) \/ BeginLast(r) \/ Apply(r) \/ Finish(r)
  /\ UNCHANGED SSTEP
Collective ==
  /\ (\E r \in Rank : Allreduce(comm(r))) \/ Broadcast
  /\ UNCHANGED SSTEP
Finalized == (\A r \in Rank : phase[r] = "end") /\ UNCHANGED vars

Next == (\E r \in Rank : RankStep(r)) \/ Collective \/ Finalized

-----------------------------------------------------------------------------
(* What the sequential program holds after n turns on the stream.           *)
Sequential ==
  LET after[n \in 0 .. length + LastPairs] ==
        IF n = 0 THEN Start
        ELSE IF n <= length THEN Turn(after[n - 1], stream[n])
        ELSE LastTurn(after[n - 1], LastPair(n - 1 - length))
  IN  after

(* Every rank's copy of the counters and sums is, at the top of each turn,  *)
(* what the sequential program has after the same number of turns.          *)
SameAsSequential ==
  \A r \in Rank : phase[r] # "compute" =>
    [map |-> map[r], V |-> V[r]] = Sequential[turn[r]]

(* Ranks that meet in a reduction compute the same product of the same      *)
(* matrices: the rows they add up belong together.                          *)
SameProduct ==
  \A r, s \in Rank :
    s \in comm(r) /\ phase[r] = "compute" /\ phase[s] = "compute" /\ todo[r] # {} /\ todo[s] # {}
      => turn[r] = turn[s] /\ NextProduct(r) = NextProduct(s) /\ map[r] = map[s]

(* No counter is at its limit between two turns: one that were, or had gone *)
(* past it, would never be spent again.                                     *)
CountersRestart == \A r \in Rank : phase[r] = "top" => \A k \in Key : map[r][k] < SIZE
=============================================================================
